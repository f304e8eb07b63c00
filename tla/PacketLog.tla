------------------------------ MODULE PacketLog ------------------------------
(***************************************************************************)
(* What the store promises to everything that reads it (index rebuild,     *)
(* replay, web handlers): an append-only log in which every ID occurs once.*)
(***************************************************************************)
EXTENDS Sequences

CONSTANTS IDs

VARIABLES log

LogInit == log = << >>

Occurs(id) == \E i \in DOMAIN log : log[i] = id

AppendNew(id) ==
    /\ ~ Occurs(id)
    /\ log' = Append(log, id)

LogNext == \E id \in IDs : AppendNew(id)

LogSpec == LogInit /\ [][LogNext]_log

=============================================================================
