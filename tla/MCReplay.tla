------------------------------- MODULE MCReplay ------------------------------
(* Small instances of the replay service.                                  *)
EXTENDS Replay

CONSTANTS s1, c1, c2

MCStreams == {s1}
OneClient == {c1}
TwoClients == {c1, c2}

AllKinds == {"all", "batch", "stream", "resume"}
CursorKinds == {"all", "resume"}

(* The clients run the same handlers. *)
ClientSymmetry == Permutations(TwoClients)

P(seq) == NewDatagram(s1, seq, <<"a">>)

MCOffered == {P(seq) : seq \in 1 .. 4}

(* Packets 1 and 2 carry the same timestamp. *)
MCTimestamp == [pkt \in MCOffered |-> IF pkt.seq = 1 THEN 2 ELSE pkt.seq]

InOrder == {<<P(1), P(3)>>}

(* In time order, and two packets of one instant that arrive late. *)
InAndOutOfOrder == {<<P(1), P(3), P(4)>>, <<P(3), P(2), P(1)>>}

(* The same, and less traffic that leaves room for one more request: for   *)
(* one that runs alone after two that overlapped.                          *)
MoreOrLess == InAndOutOfOrder \cup {<<P(3), P(1)>>}

(* Two packets of one instant, the later number first. *)
Ties == {<<P(2), P(1)>>}

MCCursors ==
    {Cursor(last, v) : last \in {<< >>} \cup {<< pkt.id >> : pkt \in MCOffered},
                       v \in 0 .. 3}

=============================================================================
