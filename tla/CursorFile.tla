----------------------------- MODULE CursorFile ------------------------------
(***************************************************************************)
(* The cursor on disk (FileCursorStore, internal/replay/cursor.go) and the *)
(* part of the file system it uses.  Save writes a temporary file with a   *)
(* fixed name and renames it; nothing keeps two calls of Save apart.       *)
(*                                                                         *)
(* A file that is renamed stays the same file for whoever has it open.  So *)
(* an open file is known by the name it has now: "tmp", "main" (the cursor *)
(* file) or "gone" when another file took its name.                        *)
(***************************************************************************)
EXTENDS Integers

CONSTANTS
    Savers,         \* goroutines that call Save
    Cursors         \* the cursors they save

Absent  == <<"absent">>     \* there is no such file
Empty   == <<"empty">>      \* truncated by os.WriteFile, nothing written yet
Garbled == <<"garbled">>    \* no JSON text of one cursor

(* LastPacketID is << >> for "", and << id >> otherwise. *)
Cursor(last, version) == <<"cursor", last, version>>

ASSUME CursorsAssumption == {Absent, Empty, Garbled} \cap Cursors = {}

VARIABLES
    files,          \* contents of the temporary file and of the cursor file
    handle,         \* the file each saver has open
    saving,         \* the cursor each saver writes
    saveStep        \* where each saver is in Save

cursorVars == <<files, handle, saving, saveStep>>

CursorInit ==
    /\ files    = [tmp |-> Absent, main |-> Absent]
    /\ handle   = [g \in Savers |-> "none"]
    /\ saving   = [g \in Savers |-> Absent]
    /\ saveStep = [g \in Savers |-> "idle"]

-----------------------------------------------------------------------------
BeginSave(g, cursor) ==
    /\ saveStep[g] = "idle"
    /\ saving'   = [saving EXCEPT ![g] = cursor]
    /\ saveStep' = [saveStep EXCEPT ![g] = "open"]
    /\ UNCHANGED <<files, handle>>

(* Mutant: the cursor file itself is truncated and written. *)
OpenInPlace(g) ==
    /\ saveStep[g] = "open"
    /\ files'    = [files EXCEPT !.main = Empty]
    /\ handle'   = [handle EXCEPT ![g] = "main"]
    /\ saveStep' = [saveStep EXCEPT ![g] = "write"]
    /\ UNCHANGED saving

(* os.WriteFile creates the temporary file or truncates it, ... *)
OpenTemporary(g) ==
    /\ saveStep[g] = "open"
    /\ files'    = [files EXCEPT !.tmp = Empty]
    /\ handle'   = [handle EXCEPT ![g] = "tmp"]
    /\ saveStep' = [saveStep EXCEPT ![g] = "write"]
    /\ UNCHANGED saving

(* ... and writes from the start of the file.  Whether the new text covers *)
(* an old one depends on their lengths.                                    *)
Outcomes(old, cursor) == IF old = Empty THEN {cursor} ELSE {cursor, Garbled}

WriteTemporary(g) ==
    /\ saveStep[g] = "write"
    /\ \/ /\ handle[g] = "gone"
          /\ UNCHANGED files
       \/ /\ handle[g] # "gone"
          /\ \E text \in Outcomes(files[handle[g]], saving[g]) :
                files' = [files EXCEPT ![handle[g]] = text]
    /\ handle'   = [handle EXCEPT ![g] = "none"]
    /\ saveStep' = [saveStep EXCEPT ![g] = "rename"]
    /\ UNCHANGED saving

(* The file behind "main" loses its name, the one behind "tmp" takes it. *)
Renamed(name) ==
    CASE name = "tmp"  -> "main"
      [] name = "main" -> "gone"
      [] OTHER         -> name

EndSave(g) ==
    /\ saving'   = [saving EXCEPT ![g] = Absent]
    /\ saveStep' = [saveStep EXCEPT ![g] = "idle"]

Rename(g) ==
    /\ saveStep[g] = "rename"
    /\ files.tmp # Absent
    /\ files'    = [tmp |-> Absent, main |-> files.tmp]
    /\ handle'   = [h \in Savers |-> Renamed(handle[h])]
    /\ EndSave(g)

(* A step returns an error: the directory cannot be made, the disk is full *)
(* in the middle of a text, another saver renamed the temporary file.      *)
SaveFails(g) ==
    /\ saveStep[g] \in {"open", "write", "rename"}
    /\ \/ UNCHANGED files
       \/ /\ saveStep[g] = "write" /\ handle[g] # "gone"
          /\ files' = [files EXCEPT ![handle[g]] = Garbled]
    /\ handle'   = [handle EXCEPT ![g] = "none"]
    /\ EndSave(g)

(* The process ends; files stay as they are. *)
CursorCrash ==
    /\ handle'   = [g \in Savers |-> "none"]
    /\ saving'   = [g \in Savers |-> Absent]
    /\ saveStep' = [g \in Savers |-> "idle"]
    /\ UNCHANGED files

SaveSucceeds(g) == OpenTemporary(g) \/ WriteTemporary(g) \/ Rename(g)

CursorNext ==
    \/ \E g \in Savers : \/ \E cursor \in Cursors : BeginSave(g, cursor)
                         \/ SaveSucceeds(g)
                         \/ SaveFails(g)
    \/ CursorCrash

CursorSpec == CursorInit /\ [][CursorNext]_cursorVars

-----------------------------------------------------------------------------
(* Load decodes whatever the cursor file holds; no file is no error. *)
Loadable == files.main \in Cursors \cup {Absent}

CursorTypeOK ==
    /\ files \in [{"tmp", "main"} -> Cursors \cup {Absent, Empty, Garbled}]
    /\ handle \in [Savers -> {"none", "tmp", "main", "gone"}]
    /\ saving \in [Savers -> Cursors \cup {Absent}]
    /\ saveStep \in [Savers -> {"idle", "open", "write", "rename"}]

(* cursor.go:32: Save writes the cursor file atomically.  Whenever the     *)
(* process stops, the next one finds no cursor or a whole one.             *)
SaveIsAtomic == Loadable

=============================================================================
