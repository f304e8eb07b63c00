----------------------------- MODULE FileSource -----------------------------
(***************************************************************************)
(* The source that reads a list of capture files one after the other       *)
(* (internal/capture/file_source.go).  main hands one FileSource to the    *)
(* capture service, and with -pcap both Process (main.go:125) and the Run  *)
(* of the web server (handlers.go:228) use it, without a lock.  A session  *)
(* calls Open once, Next any number of times and Close once, as Process    *)
(* and Run do (service.go:93-149).  A step of a session goes from the      *)
(* return of one call (of the opener, the scanner or the file) to the next *)
(* one, and what it loaded before the call may have changed after it.      *)
(* Next, advance and Close compare a field with nil and load it again for  *)
(* the call: Vanishes stands for the session that clears it in between.    *)
(***************************************************************************)
EXTENDS Packets, SequencesExt, FiniteSetsExt

CONSTANTS
    FileLists,  \* the lists of files main may pass, each a sequence of lines
    Processors, \* goroutines that call Process once (main.go:125)
    Runners,    \* who calls Run; the running flag keeps the calls apart
    MaxRuns,    \* bound on the calls of Run by each of them
    MaxMeetings, \* bound on the sessions that start while another is at work
    Nobody      \* no session

(* A line is skipped (blank or comment) or a record of fields, of which    *)
(* those in `bad' are missing or do not parse.                             *)
Fields == {"token", "key", "ts", "seq", "hex", "off", "total"}

ASSUME FilesAssumption ==
    /\ \A list \in FileLists :
          /\ list # << >> /\ list \in Seq(Range(list))
          /\ \A f \in DOMAIN list :
                /\ list[f] \in Seq(Range(list[f]))
                /\ \A l \in DOMAIN list[f] :
                      list[f][l].skip \/ list[f][l].bad \subseteq Fields
    /\ IsFiniteSet(Processors \cup Runners)
    /\ Processors \cap Runners = {}
    /\ Nobody \notin Processors \cup Runners
    /\ {MaxRuns, MaxMeetings} \subseteq Nat

Readers == Processors \cup Runners

VARIABLES
    files,      \* FileSource.files
    closed,     \* FileSource.closed
    current,    \* FileSource.current: the number of a handle, 0 for nil
    scanner,    \* FileSource.scanner, with the number of its handle
    index,      \* FileSource.index, from 0 as in the code
    handles,    \* the handles that are open, and who opened them
    pc,         \* where each session is
    at,         \* the argument of its call of openFile
    mine,       \* the scanner its call of Scan works on, 0 outside
    from,       \* where that scanner stood when Scan was called
    torn,       \* whether another call of Scan met it there
    runs,       \* how often each session was started
    result,     \* how a session ended, "none" before it calls Close
    panicked,   \* the session that dereferenced nil: the process is gone
    meetings,   \* how many sessions started while another was at work
    alone,      \* history: no other session was at work during this one
    delivered   \* history: the packets a session that is alone was given

fieldVars == <<files, closed, current, scanner, index>>
scanVars == <<mine, from, torn>>
localVars == <<pc, at, scanVars, runs, result>>
historyVars == <<meetings, alone, delivered>>
sourceVars == <<fieldVars, handles, localVars, panicked, historyVars>>

(* A scanner is known by the handle it reads; it has a position in the     *)
(* file, the line it read last (0: none), and whether it met an error.     *)
NewScanner(id, file) ==
    [id |-> id, file |-> file, pos |-> 0, tok |-> 0, err |-> FALSE]

Nil == NewScanner(0, 1)

SourceInit ==
    /\ files \in FileLists
    /\ closed = FALSE
    /\ current = 0 /\ scanner = Nil /\ index = 0
    /\ handles = {}
    /\ pc     = [g \in Readers |-> "idle"]
    /\ at     = [g \in Readers |-> 0]
    /\ mine   = [g \in Readers |-> 0]
    /\ from   = [g \in Readers |-> 0]
    /\ torn   = [g \in Readers |-> FALSE]
    /\ runs   = [g \in Readers |-> 0]
    /\ result = [g \in Readers |-> "none"]
    /\ panicked = Nobody
    /\ meetings  = 0
    /\ alone     = [g \in Readers |-> TRUE]
    /\ delivered = [g \in Readers |-> << >>]

Active(g) == pc[g] \notin {"idle", "done"}

Goto(g, label) == pc' = [pc EXCEPT ![g] = label]

(* Next returns an error, io.EOF included, or the session leaves its loop. *)
End(g, how) ==
    /\ Goto(g, "close")
    /\ result' = [result EXCEPT ![g] = how]

Panic(g) == panicked' = g /\ UNCHANGED <<pc, result>>

-----------------------------------------------------------------------------
(* Lines *)

Needed(line) ==
    {"token", "key", "ts", "seq", "hex"}
    \cup IF line.frag THEN {"off", "total"} ELSE {}

Parses(line) == line.bad \cap Needed(line) = {}

(* Offset and total of a datagram are not looked at.  A fragment is not    *)
(* validated: a total of zero goes through.                                *)
ParsePacketLine(line) ==
    IF line.frag
    THEN NewFragment(line.stream, line.seq, line.off, line.total, line.hex)
    ELSE NewDatagram(line.stream, line.seq, line.hex)

-----------------------------------------------------------------------------
(* Open and openFile *)

Start(g) ==
    LET met  == {h \in Readers \ {g} : Active(h)}
        meet == IF met = {} THEN {} ELSE met \cup {g}
    IN /\ ~ Active(g)
       /\ runs[g] < IF g \in Runners THEN MaxRuns ELSE 1
       /\ g \in Runners => met \cap Runners = {}
       /\ met # {} => meetings < MaxMeetings
       /\ Goto(g, "open")
       /\ runs' = [runs EXCEPT ![g] = @ + 1]
       /\ result' = [result EXCEPT ![g] = "none"]
       /\ meetings' = IF met = {} THEN meetings ELSE meetings + 1
       /\ alone' = [h \in Readers |-> h \notin meet /\ (h = g \/ alone[h])]
       /\ delivered' = [h \in Readers |->
                          IF h = g \/ h \in meet THEN << >> ELSE delivered[h]]
       /\ UNCHANGED <<fieldVars, handles, at, scanVars, panicked>>

Open(g) ==
    /\ pc[g] = "open"
    /\ closed' = FALSE
    /\ at' = [at EXCEPT ![g] = 0]
    /\ Goto(g, "openfile")
    /\ UNCHANGED <<files, current, scanner, index, handles, scanVars, runs, result, panicked,
                   historyVars>>

(* openFile fails: Open ends the session without Close, advance makes Next *)
(* return the error.  Beyond the last file the error is io.EOF.            *)
OpenFails(g) ==
    /\ IF at[g] = 0
       THEN Goto(g, "done") /\ result' = [result EXCEPT ![g] = "error"]
       ELSE End(g, IF at[g] >= Len(files) THEN "eof" ELSE "error")
    /\ UNCHANGED <<current, scanner, index, handles>>

(* Mutant: the index is that of the next file. *)
OpenedIndexNext(g) == at[g] + 1

(* Mutant: only the rotation assigns the index. *)
OpenedIndexKept(g) == IF at[g] = 0 THEN index ELSE at[g]

OpenedIndex(g) == at[g]

(* openFile returns to Open or to advance. *)
OpenSucceeds(g) ==
    LET used  == {h.id : h \in handles} \cup {mine[h] : h \in Readers} \cup {current, scanner.id}
        fresh == Min(1 .. Cardinality(used) + 1 \ used)
    IN /\ at[g] < Len(files)
       /\ handles' = handles \cup {[id |-> fresh, by |-> <<g, runs[g]>>]}
       /\ current' = fresh
       /\ scanner' = NewScanner(fresh, at[g] + 1)
       /\ index' = OpenedIndex(g)
       /\ Goto(g, IF at[g] = 0 THEN "loop" ELSE "check")
       /\ UNCHANGED result

OpenFile(g) ==
    /\ pc[g] = "openfile"
    /\ OpenFails(g) \/ OpenSucceeds(g)
    /\ at' = [at EXCEPT ![g] = 0]
    /\ UNCHANGED <<files, closed, scanVars, runs, panicked, historyVars>>

-----------------------------------------------------------------------------
(* Next *)

(* The other sessions that are inside Scan on the scanner there is.        *)
InScan(g) == {h \in Readers \ {g} : pc[h] = "scanned" /\ mine[h] = scanner.id}

(* Another session is at the assignments of nil to current and scanner:    *)
(* what was not nil when it was compared is nil when it is called.         *)
Vanishes(g) == \E h \in Readers \ {g} : pc[h] = "forget"

(* The call of Scan, unless the scanner is nil.  Scan is not atomic: two   *)
(* calls at one time on one scanner race.                                  *)
BeginScan(g) ==
    \/ /\ scanner = Nil
       /\ End(g, "eof")
       /\ UNCHANGED <<scanVars, panicked>>
    \/ /\ scanner # Nil
       /\ mine' = [mine EXCEPT ![g] = scanner.id]
       /\ from' = [from EXCEPT ![g] = scanner.pos]
       /\ torn' = [h \in Readers |->
                     torn[h] \/ (InScan(g) # {} /\ h \in InScan(g) \cup {g})]
       /\ Goto(g, "scanned")
       /\ UNCHANGED <<result, panicked>>
    \/ /\ scanner # Nil /\ Vanishes(g)
       /\ Panic(g)
       /\ UNCHANGED scanVars

(* A session leaves its loop when it is cancelled or cannot store, or      *)
(* calls Next.                                                             *)
Next(g) ==
    /\ pc[g] = "loop"
    /\ \/ End(g, "stopped") /\ UNCHANGED <<scanVars, panicked>>
       \/ closed /\ End(g, "error") /\ UNCHANGED <<scanVars, panicked>>
       \/ ~ closed /\ BeginScan(g)
    /\ UNCHANGED <<fieldVars, handles, at, runs, historyVars>>

(* The loop of Next goes on. *)
Continue(g) ==
    /\ pc[g] = "check"
    /\ BeginScan(g)
    /\ UNCHANGED <<fieldVars, handles, at, runs, historyVars>>

(* What Scan may return: the number of a line, 0 for the end, -1 for an    *)
(* error.  A file that was closed still yields what is buffered; at its end*)
(* the read fails, unless the end was seen before.  In a race one of two   *)
(* advances may be lost, and the end or an error may come at any time.     *)
ScanOutcomes(g) ==
    LET lines == {l \in {from[g], scanner.pos} : l < Len(files[scanner.file])}
    IN {-1} \cup {l + 1 : l \in lines}
            \cup IF lines = {} \/ torn[g] THEN {0} ELSE {}

AfterScan(outcome) == IF outcome > 0 THEN "text" ELSE "err"

(* Scan returns.  What it did to a scanner that the field no longer holds  *)
(* nobody sees but through what it returns.                                *)
Scanned(g) ==
    /\ pc[g] = "scanned"
    /\ \/ /\ mine[g] = scanner.id
          /\ \E o \in ScanOutcomes(g) :
                /\ scanner' = [scanner EXCEPT !.pos = IF o > 0 THEN o ELSE @,
                                             !.tok = IF o > 0 THEN o ELSE 0,
                                             !.err = @ \/ o = -1]
                /\ Goto(g, AfterScan(o))
          /\ UNCHANGED <<result, panicked>>
       \/ /\ mine[g] # scanner.id
          /\ \E o \in {-1, 0, 1} : Goto(g, AfterScan(o))
          /\ UNCHANGED <<scanner, result, panicked>>
       \/ torn[g] /\ Panic(g) /\ UNCHANGED scanner
    /\ mine' = [mine EXCEPT ![g] = 0]
    /\ from' = [from EXCEPT ![g] = 0]
    /\ torn' = [torn EXCEPT ![g] = FALSE]
    /\ UNCHANGED <<files, closed, current, index, handles, at, runs, historyVars>>

IsLast == index + 1 >= Len(files)

(* Mutant: the error of the scanner starts the loop again. *)
OnErrorRetries(g) == Goto(g, "check") /\ UNCHANGED result

OnError(g) == End(g, "error")

(* Scan returned false: the error of the scanner there is now decides, and *)
(* the last file ends the source.                                          *)
Err(g) ==
    /\ pc[g] = "err"
    /\ \/ /\ scanner # Nil
          /\ CASE scanner.err -> OnError(g)
               [] ~ scanner.err /\ IsLast -> End(g, "eof")
               [] OTHER -> Goto(g, "advance") /\ UNCHANGED result
          /\ UNCHANGED panicked
       \/ (scanner = Nil \/ InScan(g) # {}) /\ Panic(g)
    /\ UNCHANGED <<fieldVars, handles, at, scanVars, runs, historyVars>>

Skip(g) == Goto(g, "check") /\ UNCHANGED <<result, delivered>>

Malformed(g) == End(g, "error") /\ UNCHANGED delivered

Deliver(g, line) ==
    /\ Goto(g, "loop")
    /\ delivered' = [delivered EXCEPT ![g] =
                       IF alone[g] THEN Append(@, ParsePacketLine(line)) ELSE @]
    /\ UNCHANGED result

(* The token the scanner has now: that of a new scanner, or of one at its  *)
(* end, is empty and skipped.                                              *)
ParseText(g) ==
    LET line == files[scanner.file][scanner.tok]
    IN IF scanner.tok = 0 \/ line.skip
       THEN Skip(g)
       ELSE IF Parses(line) THEN Deliver(g, line) ELSE Malformed(g)

(* Scan returned true.  In a race the text is anything. *)
Text(g) ==
    /\ pc[g] = "text"
    /\ \/ /\ scanner # Nil
          /\ ParseText(g) \/ (InScan(g) # {} /\ (Skip(g) \/ Malformed(g)))
          /\ UNCHANGED panicked
       \/ (scanner = Nil \/ InScan(g) # {}) /\ Panic(g) /\ UNCHANGED delivered
    /\ UNCHANGED <<fieldVars, handles, at, scanVars, runs, meetings, alone>>

-----------------------------------------------------------------------------
(* advance and Close *)

(* Mutant: the rotation leaves the old file open. *)
HasFileAtEnd(g) == current # 0 /\ pc[g] = "close"

HasFile(g) == current # 0

(* Nothing more to close: Close returns, advance calls openFile.           *)
AfterClose(g) ==
    IF result[g] = "none"
    THEN Goto(g, "openfile") /\ at' = [at EXCEPT ![g] = index + 1]
    ELSE Goto(g, "done") /\ UNCHANGED at

(* A file that another session has closed is closed again, in vain.        *)
CloseFile(g) ==
    /\ pc[g] \in {"advance", "close"}
    /\ closed' = (closed \/ pc[g] = "close")
    /\ \/ /\ HasFile(g)
          /\ handles' = {h \in handles : h.id # current}
          /\ Goto(g, "forget")
          /\ UNCHANGED <<at, result, panicked>>
       \/ ~ HasFile(g) /\ AfterClose(g) /\ UNCHANGED <<handles, result, panicked>>
       \/ HasFile(g) /\ Vanishes(g) /\ Panic(g) /\ UNCHANGED <<handles, at>>
    /\ UNCHANGED <<files, current, scanner, index, scanVars, runs, historyVars>>

Forget(g) ==
    /\ pc[g] = "forget"
    /\ current' = 0
    /\ scanner' = Nil
    /\ AfterClose(g)
    /\ UNCHANGED <<files, closed, index, handles, scanVars, runs, result, panicked, historyVars>>

-----------------------------------------------------------------------------
Step(g) ==
    /\ panicked = Nobody
    /\ \/ Open(g) \/ OpenFile(g) \/ Next(g) \/ Continue(g)
       \/ Scanned(g) \/ Text(g) \/ Err(g) \/ CloseFile(g) \/ Forget(g)

SourceNext == \E g \in Readers : Step(g) \/ (panicked = Nobody /\ Start(g))

(* Each session is a goroutine, and none of these steps waits for another. *)
SourceSpec ==
    /\ SourceInit /\ [][SourceNext]_sourceVars
    /\ \A g \in Readers : WF_sourceVars(Step(g))

-----------------------------------------------------------------------------
SourceTypeOK ==
    /\ closed \in BOOLEAN
    /\ current \in Nat
    /\ scanner.file \in DOMAIN files
    /\ {scanner.pos, scanner.tok} \subseteq 0 .. Len(files[scanner.file])
    /\ scanner = Nil <=> scanner.id = 0
    /\ index \in 0 .. Len(files) - 1
    /\ \A g \in Readers :
          /\ pc[g] \in {"idle", "open", "openfile", "loop", "check", "scanned", "text", "err",
                       "advance", "close", "forget", "done"}
          /\ at[g] \in 0 .. Len(files)
          /\ mine[g] # 0 => pc[g] = "scanned"
          /\ result[g] \in {"none", "stopped", "eof", "error"}
    /\ panicked \in Readers \cup {Nobody}

(* What a session is to be given that reads to the end: every line that    *)
(* holds a packet, of every file, in order.                                *)
Given(line) == IF line.skip THEN << >> ELSE << ParsePacketLine(line) >>

PacketsOf(file) == FlattenSeq([l \in DOMAIN file |-> Given(file[l])])

Expected == FlattenSeq([f \in DOMAIN files |-> PacketsOf(files[f])])

(* A session during which no other one was at work gets the packets of all *)
(* files in order: a prefix at any time, all of them when it ends with     *)
(* io.EOF.  Whatever earlier sessions left behind, cut short, failing in a *)
(* rotation or racing each other, Open sets right.                         *)
AloneReadsAll ==
    \A g \in Readers :
        alone[g] => /\ IsPrefix(delivered[g], Expected)
                    /\ result[g] = "eof" => delivered[g] = Expected

(* Such a session never dereferences nil, has one file open at most, and   *)
(* none once it is done, on every path out of it.                          *)
AloneIsTidy ==
    \A g \in Readers :
        LET open == {h \in handles : h.by = <<g, runs[g]>>}
        IN alone[g] => /\ panicked # g
                       /\ Cardinality(open) <= 1
                       /\ pc[g] = "done" => open = {}

(* Every session that is started ends or takes the process with it, even   *)
(* when another rewinds, rotates and closes the files under it: together   *)
(* they never keep each other reading.                                     *)
ReadersFinish ==
    \A g \in Readers : (pc[g] = "open") ~> (pc[g] = "done" \/ panicked # Nobody)

=============================================================================
