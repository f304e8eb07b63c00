------------------------------- MODULE Replay --------------------------------
(***************************************************************************)
(* The replay service (internal/replay/replay.go, scheduler.go) on the     *)
(* packet store and the cursor file.  A client is an HTTP request at work  *)
(* on one replay (handlers.go:142-198); requests share the service, its    *)
(* task tracker, its list of outputs and the cursor file.  The process may *)
(* end at any step: what is in memory is gone, files stay, and the capture *)
(* reads the same traffic again.                                           *)
(*                                                                         *)
(* Of the index only the version matters, which the cursor records; module *)
(* IndexRebuild shows the steps of a rebuild.  The sums of Stats are left  *)
(* out.                                                                    *)
(***************************************************************************)
EXTENDS Schedule, CursorFile

CONSTANTS
    TrafficChoices, \* what the capture may hand to the store, packet by packet:
                    \* an ID that is stored does not reach it again
    Kinds,          \* the requests clients make
    MaxWork,        \* bound on the packets of the traffic and the requests
                    \* of all clients together
    MaxCrashes,     \* bound on the crashes
    Torn            \* what a data race leaves in `outputs': any value

ASSUME ReplayAssumption ==
    /\ TrafficChoices \subseteq Seq(Offered)
    /\ Kinds \subseteq {"all", "batch", "stream", "resume"}
    /\ MaxWork \in Nat
    /\ MaxCrashes \in Nat
    /\ \A t \in TrafficChoices :
          /\ \A i, j \in DOMAIN t : t[i].id = t[j].id => i = j
          /\ {Cursor(last, v) : last \in {<< >>} \cup {<< t[i].id >> : i \in DOMAIN t},
                               v \in 0 .. Len(t)} \subseteq Cursors
    /\ Torn \notin Seq(Offered)

VARIABLES
    traffic,        \* the packets that reach the store, in order of arrival
    version,        \* Index.version
    job,            \* what each client's request is doing
    tasks,          \* TaskTracker: the tasks by their ID
    outputs,        \* ReplayService.outputs
    requests,       \* number of requests made
    crashes,        \* number of crashes
    emitted,        \* IDs of all packets ever put out
    behind,         \* IDs that were put out on the way to the saved cursor
    overlapped,     \* whether two requests ever ran at the same time
    solo            \* the client of the request that was made last, as long
                    \* as no other request has run beside it

serviceVars == <<version, job, tasks, outputs>>
ghostVars == <<traffic, requests, crashes, emitted, behind, overlapped, solo>>
replayVars == <<storeVars, cursorVars, serviceVars, ghostVars>>

(* `sent' and `size', the number of packets that were stored when RunTask  *)
(* or the handler of Replay called Ordered, are kept for the properties.   *)
Idle == [kind |-> "none", step |-> "idle", task |-> << >>, batches |-> << >>,
         from |-> << >>, last |-> << >>, version |-> 0, count |-> 0, sent |-> {},
         size |-> 0]

ReplayInit ==
    /\ StoreInit
    /\ CursorInit
    /\ traffic \in TrafficChoices
    /\ version    = 0
    /\ job        = [g \in Savers |-> Idle]
    /\ tasks      = << >>
    /\ outputs    = << >>
    /\ requests   = 0
    /\ crashes    = 0
    /\ emitted    = {}
    /\ behind     = {}
    /\ overlapped = FALSE
    /\ solo       = {}

-----------------------------------------------------------------------------
(* TaskTracker.  Snapshot lists a task as often as its ID was begun.       *)

(* Mutant: the task is left pending. *)
BegunPending(known, id) ==
    [t \in DOMAIN known \cup {id} |->
        IF t # id THEN known[t]
        ELSE [state  |-> "pending", count |-> 0,
              listed |-> IF id \in DOMAIN known THEN known[id].listed + 1 ELSE 1]]

Begun(known, id) ==
    [t \in DOMAIN known \cup {id} |->
        IF t # id THEN known[t]
        ELSE [state  |-> "running", count |-> 0,
              listed |-> IF id \in DOMAIN known THEN known[id].listed + 1 ELSE 1]]

Marked(known, id, state, count) ==
    [known EXCEPT ![id].state = state, ![id].count = count]

(* s.outputs is written without a lock: when two requests write to it, it  *)
(* is a data race, and Torn stands for any value the slice may have.       *)
Alone(g) == \A h \in Savers \ {g} : job[h].step = "idle"

Write(g, value) ==
    outputs' = IF Alone(g) /\ (outputs # Torn \/ value = << >>) THEN value ELSE Torn

-----------------------------------------------------------------------------
(* The beginning of a request                                              *)

Enter(g, kind) ==
    /\ job[g].step = "idle"
    /\ kind \in Kinds
    /\ Len(traffic) + requests < MaxWork
    /\ requests'   = requests + 1
    /\ overlapped' = (overlapped \/ ~ Alone(g))
    /\ solo'       = IF Alone(g) THEN {g} ELSE {}
    /\ UNCHANGED <<storeVars, cursorVars, version, traffic, crashes, emitted,
                   behind>>

(* RunTask up to Ordered *)
BeginAll(g) ==
    /\ Enter(g, "all")
    /\ tasks' = Begun(tasks, <<"replay-all">>)
    /\ \E list \in Orders :
          job' = [job EXCEPT ![g] = [Idle EXCEPT !.kind = "all", !.step = "version",
                                                 !.task = <<"replay-all">>,
                                                 !.batches = Batches(list),
                                                 !.size = Len(packets)]]
    /\ UNCHANGED outputs

ReadVersion(g) ==
    /\ job[g].step = "version"
    /\ job' = [job EXCEPT ![g].version = version, ![g].step = "emit"]
    /\ Write(g, << >>)
    /\ UNCHANGED <<storeVars, cursorVars, version, tasks, ghostVars>>

(* Replay of the list the handler took from Ordered *)
BeginBatch(g) ==
    /\ Enter(g, "batch")
    /\ tasks' = Begun(tasks, <<"replay-batch">>)
    /\ \E list \in Orders :
          job' = [job EXCEPT ![g] = [Idle EXCEPT !.kind = "batch", !.step = "emit",
                                                 !.task = <<"replay-batch">>,
                                                 !.batches = Batches(list),
                                                 !.size = Len(packets)]]
    /\ Write(g, << >>)

(* ReplayStream begins a task of its own and then calls Replay; a stream   *)
(* without packets is no task.                                             *)
BeginStream(g) ==
    \E s \in ListStreams :
       LET task == <<"replay-stream", GetStream(s)[1].id>> IN
       /\ Enter(g, "stream")
       /\ tasks' = Begun(Begun(tasks, task), <<"replay-batch">>)
       /\ job' = [job EXCEPT ![g] = [Idle EXCEPT !.kind = "stream", !.step = "emit",
                                                 !.task = task,
                                                 !.batches = Batches(GetStream(s))]]
       /\ Write(g, << >>)

(* Resume up to Load.  A cursor file that does not decode ends it, and the *)
(* task stays as it was begun.                                             *)
BeginResume(g) ==
    /\ Enter(g, "resume")
    /\ tasks' = Begun(tasks, <<"replay-resume">>)
    /\ LET last == IF files.main = Absent THEN << >> ELSE files.main[2] IN
       IF Loadable
       THEN job' = [job EXCEPT ![g] = [Idle EXCEPT !.kind = "resume", !.step = "refresh",
                                                   !.task = <<"replay-resume">>,
                                                   !.from = last, !.last = last]]
       ELSE UNCHANGED job
    /\ UNCHANGED outputs

(* Index.Rebuild *)
Refresh(g) ==
    /\ job[g].step = "refresh"
    /\ version' = Len(packets)
    /\ job' = [job EXCEPT ![g].step = "tail"]
    /\ UNCHANGED <<storeVars, cursorVars, tasks, outputs, ghostVars>>

ReadTail(g) ==
    /\ job[g].step = "tail"
    /\ \E list \in Orders :
          job' = [job EXCEPT
                    ![g].batches = << SubSeq(list, IndexAfter(list, job[g].from) + 1,
                                             Len(list)) >>,
                    ![g].step = "emit"]
    /\ Write(g, << >>)
    /\ UNCHANGED <<storeVars, cursorVars, version, tasks, ghostVars>>

-----------------------------------------------------------------------------
(* Putting packets out and saving the cursor                               *)

Pending(g) == job[g].step = "emit" /\ job[g].batches # << >>

Emit(g) ==
    /\ Pending(g)
    /\ Head(job[g].batches) # << >>
    /\ LET pkt == Head(job[g].batches)[1] IN
       /\ emitted' = emitted \cup {pkt.id}
       /\ Write(g, IF outputs = Torn THEN Torn ELSE Append(outputs, pkt))
       /\ job' = [job EXCEPT ![g].batches[1] = Tail(@), ![g].last = << pkt.id >>,
                             ![g].count = @ + 1, ![g].sent = @ \cup {pkt.id}]
    /\ UNCHANGED <<storeVars, cursorVars, version, tasks, traffic, requests, crashes,
                   behind, overlapped, solo>>

(* The output callback fails (the one of main.go:91 never does), and the   *)
(* request ends where it is. *)
OutputFails(g) ==
    /\ Pending(g)
    /\ Head(job[g].batches) # << >>
    /\ job' = [job EXCEPT ![g] = Idle]
    /\ UNCHANGED <<storeVars, cursorVars, version, tasks, outputs, ghostVars>>

(* Mutant: the cursor is saved before the chunk is put out. *)
EndBatchEarly(g) ==
    /\ Pending(g)
    /\ \/ /\ job[g].kind \in {"all", "resume"}
          /\ BeginSave(g, Cursor(IF Head(job[g].batches) = << >> THEN job[g].last
                                 ELSE << Last(Head(job[g].batches)).id >>,
                                 IF job[g].kind = "all" THEN job[g].version ELSE version))
          /\ job' = [job EXCEPT ![g].step = "save"]
       \/ /\ job[g].kind \in {"batch", "stream"}
          /\ Head(job[g].batches) = << >>
          /\ job' = [job EXCEPT ![g].batches = Tail(@)]
          /\ UNCHANGED cursorVars
    /\ UNCHANGED <<storeVars, version, tasks, outputs, ghostVars>>

(* RunTask saves the version it read at its beginning, Resume the current  *)
(* one. *)
EndBatch(g) ==
    /\ Pending(g)
    /\ Head(job[g].batches) = << >>
    /\ \/ /\ job[g].kind \in {"all", "resume"}
          /\ BeginSave(g, Cursor(job[g].last,
                                 IF job[g].kind = "all" THEN job[g].version ELSE version))
          /\ job' = [job EXCEPT ![g].step = "save"]
       \/ /\ job[g].kind \in {"batch", "stream"}
          /\ job' = [job EXCEPT ![g].batches = Tail(@)]
          /\ UNCHANGED cursorVars
    /\ UNCHANGED <<storeVars, version, tasks, outputs, ghostVars>>

Save(g) ==
    /\ job[g].step = "save"
    /\ \/ (OpenTemporary(g) \/ WriteTemporary(g)) /\ UNCHANGED <<job, behind>>
       \/ /\ Rename(g)
          /\ job' = [job EXCEPT ![g].batches = Tail(@), ![g].step = "emit"]
          /\ behind' = job[g].sent \cup (IF job[g].kind = "resume" THEN behind ELSE {})
    /\ UNCHANGED <<storeVars, version, tasks, outputs, traffic, requests, crashes, emitted,
                   overlapped, solo>>

SaveError(g) ==
    /\ job[g].step = "save"
    /\ SaveFails(g)
    /\ job' = [job EXCEPT ![g] = Idle]
    /\ UNCHANGED <<storeVars, version, tasks, outputs, ghostVars>>

-----------------------------------------------------------------------------
(* The end of a request                                                    *)

Finished(g) == job[g].step = "emit" /\ job[g].batches = << >>

(* Resume marks its task as resumed, and ReplayStream's Replay completes a *)
(* task of its own, before the task of the request is complete.            *)
FinishInner(g) ==
    /\ Finished(g)
    /\ \/ /\ job[g].kind = "resume"
          /\ tasks' = Marked(tasks, job[g].task, "resumed", tasks[job[g].task].count)
       \/ /\ job[g].kind = "stream"
          /\ tasks' = Marked(tasks, <<"replay-batch">>, "complete", job[g].count)
    /\ job' = [job EXCEPT ![g].step = "complete"]
    /\ UNCHANGED <<storeVars, cursorVars, version, outputs, ghostVars>>

Finish(g) ==
    /\ \/ Finished(g) /\ job[g].kind \in {"all", "batch"}
       \/ job[g].step = "complete"
    /\ tasks' = Marked(tasks, job[g].task, "complete", job[g].count)
    /\ job' = [job EXCEPT ![g] = Idle]
    /\ UNCHANGED <<storeVars, cursorVars, version, outputs, ghostVars>>

Begin(g) == BeginAll(g) \/ BeginBatch(g) \/ BeginStream(g) \/ BeginResume(g)

Proceed(g) ==
    \/ ReadVersion(g) \/ Refresh(g) \/ ReadTail(g)
    \/ Emit(g) \/ OutputFails(g) \/ EndBatch(g) \/ Save(g) \/ SaveError(g)
    \/ FinishInner(g) \/ Finish(g)

-----------------------------------------------------------------------------
Arrive ==
    /\ Len(packets) < Len(traffic)
    /\ Insert(traffic[Len(packets) + 1])
    /\ UNCHANGED <<cursorVars, serviceVars, ghostVars>>

(* The process ends and starts again. *)
Crash ==
    /\ crashes < MaxCrashes
    /\ crashes' = crashes + 1
    /\ CursorCrash
    /\ packets'    = << >>
    /\ byID'       = << >>
    /\ byStream'   = [s \in Streams |-> << >>]
    /\ chunks'     = << >>
    /\ generation' = 0
    /\ version'    = 0
    /\ job'        = [g \in Savers |-> Idle]
    /\ tasks'      = << >>
    /\ outputs'    = << >>
    /\ UNCHANGED <<traffic, requests, emitted, behind, overlapped, solo>>

ReplayNext ==
    \/ \E g \in Savers : Begin(g) \/ Proceed(g)
    \/ Arrive
    \/ Crash

ReplaySpec == ReplayInit /\ [][ReplayNext]_replayVars

-----------------------------------------------------------------------------
Steps == {"idle", "version", "refresh", "tail", "emit", "save", "complete"}

ReplayTypeOK ==
    /\ version \in 0 .. Len(traffic)
    /\ \A g \in Savers :
          /\ job[g].step \in Steps
          /\ job[g].count <= Len(traffic)
          /\ job[g].step = "save" <=> saveStep[g] # "idle"
    /\ \A id \in DOMAIN tasks : tasks[id].state \in {"running", "resumed", "complete"}
    /\ outputs = Torn => overlapped
    /\ CursorTypeOK

(* No packet falls behind the cursor unseen.  As long as packets arrive in *)
(* time order, all packets up to the one in the cursor file were put out,  *)
(* by this process or by one before it: whatever requests overlap, fail or *)
(* die, and whosever cursor ends up in the file, a Resume that leaves these*)
(* packets out loses nothing.                                              *)
StrictlyInOrder == \A i, j \in DOMAIN traffic : i < j => IsLater(traffic[j], traffic[i])

SkipsNothing ==
    StrictlyInOrder =>
        \A i \in DOMAIN traffic :
           files.main \notin {Absent, Empty, Garbled} /\ files.main[2] = << traffic[i].id >>
              => \A j \in 1 .. i : traffic[j].id \in emitted

(* While requests come one at a time, the cursor file is whole, at every   *)
(* step and after every crash.                                             *)
CursorReadable == ~ overlapped => Loadable

(* A request that runs alone puts packets out in time order, across the    *)
(* borders of chunks, whatever requests that overlapped left behind before *)
(* it; ReplayStream, which takes them in order of arrival, only when they  *)
(* arrived in time order.                                                  *)
OutputsInTimeOrder ==
    \A g \in Savers :
        g \in solo /\ job[g].step \in {"emit", "save", "complete"}
        /\ (job[g].kind = "stream" => InTimeOrder(traffic))
            => InTimeOrder(outputs)

(* RunTask and Replay that ran alone have put out the packets that were    *)
(* stored when they began, all of them and each once, and the task says how*)
(* many: whatever arrived meanwhile, and whatever requests that overlapped,*)
(* failed or were cut short by a crash left behind before.                 *)
FinishedPutOutAll ==
    [][\A g \in Savers :
          Finish(g) /\ g \in solo /\ job[g].kind \in {"all", "batch"} =>
             /\ {outputs[i].id : i \in DOMAIN outputs}
                    = {packets[i].id : i \in 1 .. job[g].size}
             /\ Len(outputs) = job[g].size
             /\ tasks'[job[g].task].count = job[g].size]_replayVars

(* As long as packets arrive in time order, requests come one at a time    *)
(* and the process does not crash, Resume continues where the cursor is:   *)
(* nothing that was put out on the way to the cursor is put out again.     *)
ResumeContinues ==
    [][\A g \in Savers :
          /\ StrictlyInOrder /\ ~ overlapped /\ crashes = 0
          /\ job[g].kind = "resume" /\ Emit(g)
          => Head(job[g].batches)[1].id \notin behind]_replayVars

-----------------------------------------------------------------------------
(* replay.go:128: Resume puts out only packets after the cursor that were  *)
(* not replayed.  None of them was put out on the way to that cursor.      *)
ResumeOnlyNew ==
    [][\A g \in Savers :
          job[g].kind = "resume" /\ Emit(g)
             => Head(job[g].batches)[1].id \notin behind]_replayVars

=============================================================================
