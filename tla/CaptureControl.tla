--------------------------- MODULE CaptureControl ---------------------------
(***************************************************************************)
(* Who calls Run, and on what: the start and stop requests of the web      *)
(* server (internal/web/handlers.go:215-250), the demo of main             *)
(* (main.go:110-121), and LiveSource (internal/capture/live_source.go),    *)
(* which main takes when there is neither a list of files nor a sample     *)
(* file.  With -demo there is a sample file, so that the demo and the web  *)
(* server share a file source, which is that of module Capture.  Nobody    *)
(* calls Service.Stop, and main cancels the demo only when it ends.        *)
(***************************************************************************)
EXTENDS Capture

CONSTANTS
    Demo,           \* the goroutine of -demo
    Webs,           \* the goroutines the web server may start, one per start
    Nobody,         \* no goroutine
    LiveKey, LivePayload, \* stream and payload of every packet of LiveSource
    LiveLimit       \* how many packets it makes

(* The payload main gives the live source is not empty (main.go:70).        *)
ASSUME ControlAssumption ==
    /\ Runners = {Demo} \cup Webs
    /\ Demo \notin Webs /\ Nobody \notin Runners
    /\ LiveKey \in Streams
    /\ LivePayload # << >>
    /\ LiveLimit \in Nat

VARIABLES
    live,           \* whether the source is a LiveSource
    emitted,        \* LiveSource.emitted
    spawned,        \* goroutines that exist or existed
    captureRun,     \* Server.captureRun
    captureCancel,  \* Server.captureCancel: the goroutine whose context it ends
    finished,       \* goroutines of the web server that have ended
    held,           \* the cancel a stop request has read and not yet called
    late            \* history: packets received after the context was cancelled

webVars == <<captureRun, captureCancel, finished, held>>
controlVars == <<captureVars, live, emitted, spawned, webVars, late>>

ControlInit ==
    /\ CaptureInit
    /\ live \in BOOLEAN
    /\ emitted = 0
    /\ spawned \in IF live THEN {{}} ELSE {{}, {Demo}}
    /\ captureRun = FALSE
    /\ captureCancel = Nobody
    /\ finished = {}
    /\ held = Nobody
    /\ late = [g \in Runners |-> 0]

-----------------------------------------------------------------------------
(* LiveSource *)

(* All packets have one stream and one payload, and thus one key. *)
LivePacket(seq) == NewDatagram(LiveKey, seq, LivePayload)

LiveOpen(g) ==
    /\ pc[g] = "open"
    /\ emitted' = 0
    /\ Goto(g, "loop")
    /\ UNCHANGED <<cur, todo, cancelled, result, serviceVars, storeVars, dedupVars, asmVars,
                   late>>

LiveEmit(g) ==
    /\ emitted' = emitted + 1
    /\ cur' = [cur EXCEPT ![g] = LivePacket(emitted)]
    /\ late' = [late EXCEPT ![g] = @ + IF cancelled[g] THEN 1 ELSE 0]
    /\ Count("received")
    /\ Goto(g, "check")
    /\ UNCHANGED result

(* Mutant: Next does not look at its context first. *)
LiveRefusesNever(g) == FALSE

LiveRefuses(g) == cancelled[g]

(* The tick of Run, which its select may take although the context is      *)
(* cancelled, and Next up to the select it waits in.                       *)
LiveFetch(g) ==
    /\ pc[g] = "loop"
    /\ \/ /\ LiveRefuses(g)
          /\ End(g, "cancelled")
          /\ UNCHANGED <<cur, stats, emitted, late>>
       \/ /\ ~ LiveRefuses(g) /\ emitted >= LiveLimit
          /\ BeginFlush(g)
          /\ UNCHANGED <<cur, stats, emitted, late>>
       \/ /\ ~ LiveRefuses(g) /\ 0 < emitted /\ emitted < LiveLimit
          /\ Goto(g, "wait")
          /\ UNCHANGED <<cur, stats, result, emitted, late>>
       \/ /\ ~ LiveRefuses(g) /\ emitted = 0 /\ emitted < LiveLimit
          /\ LiveEmit(g)
    /\ UNCHANGED <<hasAssembler, todo, cancelled, running, historyVars, storeVars, dedupVars,
                   asmVars>>

(* The interval is over, or the context is cancelled; when both, either.   *)
LiveWait(g) ==
    /\ pc[g] = "wait"
    /\ \/ LiveEmit(g)
       \/ /\ cancelled[g]
          /\ End(g, "cancelled")
          /\ UNCHANGED <<cur, stats, emitted, late>>
    /\ UNCHANGED <<hasAssembler, todo, cancelled, running, historyVars, storeVars, dedupVars,
                   asmVars>>

LiveClose(g) == UNCHANGED closeErrors /\ Close(g)

-----------------------------------------------------------------------------
(* Sessions over either source *)

SourceStep(g) ==
    IF live
    THEN \/ LiveOpen(g) \/ LiveFetch(g) \/ LiveWait(g)
         \/ LiveClose(g) /\ UNCHANGED <<emitted, late>>
    ELSE (Open(g) \/ Fetch(g) \/ Close(g)) /\ UNCHANGED <<emitted, late>>

ServiceStep(g) ==
    /\ \/ Start(g) \/ StopRunning(g) \/ Cancelled(g)
       \/ Check(g) \/ Mark(g) \/ FeedOne(g) \/ DrainAll(g) \/ Put(g) \/ Stored(g)
       \/ Flush(g) \/ FlushPut(g)
    /\ UNCHANGED <<emitted, late>>

RunStep(g) ==
    /\ g \in spawned
    /\ SourceStep(g) \/ ServiceStep(g)
    /\ UNCHANGED <<live, spawned, webVars>>

-----------------------------------------------------------------------------
(* The web server *)

(* Mutant: start does not ask whether a capture runs. *)
MayStartAlways == TRUE

MayStart == ~ captureRun

(* A start while captureRun is set is answered and changes nothing.        *)
HandleCaptureStart(w) ==
    /\ MayStart
    /\ w \notin spawned
    /\ spawned' = spawned \cup {w}
    /\ captureRun' = TRUE
    /\ captureCancel' = w
    /\ UNCHANGED <<captureVars, live, emitted, finished, held, late>>

(* Mutant: a Run that was refused does not reset captureRun. *)
RunAfterKept(w) == result[w] = "busy"

RunAfter(w) == FALSE

(* The goroutine of a start, after its Run, whatever that returned; what   *)
(* was local to it is gone.                                                *)
Finish(w) ==
    /\ w \in spawned \ finished
    /\ pc[w] = "done"
    /\ captureRun' = RunAfter(w)
    /\ finished' = finished \cup {w}
    /\ cancelled' = [cancelled EXCEPT ![w] = FALSE]
    /\ cur' = [cur EXCEPT ![w] = << >>]
    /\ UNCHANGED <<pc, todo, result, serviceVars, storeVars, dedupVars, asmVars, live, emitted, spawned, captureCancel, held, late>>

(* Stop reads captureCancel under the mutex and calls it without: a start  *)
(* may come between, and the context that ends is that of a finished run,  *)
(* which nobody looks at.                                                  *)
HandleCaptureStop ==
    /\ held = Nobody
    /\ held' = captureCancel
    /\ UNCHANGED <<captureVars, live, emitted, spawned, captureRun, captureCancel, finished,
                   late>>

CallCancel ==
    /\ held # Nobody
    /\ cancelled' = [cancelled EXCEPT ![held] = held \notin finished]
    /\ held' = Nobody
    /\ UNCHANGED <<pc, cur, todo, result, serviceVars, storeVars, dedupVars, asmVars,
                   live, emitted, spawned, captureRun, captureCancel, finished, late>>

PassTime == Environment /\ UNCHANGED <<live, emitted, spawned, webVars, late>>

ControlNext ==
    \/ \E g \in Runners : RunStep(g)
    \/ \E w \in Webs : HandleCaptureStart(w) \/ Finish(w)
    \/ HandleCaptureStop \/ CallCancel
    \/ PassTime

(* The goroutines that call Run; requests come when they come.             *)
ControlSpec ==
    /\ ControlInit /\ [][ControlNext]_controlVars
    /\ \A g \in Runners : WF_controlVars(RunStep(g))
    /\ \A w \in Webs : WF_controlVars(Finish(w))

-----------------------------------------------------------------------------
(* captureRun is set exactly while a goroutine of the web server is alive, *)
(* there is one at most, and stop reaches it: the server never loses the   *)
(* cancel of a run that goes on, also when the demo holds the service and  *)
(* the run it has started is turned away at once.                          *)
WebRunIsTracked ==
    LET alive == (spawned \cap Webs) \ finished
    IN alive = IF captureRun THEN {captureCancel} ELSE {}

(* Once its context is cancelled, a session over the live source receives  *)
(* one packet at most: the one whose interval ended at that moment.        *)
StopIsPrompt == live => \A g \in Runners : late[g] <= 1

(* All live packets have one deduplication key.  In the first session they *)
(* are stored all the same, each of them and in order: the store has given *)
(* the key back before the next packet is looked up.                       *)
LiveStoresAll ==
    live /\ Cardinality(spawned) = 1
        => /\ \A i \in DOMAIN packets : packets[i] = LivePacket(i - 1)
           /\ stats.deduped = 0
           /\ emitted = stats.stored + Cardinality({g \in Runners : InFlight(g)})

(* Every Run that is started ends, and captureRun falls with the one of    *)
(* the web server, so that a later start is heard again.                   *)
StartedEnds ==
    /\ \A g \in Runners : (g \in spawned) ~> (pc[g] = "done")
    /\ captureRun ~> ~ captureRun

=============================================================================
