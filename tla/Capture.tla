------------------------------- MODULE Capture -------------------------------
(***************************************************************************)
(* The capture service (internal/capture/service.go) at work on the store, *)
(* the deduplicator and the reassembler it shares with every other capture *)
(* session.  A session is one goroutine inside Process or Run.  Between two*)
(* calls on a shared component it holds no lock, so each such call is a    *)
(* step of its own.  Counters of Stats are only ever added to and read for *)
(* display: each is counted with the step that decides it.                 *)
(***************************************************************************)
EXTENDS Store, Dedup, Assembler

CONSTANTS
    Processors,     \* goroutines that call Process once (main.go:125)
    Runners,        \* goroutines that call Run once (main.go:113,
                    \* handlers.go:228)
    AssemblerChoices \* whether SetAssembler was called: main always does,
                    \* NewService leaves it to its caller

ASSUME CaptureAssumption ==
    /\ Processors \cap Runners = {}
    /\ AssemblerChoices \subseteq BOOLEAN

Sessions == Processors \cup Runners

VARIABLES
    hasAssembler,   \* whether Service.assembler is set
    pc,             \* where each session is
    cur,            \* the packet it works on, << >> before the first
    todo,           \* packets it still has to Put for cur, or for the flush
    cancelled,      \* whether its context is cancelled
    result,         \* how it ended
    running,        \* Service.running
    stats,          \* Service.stats
    failedKeys,     \* keys of the packets recorded as failed
    closeErrors     \* sessions whose source failed to close

sessionVars == <<pc, cur, todo, cancelled, result>>
historyVars == <<failedKeys, closeErrors>>
serviceVars == <<hasAssembler, running, stats, historyVars>>
captureVars == <<storeVars, dedupVars, asmVars, sessionVars, serviceVars>>

CaptureInit ==
    /\ StoreInit
    /\ DedupInit
    /\ AsmInit
    /\ hasAssembler \in AssemblerChoices
    /\ pc          = [g \in Sessions |-> "idle"]
    /\ cur         = [g \in Sessions |-> << >>]
    /\ todo        = [g \in Sessions |-> << >>]
    /\ cancelled   = [g \in Sessions |-> FALSE]
    /\ result      = [g \in Sessions |-> "none"]
    /\ running     = FALSE
    /\ stats       = [received |-> 0, stored |-> 0, failed |-> 0, deduped |-> 0]
    /\ failedKeys  = {}
    /\ closeErrors = {}

Key(g) == PacketKey(cur[g])

Goto(g, label) == pc' = [pc EXCEPT ![g] = label]

End(g, how) ==
    /\ Goto(g, "close")
    /\ result' = [result EXCEPT ![g] = how]

Count(field) == stats' = [stats EXCEPT ![field] = @ + 1]

-----------------------------------------------------------------------------
(* Opening and closing a session *)

(* Mutant: Run does not look either. *)
NeverBusy == FALSE

Busy == running

(* Run refuses to start twice; Process does not look at `running'. *)
Start(g) ==
    /\ pc[g] = "idle"
    /\ \/ /\ g \in Processors
          /\ Goto(g, "open")
          /\ UNCHANGED <<result, running>>
       \/ /\ g \in Runners /\ ~ Busy
          /\ running' = TRUE
          /\ Goto(g, "open")
          /\ UNCHANGED result
       \/ /\ g \in Runners /\ Busy
          /\ Goto(g, "done")
          /\ result' = [result EXCEPT ![g] = "busy"]
          /\ UNCHANGED running
    /\ UNCHANGED <<hasAssembler, cur, todo, cancelled, stats, historyVars, storeVars,
                   dedupVars, asmVars>>

Leave(g) == Goto(g, IF g \in Runners THEN "leave" ELSE "done")

(* A source that does not open ends the session without closing it. *)
Open(g) ==
    /\ pc[g] = "open"
    /\ \/ Goto(g, "loop") /\ UNCHANGED result
       \/ Leave(g) /\ result' = [result EXCEPT ![g] = "error"]
    /\ UNCHANGED <<cur, todo, cancelled, serviceVars, storeVars, dedupVars, asmVars>>

Close(g) ==
    /\ pc[g] = "close"
    /\ Leave(g)
    /\ \/ UNCHANGED <<stats, closeErrors>>
       \/ Count("failed") /\ closeErrors' = closeErrors \cup {g}
    /\ UNCHANGED <<hasAssembler, cur, todo, cancelled, result, running, failedKeys,
                   storeVars, dedupVars, asmVars>>

(* The deferred running.Store(false), after the source is closed. *)
StopRunning(g) ==
    /\ pc[g] = "leave"
    /\ running' = FALSE
    /\ Goto(g, "done")
    /\ UNCHANGED <<hasAssembler, cur, todo, cancelled, result, stats, historyVars,
                   storeVars, dedupVars, asmVars>>

-----------------------------------------------------------------------------
(* The loop of Process and Run *)

(* Mutant: the end of the source does not flush the reassembler. *)
BeginFlushSkipped(g) == End(g, "ok")

(* flushAssembler does nothing without an assembler. *)
BeginFlush(g) ==
    \/ hasAssembler /\ Goto(g, "flush") /\ UNCHANGED result
    \/ ~ hasAssembler /\ End(g, "ok")

Cancelled(g) ==
    /\ pc[g] = "loop"
    /\ cancelled[g]
    /\ End(g, "cancelled")
    /\ UNCHANGED <<cur, todo, cancelled, serviceVars, storeVars, dedupVars, asmVars>>

(* The select of Run may take the tick although the context is cancelled;  *)
(* Process looks at the context first.  The source hands out any packet,   *)
(* is exhausted, or fails (a line that does not parse, a source that       *)
(* another session closed).                                                *)
Fetch(g) ==
    /\ pc[g] = "loop"
    /\ g \in Processors => ~ cancelled[g]
    /\ \/ /\ stats.received < MaxFed
          /\ \E pkt \in Arrivals : cur' = [cur EXCEPT ![g] = pkt]
          /\ Count("received")
          /\ Goto(g, "check")
          /\ UNCHANGED result
       \/ BeginFlush(g) /\ UNCHANGED <<cur, stats>>
       \/ End(g, "error") /\ UNCHANGED <<cur, stats>>
    /\ UNCHANGED <<hasAssembler, todo, cancelled, running, historyVars, storeVars, dedupVars,
                   asmVars>>

-----------------------------------------------------------------------------
(* ProcessOne *)

(* Mutant: the packet that was seen is counted but goes on. *)
CheckFallsThrough(g) ==
    /\ pc[g] = "check"
    /\ IF Seen(Key(g)) THEN Count("deduped") ELSE UNCHANGED stats
    /\ Goto(g, "record")
    /\ UNCHANGED <<hasAssembler, cur, todo, cancelled, result, running, historyVars,
                   storeVars, dedupVars, asmVars>>

Check(g) ==
    /\ pc[g] = "check"
    /\ \/ Seen(Key(g)) /\ Count("deduped") /\ Goto(g, "loop")
       \/ ~ Seen(Key(g)) /\ Goto(g, "record") /\ UNCHANGED stats
    /\ UNCHANGED <<hasAssembler, cur, todo, cancelled, result, running, historyVars,
                   storeVars, dedupVars, asmVars>>

(* Whether Record found the key recorded meanwhile is ignored. *)
Mark(g) ==
    /\ pc[g] = "record"
    /\ Record(Key(g))
    /\ IF hasAssembler
       THEN Goto(g, "feed") /\ UNCHANGED todo
       ELSE Goto(g, "put") /\ todo' = [todo EXCEPT ![g] = << cur[g] >>]
    /\ UNCHANGED <<now, cur, cancelled, result, serviceVars, storeVars, asmVars>>

(* Service.Handle: Feed, Drain, then one Put after the other.  The partial *)
(* results drained here may stem from another session's Feed.              *)
FeedOne(g) ==
    /\ pc[g] = "feed"
    /\ Feed(cur[g])
    /\ todo' = [todo EXCEPT ![g] = FeedResult(cur[g])]
    /\ Goto(g, "drain")
    /\ UNCHANGED <<cur, cancelled, result, serviceVars, storeVars, dedupVars>>

(* Mutant: what was drained, if anything, is put in place of what Feed     *)
(* returned. *)
DrainAllOver(g) ==
    /\ pc[g] = "drain"
    /\ todo' = [todo EXCEPT ![g] = IF pending = << >> THEN @ ELSE pending]
    /\ Drain
    /\ Goto(g, "put")
    /\ UNCHANGED <<cur, cancelled, result, serviceVars, storeVars, dedupVars>>

DrainAll(g) ==
    /\ pc[g] = "drain"
    /\ todo' = [todo EXCEPT ![g] = pending \o @]
    /\ Drain
    /\ Goto(g, "put")
    /\ UNCHANGED <<cur, cancelled, result, serviceVars, storeVars, dedupVars>>

(* Put releases the key of the packet it stored before it unlocks. *)
PutOK(g) ==
    /\ Insert(Head(todo[g]))
    /\ Release(PacketKey(Head(todo[g])))
    /\ todo' = [todo EXCEPT ![g] = Tail(@)]
    /\ UNCHANGED <<now, cur, cancelled, result, serviceVars, asmVars>>

(* Mutant: the error of Put is ignored. *)
FailIgnored(g) ==
    /\ todo' = [todo EXCEPT ![g] = << >>]
    /\ Goto(g, "put")
    /\ UNCHANGED <<result, stats, failedKeys>>

(* Mutant: Put is tried until it succeeds. *)
FailRetries(g) ==
    /\ Goto(g, "retry")
    /\ UNCHANGED <<todo, result, stats, failedKeys>>

Fail(g) ==
    /\ Count("failed")
    /\ failedKeys' = failedKeys \cup {Key(g)}
    /\ todo' = [todo EXCEPT ![g] = << >>]
    /\ End(g, "error")

(* With an assembler the first refused Put ends the packet; without one a  *)
(* Put refused for a reason other than invalid fields is tried once more.  *)
Put(g) ==
    /\ pc[g] \in {"put", "retry"}
    /\ todo[g] # << >>
    /\ \/ PutOK(g) /\ Goto(g, "put")
       \/ /\ Refuse(Head(todo[g]))
          /\ IF /\ ~ hasAssembler
                /\ pc[g] = "put"
                /\ PutResult(Head(todo[g])) = "exists"
             THEN Goto(g, "retry") /\ UNCHANGED <<todo, result, stats, failedKeys>>
             ELSE Fail(g)
          /\ UNCHANGED <<hasAssembler, cur, cancelled, running, closeErrors, dedupVars,
                         asmVars>>

Stored(g) ==
    /\ pc[g] = "put"
    /\ todo[g] = << >>
    /\ Count("stored")
    /\ Goto(g, "loop")
    /\ UNCHANGED <<hasAssembler, cur, todo, cancelled, result, running, historyVars,
                   storeVars, dedupVars, asmVars>>

-----------------------------------------------------------------------------
(* flushAssembler: Service.Flush *)

Flush(g) ==
    /\ pc[g] = "flush"
    /\ FlushExpired
    /\ todo' = [todo EXCEPT ![g] = FlushResult]
    /\ Goto(g, "flushput")
    /\ UNCHANGED <<cur, cancelled, result, serviceVars, storeVars, dedupVars>>

(* The first partial result that is refused ends the flush; the error is   *)
(* returned and not counted. *)
FlushPut(g) ==
    /\ pc[g] = "flushput"
    /\ \/ todo[g] # << >> /\ PutOK(g) /\ UNCHANGED pc
       \/ /\ todo[g] # << >>
          /\ Refuse(Head(todo[g]))
          /\ todo' = [todo EXCEPT ![g] = << >>]
          /\ End(g, "error")
          /\ UNCHANGED <<cur, cancelled, serviceVars, dedupVars, asmVars>>
       \/ /\ todo[g] = << >>
          /\ End(g, "ok")
          /\ UNCHANGED <<cur, todo, cancelled, serviceVars, storeVars, dedupVars, asmVars>>

-----------------------------------------------------------------------------
(* What others do to the sessions *)

Cancel(g) ==
    /\ pc[g] \notin {"idle", "done"}
    /\ ~ cancelled[g]
    /\ cancelled' = [cancelled EXCEPT ![g] = TRUE]
    /\ UNCHANGED <<pc, cur, todo, result, serviceVars, storeVars, dedupVars, asmVars>>

(* Stop reaches a session that waits in the select of Run; one that has not*)
(* come to wait there, or works on a packet, never hears of it.            *)
Stop ==
    /\ running
    /\ \/ \E g \in Runners : pc[g] = "loop" /\ BeginFlush(g)
       \/ UNCHANGED <<pc, result>>
    /\ UNCHANGED <<cur, todo, cancelled, serviceVars, storeVars, dedupVars, asmVars>>

(* The purge ticker of main (main.go:78), and the clock. *)
Environment ==
    /\ PurgeExpired \/ Tick
    /\ UNCHANGED <<sessionVars, serviceVars, storeVars, asmVars>>

Step(g) ==
    \/ Start(g) \/ Open(g) \/ Close(g) \/ StopRunning(g)
    \/ Cancelled(g) \/ Fetch(g)
    \/ Check(g) \/ Mark(g) \/ FeedOne(g) \/ DrainAll(g) \/ Put(g) \/ Stored(g)
    \/ Flush(g) \/ FlushPut(g)

CaptureNext ==
    \/ \E g \in Sessions : Step(g) \/ Cancel(g)
    \/ Stop
    \/ Environment

(* Each session is a goroutine of its own, and none of them ever waits for *)
(* another one: the mutexes are held for single steps only.                *)
CaptureSpec ==
    /\ CaptureInit /\ [][CaptureNext]_captureVars
    /\ \A g \in Sessions : WF_captureVars(Step(g))

-----------------------------------------------------------------------------
InFlight(g) == pc[g] \in {"check", "record", "feed", "drain", "put", "retry"}

CaptureTypeOK ==
    /\ pc \in [Sessions -> {"idle", "open", "loop", "check", "record", "feed", "drain",
                            "put", "retry", "flush", "flushput", "close", "leave", "done"}]
    /\ \A g \in Sessions : cur[g] \in Arrivals \cup {<< >>}
    /\ \A g \in Sessions : \A i \in DOMAIN todo[g] : todo[g][i] \in Packet({todo[g][i].payload})
    /\ cancelled \in [Sessions -> BOOLEAN]
    /\ result \in [Sessions -> {"none", "ok", "error", "cancelled", "busy"}]
    /\ running \in BOOLEAN
    /\ \A k \in DOMAIN seen : seen[k] \in 0 .. now
    /\ \A c \in DOMAIN stats : stats[c] \in 0 .. MaxFed + Cardinality(Sessions)
    /\ closeErrors \subseteq Sessions

(* Every packet received is stored, deduplicated or failed once the session*)
(* that took it is through with it: no path of ProcessOne counts a packet  *)
(* twice or forgets one, however the sessions interleave.                  *)
EveryPacketCounted ==
    stats.received = stats.stored + stats.deduped
                     + (stats.failed - Cardinality(closeErrors))
                     + Cardinality({g \in Sessions : InFlight(g)})

(* A key stays recorded for one of three reasons: its packet is on its way *)
(* to the store, or failed on it, or was a fragment (the store releases the*)
(* key of the reassembled packet, not those of its fragments).  A datagram *)
(* that was stored never leaves its key behind to swallow later packets.   *)
KeysHeldForAReason ==
    DOMAIN seen \subseteq
        {Key(g) : g \in {h \in Sessions : pc[h] \in {"feed", "drain", "put", "retry"}}}
        \cup {PacketKey(pkt) : pkt \in {p \in Arrivals : p.isFragment}}
        \cup failedKeys

(* A datagram counted as stored is in the store, with the fields it was    *)
(* received with: partial results that are put before it, those of other   *)
(* sessions included, never take its place.                                *)
CountedIsStored ==
    [][\A g \in Sessions :
          /\ pc[g] = "put"
          /\ pc'[g] = "loop"
          /\ ~ cur[g].isFragment
          => cur[g] \in Range(packets)]_captureVars

(* Run sessions exclude each other from the start to the last deferred     *)
(* call, and `running' is set exactly while there is one.                  *)
RunIsExclusive ==
    /\ Cardinality({g \in Runners : pc[g] \notin {"idle", "done"}}) <= 1
    /\ running <=> \E g \in Runners : pc[g] \notin {"idle", "done"}

(* When every session reached the end of its source without an error, the  *)
(* reassembler holds nothing back, no window and no pending result: the    *)
(* session that flushes last finds what the others fed after their flush.  *)
CleanEndHoldsNothing ==
    (\A g \in Sessions : result[g] \in {"ok", "busy"} /\ pc[g] = "done")
        => /\ entries = << >>
           /\ pending = << >>
           /\ \A g \in Sessions : todo[g] = << >>

(* Every session that is started ends, whatever the source, the store and  *)
(* the other sessions do.                                                  *)
SessionsEnd == \A g \in Sessions : <>(pc[g] = "done")

=============================================================================
