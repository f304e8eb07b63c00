----------------------------- MODULE CaptureProofs -----------------------------
(***************************************************************************)
(* The capture service for every number of sessions, every set of packets  *)
(* and every interleaving: the invariants of module Capture, and those of  *)
(* module CaptureControl, where the web server and the demo start the      *)
(* sessions over a file source or a live one.  Each step lemma is stated   *)
(* for the steps of both specifications at once.                           *)
(***************************************************************************)
EXTENDS CaptureControl, AssemblerProofs, SequenceLemmas

(* Stop reaches a session that waits in the select of Run. *)
Stopped(g) ==
    /\ pc[g] = "loop"
    /\ BeginFlush(g)
    /\ UNCHANGED <<cur, todo, cancelled, serviceVars, storeVars, dedupVars, asmVars>>

(* What moves a session, over a file source or a live one. *)
SessionStep(g) ==
    Step(g) \/ Stopped(g) \/ LiveOpen(g) \/ LiveFetch(g) \/ LiveWait(g)

(* Every other step of either specification passes the sessions by. *)
PassesBy ==
    /\ UNCHANGED <<pc, todo, result, serviceVars, storeVars, asmVars>>
    /\ DOMAIN seen' \subseteq DOMAIN seen
    /\ DOMAIN cur' = DOMAIN cur
    /\ \A g \in DOMAIN cur : pc[g] # "done" => cur'[g] = cur[g]

(* The purge and the clock touch no session. *)
LEMMA EnvironmentPassesBy ==
    ASSUME Environment
    PROVE  PassesBy
<1>1. DOMAIN seen' \subseteq DOMAIN seen
  BY DEF Environment, PurgeExpired, Tick, Restrict
<1> QED BY <1>1 DEF Environment, sessionVars, PassesBy

(* A step of the capture service is the step of one session, or touches    *)
(* none. *)
LEMMA CaptureSteps ==
    ASSUME [CaptureNext]_captureVars
    PROVE  PassesBy \/ \E g \in Sessions : SessionStep(g)
<1>1. CASE Stop
  <2>1. CASE UNCHANGED <<pc, result>>
    BY <1>1, <2>1 DEF Stop, PassesBy, dedupVars
  <2>2. CASE \E g \in Runners : pc[g] = "loop" /\ BeginFlush(g)
    BY <1>1, <2>2 DEF Stop, Stopped, SessionStep, Sessions
  <2> QED BY <1>1, <2>1, <2>2 DEF Stop
<1>2. ASSUME NEW g \in Sessions, Cancel(g) PROVE PassesBy
  BY <1>2 DEF Cancel, PassesBy, dedupVars
<1>3. CASE UNCHANGED captureVars
  BY <1>3 DEF captureVars, sessionVars, dedupVars, PassesBy
<1> QED BY <1>1, <1>2, <1>3, EnvironmentPassesBy DEF CaptureNext, SessionStep

(* So is a step under the web server and the demo. *)
LEMMA ControlSteps ==
    ASSUME [ControlNext]_controlVars
    PROVE  PassesBy \/ \E g \in Sessions : SessionStep(g)
<1>1. ASSUME NEW g \in Runners, RunStep(g) PROVE g \in Sessions /\ SessionStep(g)
  BY <1>1 DEF RunStep, SourceStep, ServiceStep, SessionStep, Step, LiveClose, Sessions
<1>2. ASSUME NEW w \in Webs, Finish(w) PROVE PassesBy
  BY <1>2 DEF Finish, dedupVars, PassesBy
<1>3. ASSUME NEW w \in Webs, HandleCaptureStart(w) PROVE PassesBy
  BY <1>3 DEF HandleCaptureStart, captureVars, sessionVars, dedupVars, PassesBy
<1>4. CASE HandleCaptureStop \/ CallCancel
  BY <1>4 DEF HandleCaptureStop, CallCancel, captureVars, sessionVars, dedupVars, PassesBy
<1>5. CASE UNCHANGED controlVars
  BY <1>5 DEF controlVars, captureVars, sessionVars, dedupVars, PassesBy
<1> QED BY <1>1, <1>2, <1>3, <1>4, <1>5, EnvironmentPassesBy DEF ControlNext, PassTime

(* A step of one session leaves the others alone. *)
Shape ==
    /\ DOMAIN pc = Sessions
    /\ DOMAIN cur = Sessions
    /\ DOMAIN todo = Sessions
    /\ DOMAIN result = Sessions

(* What one session does leaves program counter, packet, list and result   *)
(* of the others alone. *)
LEMMA SessionFrame ==
    ASSUME Shape, NEW g \in Sessions, SessionStep(g)
    PROVE  /\ Shape'
           /\ \A h \in Sessions \ {g} :
                 /\ pc'[h] = pc[h]
                 /\ cur'[h] = cur[h]
                 /\ todo'[h] = todo[h]
                 /\ result'[h] = result[h]
<1> USE DEF Shape, Goto, End
<1>1. CASE Start(g) \/ Open(g) \/ Close(g) \/ StopRunning(g)
  BY <1>1 DEF Start, Open, Close, StopRunning, Leave
<1>2. CASE Cancelled(g) \/ Fetch(g) \/ Stopped(g)
  BY <1>2 DEF Cancelled, Fetch, Stopped, BeginFlush
<1>3. CASE Check(g) \/ Mark(g) \/ FeedOne(g) \/ DrainAll(g)
  BY <1>3 DEF Check, Mark, FeedOne, DrainAll
<1>4. CASE Put(g) \/ Stored(g)
  BY <1>4 DEF Put, PutOK, Fail, Stored
<1>5. CASE Flush(g) \/ FlushPut(g)
  BY <1>5 DEF Flush, FlushPut, PutOK
<1>6. CASE LiveOpen(g) \/ LiveFetch(g) \/ LiveWait(g)
  BY <1>6 DEF LiveOpen, LiveFetch, LiveWait, LiveEmit, BeginFlush
<1> QED BY <1>1, <1>2, <1>3, <1>4, <1>5, <1>6 DEF SessionStep, Step

(* Under the web server the service starts as it does alone. *)
LEMMA StartsAlike == ControlInit => CaptureInit
BY DEF ControlInit

-----------------------------------------------------------------------------
(* One Run at a time *)

Active(g) == pc[g] \notin {"idle", "done"}

ExclusionInv ==
    /\ DOMAIN pc = Sessions
    /\ \A g, h \in Runners : Active(g) /\ Active(h) => g = h
    /\ \A g \in Processors : pc[g] # "leave"
    /\ running <=> \E g \in Runners : Active(g)

(* A session that is on its way moves and stays on its way, or a Process   *)
(* moves, and `running' stays. *)
LEMMA MoveKeepsExclusion ==
    ASSUME ExclusionInv, NEW g \in Sessions, NEW label,
           Goto(g, label), running' = running,
           g \in Processors => label # "leave",
           g \in Processors \/ (Active(g) /\ label \notin {"idle", "done"})
    PROVE  ExclusionInv'
<1>1. /\ DOMAIN pc' = Sessions
      /\ pc'[g] = label
      /\ \A h \in Sessions \ {g} : pc'[h] = pc[h]
  BY DEF ExclusionInv, Goto
<1>2. Runners \subseteq Sessions
  BY DEF Sessions
<1>3. \A h \in Runners : Active(h)' <=> Active(h)
  BY <1>1, <1>2, CaptureAssumption DEF Active
<1>4. \A h \in Processors : pc'[h] # "leave"
  BY <1>1 DEF ExclusionInv, Sessions
<1> QED BY <1>1, <1>3, <1>4 DEF ExclusionInv

(* A step that touches neither keeps the exclusion. *)
LEMMA StillKeepsExclusion ==
    ASSUME ExclusionInv, UNCHANGED <<pc, running>>
    PROVE  ExclusionInv'
BY DEF ExclusionInv, Active

(* The swap that lets a Run in finds no other on its way. *)
LEMMA StartKeepsExclusion ==
    ASSUME ExclusionInv, NEW g \in Sessions, Start(g)
    PROVE  ExclusionInv'
<1>1. /\ DOMAIN pc = Sessions
      /\ Runners \subseteq Sessions
  BY DEF ExclusionInv, Sessions
<1>2. CASE g \in Processors /\ Goto(g, "open") /\ UNCHANGED running
  BY <1>2, MoveKeepsExclusion, CaptureAssumption
<1>3. CASE g \in Runners /\ ~ Busy /\ running' = TRUE /\ Goto(g, "open")
  <2>1. \A h \in Runners : ~ Active(h)
    BY <1>3 DEF ExclusionInv, Busy
  <2>2. \A h \in Runners : Active(h)' <=> h = g
    BY <1>1, <1>3, <2>1 DEF Active, Goto
  <2>3. DOMAIN pc' = Sessions
    BY <1>1, <1>3 DEF Goto
  <2>4. \A h \in Processors : pc'[h] # "leave"
    BY <1>1, <1>3 DEF ExclusionInv, Goto, Sessions
  <2> QED BY <1>3, <2>2, <2>3, <2>4 DEF ExclusionInv
<1>4. CASE g \in Runners /\ Goto(g, "done") /\ UNCHANGED running
  <2>1. \A h \in Runners : Active(h)' <=> Active(h)
    BY <1>1, <1>4 DEF Active, Goto, Start
  <2>2. DOMAIN pc' = Sessions
    BY <1>1, <1>4 DEF Goto
  <2>3. \A h \in Processors : pc'[h] # "leave"
    BY <1>1, <1>4 DEF ExclusionInv, Goto, Sessions
  <2> QED BY <1>4, <2>1, <2>2, <2>3 DEF ExclusionInv
<1> QED BY <1>2, <1>3, <1>4 DEF Start

(* The Run that resets `running' is the only one on its way. *)
LEMMA StopRunningKeepsExclusion ==
    ASSUME ExclusionInv, NEW g \in Sessions, StopRunning(g)
    PROVE  ExclusionInv'
<1>1. DOMAIN pc = Sessions /\ Runners \subseteq Sessions /\ g \in Runners
  BY DEF ExclusionInv, StopRunning, Sessions
<1>2. \A h \in Runners : Active(h) => h = g
  BY <1>1 DEF ExclusionInv, StopRunning, Active
<1>3. \A h \in Runners : ~ Active(h)'
  BY <1>1, <1>2 DEF StopRunning, Active, Goto
<1>4. DOMAIN pc' = Sessions
  BY <1>1 DEF StopRunning, Goto
<1>5. \A h \in Processors : pc'[h] # "leave"
  BY <1>1 DEF ExclusionInv, StopRunning, Goto, Sessions
<1> QED BY <1>3, <1>4, <1>5 DEF ExclusionInv, StopRunning

(* Every other step moves a session that is on its way. *)
LEMMA WorkKeepsExclusion ==
    ASSUME ExclusionInv, NEW g \in Sessions,
           \/ Open(g) \/ Close(g) \/ Cancelled(g) \/ Fetch(g)
           \/ Check(g) \/ Mark(g) \/ FeedOne(g) \/ DrainAll(g) \/ Put(g) \/ Stored(g)
           \/ Flush(g) \/ FlushPut(g)
           \/ Stopped(g) \/ LiveOpen(g) \/ LiveFetch(g) \/ LiveWait(g)
    PROVE  ExclusionInv'
<1> USE DEF Active
<1>1. ASSUME Leave(g), Active(g), UNCHANGED running
      PROVE  ExclusionInv'
  <2>1. CASE g \in Runners
    BY <1>1, <2>1, MoveKeepsExclusion, CaptureAssumption DEF Leave
  <2>2. CASE g \notin Runners
    BY <1>1, <2>2, MoveKeepsExclusion DEF Leave, Sessions
  <2> QED BY <2>1, <2>2
<1>2. CASE Open(g)
  <2>1. Goto(g, "loop") \/ Leave(g)
    BY <1>2 DEF Open
  <2> QED BY <1>1, <1>2, <2>1, MoveKeepsExclusion DEF Open, serviceVars
<1>3. CASE Close(g)
  BY <1>1, <1>3 DEF Close
<1>4. CASE Cancelled(g)
  BY <1>4, MoveKeepsExclusion DEF Cancelled, End, serviceVars
<1>5. CASE Fetch(g)
  <2>1. \E label \in {"check", "flush", "close"} : Goto(g, label)
    BY <1>5 DEF Fetch, BeginFlush, End
  <2> QED BY <1>5, <2>1, MoveKeepsExclusion DEF Fetch
<1>6. CASE Check(g)
  <2>1. \E label \in {"loop", "record"} : Goto(g, label)
    BY <1>6 DEF Check
  <2> QED BY <1>6, <2>1, MoveKeepsExclusion DEF Check
<1>7. CASE Mark(g)
  <2>1. \E label \in {"feed", "put"} : Goto(g, label)
    BY <1>7 DEF Mark
  <2> QED BY <1>7, <2>1, MoveKeepsExclusion DEF Mark, serviceVars
<1>8. CASE FeedOne(g) \/ DrainAll(g) \/ Flush(g)
  BY <1>8, MoveKeepsExclusion DEF FeedOne, DrainAll, Flush, serviceVars
<1>9. CASE Put(g)
  <2>1. \E label \in {"put", "retry", "close"} : Goto(g, label)
    BY <1>9 DEF Put, Fail, End
  <2> QED BY <1>9, <2>1, MoveKeepsExclusion DEF Put, PutOK, serviceVars
<1>10. CASE Stored(g)
  BY <1>10, MoveKeepsExclusion DEF Stored
<1>11. CASE FlushPut(g)
  <2>1. UNCHANGED pc \/ Goto(g, "close")
    BY <1>11 DEF FlushPut, End
  <2> QED BY <1>11, <2>1, MoveKeepsExclusion, StillKeepsExclusion
          DEF FlushPut, PutOK, serviceVars
<1>12. CASE LiveOpen(g)
  BY <1>12, MoveKeepsExclusion DEF LiveOpen, serviceVars
<1>13. CASE LiveFetch(g)
  <2>1. \E label \in {"check", "flush", "close", "wait"} : Goto(g, label)
    BY <1>13 DEF LiveFetch, LiveEmit, BeginFlush, End
  <2> QED BY <1>13, <2>1, MoveKeepsExclusion DEF LiveFetch
<1>14. CASE LiveWait(g)
  <2>1. \E label \in {"check", "close"} : Goto(g, label)
    BY <1>14 DEF LiveWait, LiveEmit, End
  <2> QED BY <1>14, <2>1, MoveKeepsExclusion DEF LiveWait
<1>15. CASE Stopped(g)
  <2>1. \E label \in {"flush", "close"} : Goto(g, label)
    BY <1>15 DEF Stopped, BeginFlush, End
  <2> QED BY <1>15, <2>1, MoveKeepsExclusion DEF Stopped, serviceVars
<1> QED BY <1>2, <1>3, <1>4, <1>5, <1>6, <1>7, <1>8, <1>9, <1>10, <1>11, <1>12, <1>13,
           <1>14, <1>15

(* No session is on its way at the start. *)
LEMMA ExclusionInit == CaptureInit => ExclusionInv
BY DEF CaptureInit, ExclusionInv, Active, Sessions

(* Every step keeps the exclusion. *)
LEMMA ExclusionStep ==
    ASSUME ExclusionInv, [CaptureNext]_captureVars \/ [ControlNext]_controlVars
    PROVE  ExclusionInv'
<1>1. CASE PassesBy
  BY <1>1, StillKeepsExclusion DEF PassesBy, serviceVars
<1>2. ASSUME NEW g \in Sessions, SessionStep(g) PROVE ExclusionInv'
  BY <1>2, StartKeepsExclusion, StopRunningKeepsExclusion, WorkKeepsExclusion
     DEF SessionStep, Step
<1> QED BY <1>1, <1>2, CaptureSteps, ControlSteps

(* Two sessions that are equal count as one. *)
LEMMA ExclusionInvImplies == ExclusionInv => RunIsExclusive
<1> SUFFICES ASSUME ExclusionInv PROVE RunIsExclusive
  OBVIOUS
<1> DEFINE A == {g \in Runners : pc[g] \notin {"idle", "done"}}
<1>1. A = {} \/ \E g \in A : A = {g}
  BY DEF ExclusionInv, Active
<1> HIDE DEF A
<1>2. Cardinality(A) <= 1
  <2>1. CASE A = {}
    BY <2>1, FS_EmptySet
  <2>2. ASSUME NEW g \in A, A = {g} PROVE Cardinality(A) <= 1
    <3>1. Cardinality({g}) = 1
      BY FS_Singleton, Zenon
    <3> QED BY <2>2, <3>1
  <2> QED BY <1>1, <2>1, <2>2
<1> USE DEF A
<1> QED BY <1>2 DEF ExclusionInv, RunIsExclusive, Active

(* Two Run sessions never overlap, from the swap of `running' to the       *)
(* deferred reset after the source is closed, for every number of          *)
(* sessions (service.go, Run). *)
THEOREM RunsExcludeEachOther == CaptureSpec => []RunIsExclusive
BY ExclusionInit, ExclusionStep, ExclusionInvImplies, PTL DEF CaptureSpec

-----------------------------------------------------------------------------
(* Every packet is counted *)

Flying == {g \in Sessions : InFlight(g)}

(* A source that failed to close is among the failures. *)
Balanced ==
    /\ EveryPacketCounted
    /\ Cardinality(closeErrors) <= stats.failed

CountingInv ==
    /\ DOMAIN pc = Sessions
    /\ stats \in [received : Nat, stored : Nat, failed : Nat, deduped : Nat]
    /\ IsFiniteSet(Flying)
    /\ IsFiniteSet(closeErrors)
    /\ \A g \in closeErrors : g \in Sessions /\ pc[g] \in {"leave", "done"}
    /\ Balanced

(* A step that touches none of them keeps the balance. *)
LEMMA StillCounts ==
    ASSUME CountingInv, UNCHANGED <<pc, stats, closeErrors>>
    PROVE  CountingInv'
BY DEF CountingInv, Balanced, EveryPacketCounted, Flying, InFlight

(* A move that neither takes a packet nor is through with one. *)
LEMMA MoveCounts ==
    ASSUME CountingInv, NEW g \in Sessions, NEW label,
           Goto(g, label), UNCHANGED <<stats, closeErrors>>,
           InFlight(g) <=> InFlight(g)',
           pc[g] \in {"leave", "done"} => label \in {"leave", "done"}
    PROVE  CountingInv'
<1>1. /\ DOMAIN pc' = Sessions
      /\ pc'[g] = label
      /\ \A h \in Sessions \ {g} : pc'[h] = pc[h]
  BY DEF CountingInv, Goto
<1>2. Flying' = Flying
  BY <1>1 DEF Flying, InFlight
<1>3. Balanced'
  BY <1>2 DEF CountingInv, Balanced, EveryPacketCounted, Flying
<1>4. \A h \in closeErrors' : h \in Sessions /\ pc'[h] \in {"leave", "done"}
  BY <1>1 DEF CountingInv
<1> QED BY <1>1, <1>2, <1>3, <1>4 DEF CountingInv

(* A packet that is received is counted and in flight. *)
LEMMA TakenCounts ==
    ASSUME CountingInv, NEW g \in Sessions, Goto(g, "check"), Count("received"),
           UNCHANGED closeErrors, pc[g] \in {"loop", "wait"}
    PROVE  CountingInv'
<1>1. /\ DOMAIN pc' = Sessions
      /\ pc'[g] = "check"
      /\ \A h \in Sessions \ {g} : pc'[h] = pc[h]
  BY DEF CountingInv, Goto
<1>2. Flying' = Flying \cup {g} /\ g \notin Flying
  BY <1>1 DEF Flying, InFlight
<1>3. IsFiniteSet(Flying') /\ Cardinality(Flying') = Cardinality(Flying) + 1
  BY <1>2, FS_AddElement DEF CountingInv
<1>4. stats' = [stats EXCEPT !.received = @ + 1]
  BY DEF Count
<1>5. /\ Cardinality(Flying) \in Nat
      /\ Cardinality(closeErrors) \in Nat
  BY FS_CardinalityType DEF CountingInv
<1>6. Balanced'
  BY <1>3, <1>4, <1>5 DEF CountingInv, Balanced, EveryPacketCounted, Flying
<1>7. \A h \in closeErrors' : h \in Sessions /\ pc'[h] \in {"leave", "done"}
  BY <1>1 DEF CountingInv
<1> QED BY <1>1, <1>3, <1>4, <1>6, <1>7 DEF CountingInv

(* A packet that is through leaves the flight for one of the counters. *)
LEMMA DoneCounts ==
    ASSUME CountingInv, NEW g \in Sessions, NEW label, Goto(g, label),
           NEW field \in {"stored", "deduped", "failed"}, Count(field),
           UNCHANGED closeErrors, InFlight(g), ~ InFlight(g)'
    PROVE  CountingInv'
<1>1. /\ DOMAIN pc' = Sessions
      /\ pc'[g] = label
      /\ \A h \in Sessions \ {g} : pc'[h] = pc[h]
  BY DEF CountingInv, Goto
<1>2. Flying' = Flying \ {g} /\ g \in Flying
  BY <1>1 DEF Flying, InFlight
<1>3. IsFiniteSet(Flying') /\ Cardinality(Flying') = Cardinality(Flying) - 1
  BY <1>2, FS_RemoveElement DEF CountingInv
<1>4. stats' = [stats EXCEPT ![field] = @ + 1]
  BY DEF Count
<1>5. /\ Cardinality(Flying) \in Nat
      /\ Cardinality(closeErrors) \in Nat
  BY FS_CardinalityType DEF CountingInv
<1>6. Balanced'
  BY <1>3, <1>4, <1>5 DEF CountingInv, Balanced, EveryPacketCounted, Flying
<1>7. \A h \in closeErrors' : h \in Sessions /\ pc'[h] \in {"leave", "done"}
  BY <1>1 DEF CountingInv, InFlight
<1> QED BY <1>1, <1>3, <1>4, <1>6, <1>7 DEF CountingInv

(* A source that fails to close adds to both sides, once per session. *)
LEMMA CloseCounts ==
    ASSUME CountingInv, NEW g \in Sessions, Close(g)
    PROVE  CountingInv'
<1>0. pc[g] = "close" /\ \E label \in {"leave", "done"} : Goto(g, label)
  BY DEF Close, Leave
<1>1. CASE UNCHANGED <<stats, closeErrors>>
  <2>1. ~ InFlight(g) /\ ~ InFlight(g)'
    BY <1>0 DEF InFlight, Goto, CountingInv
  <2> QED BY <1>0, <1>1, <2>1, MoveCounts
<1>2. CASE Count("failed") /\ closeErrors' = closeErrors \cup {g}
  <2>1. /\ DOMAIN pc' = Sessions
        /\ pc'[g] \in {"leave", "done"}
        /\ \A h \in Sessions \ {g} : pc'[h] = pc[h]
    BY <1>0 DEF CountingInv, Goto
  <2>2. Flying' = Flying
    BY <1>0, <2>1 DEF Flying, InFlight
  <2>3. g \notin closeErrors
    BY <1>0 DEF CountingInv
  <2>4. /\ IsFiniteSet(closeErrors')
        /\ Cardinality(closeErrors') = Cardinality(closeErrors) + 1
    BY <1>2, <2>3, FS_AddElement DEF CountingInv
  <2>5. stats' = [stats EXCEPT !.failed = @ + 1]
    BY <1>2 DEF Count
  <2>6. /\ Cardinality(Flying) \in Nat
        /\ Cardinality(closeErrors) \in Nat
    BY FS_CardinalityType DEF CountingInv
  <2>7. Balanced'
    <3>1. /\ stats'.received = stats.received /\ stats'.stored = stats.stored
          /\ stats'.deduped = stats.deduped /\ stats'.failed = stats.failed + 1
          /\ stats.failed \in Nat /\ stats.stored \in Nat /\ stats.deduped \in Nat
      BY <2>5 DEF CountingInv
    <3>2. stats'.failed - Cardinality(closeErrors') = stats.failed - Cardinality(closeErrors)
      BY <2>4, <2>6, <3>1
    <3>3. Cardinality(closeErrors') <= stats'.failed
      BY <2>4, <2>6, <3>1 DEF CountingInv, Balanced
    <3> QED BY <2>2, <3>1, <3>2, <3>3 DEF CountingInv, Balanced, EveryPacketCounted, Flying
  <2>8. \A h \in closeErrors' : h \in Sessions /\ pc'[h] \in {"leave", "done"}
    BY <1>2, <2>1 DEF CountingInv
  <2> QED BY <2>1, <2>2, <2>4, <2>5, <2>7, <2>8 DEF CountingInv
<1> QED BY <1>1, <1>2 DEF Close

(* Every step of a session keeps the balance. *)
LEMMA SessionCounts ==
    ASSUME CountingInv, NEW g \in Sessions, SessionStep(g)
    PROVE  CountingInv'
<1>0. DOMAIN pc = Sessions
  BY DEF CountingInv
<1> USE DEF InFlight, Goto, End
<1>1. CASE Start(g)
  <2>1. \E label \in {"open", "done"} : Goto(g, label)
    BY <1>1 DEF Start
  <2>2. pc[g] = "idle" /\ UNCHANGED <<stats, closeErrors>>
    BY <1>1 DEF Start, historyVars
  <2> QED BY <1>0, <2>1, <2>2, MoveCounts
<1>2. CASE Open(g)
  <2>1. \E label \in {"loop", "leave", "done"} : Goto(g, label)
    BY <1>2 DEF Open, Leave
  <2>2. pc[g] = "open" /\ UNCHANGED <<stats, closeErrors>>
    BY <1>2 DEF Open, serviceVars, historyVars
  <2> QED BY <1>0, <2>1, <2>2, MoveCounts
<1>3. CASE Close(g)
  BY <1>3, CloseCounts
<1>4. CASE StopRunning(g)
  <2>1. pc[g] = "leave" /\ Goto(g, "done") /\ UNCHANGED <<stats, closeErrors>>
    BY <1>4 DEF StopRunning, historyVars
  <2> QED BY <1>0, <2>1, MoveCounts
<1>5. CASE Cancelled(g)
  <2>1. pc[g] = "loop" /\ Goto(g, "close") /\ UNCHANGED <<stats, closeErrors>>
    BY <1>5 DEF Cancelled, serviceVars, historyVars
  <2> QED BY <1>0, <2>1, MoveCounts
<1>6. CASE Fetch(g)
  <2>1. CASE Goto(g, "check") /\ Count("received")
    BY <1>6, <2>1, TakenCounts DEF Fetch, historyVars
  <2>2. CASE (Goto(g, "flush") \/ Goto(g, "close")) /\ UNCHANGED stats
    <3>1. pc[g] = "loop" /\ UNCHANGED <<stats, closeErrors>>
      BY <1>6, <2>2 DEF Fetch, historyVars
    <3> QED BY <1>0, <2>2, <3>1, MoveCounts
  <2> QED BY <1>6, <2>1, <2>2 DEF Fetch, BeginFlush
<1>7. CASE Check(g)
  <2>0. pc[g] = "check" /\ UNCHANGED closeErrors
    BY <1>7 DEF Check, historyVars
  <2>1. CASE Count("deduped") /\ Goto(g, "loop")
    BY <1>0, <2>0, <2>1, DoneCounts
  <2>2. CASE Goto(g, "record") /\ UNCHANGED stats
    BY <1>0, <2>0, <2>2, MoveCounts
  <2> QED BY <1>7, <2>1, <2>2 DEF Check
<1>8. CASE Mark(g)
  <2>1. \E label \in {"feed", "put"} : Goto(g, label)
    BY <1>8 DEF Mark
  <2>2. pc[g] = "record" /\ UNCHANGED <<stats, closeErrors>>
    BY <1>8 DEF Mark, serviceVars, historyVars
  <2> QED BY <1>0, <2>1, <2>2, MoveCounts
<1>9. CASE FeedOne(g)
  <2>1. pc[g] = "feed" /\ Goto(g, "drain") /\ UNCHANGED <<stats, closeErrors>>
    BY <1>9 DEF FeedOne, serviceVars, historyVars
  <2> QED BY <1>0, <2>1, MoveCounts
<1>10. CASE DrainAll(g)
  <2>1. pc[g] = "drain" /\ Goto(g, "put") /\ UNCHANGED <<stats, closeErrors>>
    BY <1>10 DEF DrainAll, serviceVars, historyVars
  <2> QED BY <1>0, <2>1, MoveCounts
<1>11. CASE Put(g)
  <2>0. pc[g] \in {"put", "retry"} /\ UNCHANGED closeErrors
    BY <1>11 DEF Put, PutOK, serviceVars, historyVars
  <2>1. CASE (Goto(g, "put") \/ Goto(g, "retry")) /\ UNCHANGED stats
    BY <1>0, <2>0, <2>1, MoveCounts
  <2>2. CASE Goto(g, "close") /\ Count("failed")
    BY <1>0, <2>0, <2>2, DoneCounts
  <2> QED BY <1>11, <2>1, <2>2 DEF Put, PutOK, Fail, serviceVars
<1>12. CASE Stored(g)
  <2>1. pc[g] = "put" /\ Goto(g, "loop") /\ Count("stored") /\ UNCHANGED closeErrors
    BY <1>12 DEF Stored, historyVars
  <2> QED BY <1>0, <2>1, DoneCounts
<1>13. CASE Flush(g)
  <2>1. pc[g] = "flush" /\ Goto(g, "flushput") /\ UNCHANGED <<stats, closeErrors>>
    BY <1>13 DEF Flush, serviceVars, historyVars
  <2> QED BY <1>0, <2>1, MoveCounts
<1>14. CASE FlushPut(g)
  <2>0. pc[g] = "flushput" /\ UNCHANGED <<stats, closeErrors>>
    BY <1>14 DEF FlushPut, PutOK, serviceVars, historyVars
  <2>1. CASE UNCHANGED pc
    BY <2>0, <2>1, StillCounts
  <2>2. CASE Goto(g, "close")
    BY <1>0, <2>0, <2>2, MoveCounts
  <2> QED BY <1>14, <2>1, <2>2 DEF FlushPut
<1>15. CASE LiveOpen(g)
  <2>1. pc[g] = "open" /\ Goto(g, "loop") /\ UNCHANGED <<stats, closeErrors>>
    BY <1>15 DEF LiveOpen, serviceVars, historyVars
  <2> QED BY <1>0, <2>1, MoveCounts
<1>16. CASE LiveFetch(g) \/ LiveWait(g)
  <2>0. pc[g] \in {"loop", "wait"} /\ UNCHANGED closeErrors
    BY <1>16 DEF LiveFetch, LiveWait, historyVars
  <2>1. CASE LiveEmit(g)
    BY <2>0, <2>1, TakenCounts DEF LiveEmit
  <2>2. CASE /\ Goto(g, "close") \/ Goto(g, "flush") \/ Goto(g, "wait")
             /\ UNCHANGED stats
    BY <1>0, <2>0, <2>2, MoveCounts
  <2> QED BY <1>16, <2>1, <2>2 DEF LiveFetch, LiveWait, BeginFlush
<1>17. CASE Stopped(g)
  <2>1. \E label \in {"flush", "close"} : Goto(g, label)
    BY <1>17 DEF Stopped, BeginFlush
  <2>2. pc[g] = "loop" /\ UNCHANGED <<stats, closeErrors>>
    BY <1>17 DEF Stopped, serviceVars, historyVars
  <2> QED BY <1>0, <2>1, <2>2, MoveCounts
<1> QED BY <1>1, <1>2, <1>3, <1>4, <1>5, <1>6, <1>7, <1>8, <1>9, <1>10, <1>11, <1>12,
           <1>13, <1>14, <1>15, <1>16, <1>17 DEF Step, SessionStep

(* The balance of nothing. *)
LEMMA CountingInit == CaptureInit => CountingInv
<1> SUFFICES ASSUME CaptureInit PROVE CountingInv
  OBVIOUS
<1>1. Flying = {} /\ closeErrors = {} /\ DOMAIN pc = Sessions
  BY DEF CaptureInit, Flying, InFlight
<1>2. IsFiniteSet({}) /\ Cardinality({}) = 0
  BY FS_EmptySet
<1>3. stats = [received |-> 0, stored |-> 0, failed |-> 0, deduped |-> 0]
  BY DEF CaptureInit
<1>4. Balanced
  <2>1. Cardinality(Flying) = 0 /\ Cardinality(closeErrors) = 0
    BY <1>1, <1>2
  <2> QED BY <1>3, <2>1 DEF Balanced, EveryPacketCounted, Flying
<1> QED BY <1>1, <1>2, <1>3, <1>4 DEF CountingInv

(* Every step keeps the balance. *)
LEMMA CountingStep ==
    ASSUME CountingInv, [CaptureNext]_captureVars \/ [ControlNext]_controlVars
    PROVE  CountingInv'
<1>1. CASE PassesBy
  BY <1>1, StillCounts DEF PassesBy, serviceVars, historyVars
<1> QED BY <1>1, CaptureSteps, ControlSteps, SessionCounts

(* The balance is what the counters promise. *)
LEMMA CountingInvImplies == CountingInv => EveryPacketCounted
BY DEF CountingInv, Balanced

(* No interleaving of sessions makes ProcessOne count a packet twice or    *)
(* forget one: what was received is stored, deduplicated, failed or in     *)
(* the hands of exactly one session (service.go, Process, Run and          *)
(* ProcessOne). *)
THEOREM PacketsAreCounted == CaptureSpec => []EveryPacketCounted
BY CountingInit, CountingStep, CountingInvImplies, PTL DEF CaptureSpec

-----------------------------------------------------------------------------
(* The reassembler in the hands of the sessions *)

HandlingInv ==
    /\ Shape
    /\ \A g \in Sessions :
          pc[g] \in {"check", "record", "feed"} /\ cur[g].isFragment => cur[g] \in Arrivals
    /\ AsmInv
    /\ IsSeq(pending)
    /\ \A g \in Sessions : IsSeq(todo[g])

(* What leaves the reassembler alone keeps its invariant. *)
LEMMA UnchangedAsm ==
    ASSUME AsmInv, IsSeq(pending), UNCHANGED asmVars
    PROVE  AsmInv' /\ IsSeq(pending')
BY UnchangedWindows DEF asmVars

(* Most steps of a session leave reassembler and puts alone. *)
LEMMA HandlingStays ==
    ASSUME HandlingInv, NEW g \in Sessions, SessionStep(g), UNCHANGED asmVars,
           IsSeq(todo'[g]),
           pc'[g] \in {"check", "record", "feed"} /\ cur'[g].isFragment => cur'[g] \in Arrivals
    PROVE  HandlingInv'
BY SessionFrame, UnchangedAsm DEF HandlingInv

(* Feed, called by a session with a fragment that arrived. *)
LEMMA FeedHandles ==
    ASSUME HandlingInv, NEW g \in Sessions, FeedOne(g)
    PROVE  HandlingInv'
<1>1. Shape /\ Shape' /\ pc[g] = "feed" /\ pc'[g] = "drain"
  BY SessionFrame DEF HandlingInv, SessionStep, Step, FeedOne, Goto, Shape
<1>2. AsmInv' /\ IsSeq(pending')
  <2>1. CASE PassThrough(cur[g])
    BY <2>1, UnchangedWindows DEF HandlingInv, PassThrough
  <2>2. CASE FeedFragment(cur[g])
    <3>1. IsArrival(cur[g])
      BY <1>1, <2>2, ArrivalsArrive DEF HandlingInv, FeedFragment
    <3>2. AsmInv'
      BY <2>2, <3>1, FragmentKeepsInv DEF HandlingInv
    <3>3. IsSeq(pending')
      BY <2>2, <3>1, FeedKeepsPending DEF HandlingInv, AsmInv
    <3> QED BY <3>2, <3>3
  <2> QED BY <2>1, <2>2 DEF FeedOne, Feed
<1>3. IsSeq(todo'[g])
  <2>1. todo'[g] = FeedResult(cur[g])
    BY <1>1 DEF FeedOne, Shape
  <2>2. FeedResult(cur[g]) = << >> \/ \E e : FeedResult(cur[g]) = << e >>
    BY DEF FeedResult
  <2> QED BY <2>1, <2>2, EmptyIsSeq, SingleIsSeq
<1> QED BY <1>1, <1>2, <1>3, SessionFrame DEF HandlingInv, SessionStep, Step

(* Drain puts the pending results before the session's own. *)
LEMMA DrainHandles ==
    ASSUME HandlingInv, NEW g \in Sessions, DrainAll(g)
    PROVE  HandlingInv'
<1>1. Shape /\ pc'[g] = "put"
  BY DEF HandlingInv, DrainAll, Goto, Shape
<1>2. AsmInv' /\ IsSeq(pending')
  BY UnchangedWindows, EmptyIsSeq DEF DrainAll, Drain, HandlingInv
<1>3. IsSeq(todo'[g])
  BY <1>1, ConcatIsSeq DEF HandlingInv, DrainAll, Shape
<1> QED BY <1>1, <1>2, <1>3, SessionFrame DEF HandlingInv, SessionStep, Step

(* The flush hands every window to one session. *)
LEMMA FlushHandles ==
    ASSUME HandlingInv, NEW g \in Sessions, Flush(g)
    PROVE  HandlingInv'
<1>1. Shape /\ pc'[g] = "flushput"
  BY DEF HandlingInv, Flush, Goto, Shape
<1>2. AsmInv' /\ IsSeq(pending')
  BY FlushKeepsInv, EmptyIsSeq DEF Flush, FlushExpired, HandlingInv
<1>3. IsSeq(todo'[g])
  <2>1. todo'[g] = FlushResult
    BY <1>1 DEF Flush, Shape
  <2>2. Len(order) \in Nat
    BY DEF HandlingInv, AsmInv, WindowsTypeOK
  <2>3. IsSeq(RestOf(order))
    BY <2>2, RestOfTypes DEF HandlingInv, AsmInv
  <2> QED BY <2>1, <2>3, ConcatIsSeq, EmptyIsSeq DEF FlushResult, HandlingInv
<1> QED BY <1>1, <1>2, <1>3, SessionFrame DEF HandlingInv, SessionStep, Step

(* Every step of a session keeps reassembler and lists in order. *)
LEMMA SessionHandles ==
    ASSUME HandlingInv, NEW g \in Sessions, SessionStep(g)
    PROVE  HandlingInv'
<1>0. Shape /\ IsSeq(todo[g])
  BY DEF HandlingInv
<1> USE DEF Shape, Goto, End
<1>1. CASE Start(g) \/ Open(g) \/ Close(g) \/ StopRunning(g) \/ Cancelled(g) \/ Stopped(g)
  <2>1. pc'[g] \notin {"check", "record", "feed"}
    BY <1>0, <1>1 DEF Start, Open, Close, StopRunning, Leave, Cancelled, Stopped, BeginFlush
  <2>2. UNCHANGED <<todo, asmVars>>
    BY <1>1 DEF Start, Open, Close, StopRunning, Cancelled, Stopped
  <2> QED BY <1>0, <2>1, <2>2, HandlingStays
<1>2. CASE Fetch(g)
  <2>1. UNCHANGED <<todo, asmVars>>
    BY <1>2 DEF Fetch
  <2>2. pc'[g] = "check" => cur'[g] \in Arrivals
    BY <1>0, <1>2 DEF Fetch, BeginFlush
  <2>3. pc'[g] \in {"check", "flush", "close"}
    BY <1>0, <1>2 DEF Fetch, BeginFlush
  <2> QED BY <1>0, <2>1, <2>2, <2>3, HandlingStays
<1>3. CASE Check(g)
  <2>1. UNCHANGED <<cur, todo, asmVars>> /\ pc[g] = "check"
    BY <1>3 DEF Check
  <2> QED BY <1>0, <2>1, HandlingStays DEF HandlingInv
<1>4. CASE Mark(g)
  <2>1. UNCHANGED <<cur, asmVars>> /\ pc[g] = "record"
    BY <1>4 DEF Mark
  <2>2. todo'[g] = todo[g] \/ todo'[g] = << cur[g] >>
    BY <1>0, <1>4 DEF Mark
  <2> QED BY <1>0, <2>1, <2>2, SingleIsSeq, HandlingStays DEF HandlingInv
<1>5. CASE FeedOne(g) \/ DrainAll(g) \/ Flush(g)
  BY <1>5, FeedHandles, DrainHandles, FlushHandles
<1>6. CASE Put(g) \/ FlushPut(g) \/ Stored(g)
  <2>1. UNCHANGED asmVars
    BY <1>6 DEF Put, PutOK, FlushPut, Stored
  <2>2. pc'[g] \notin {"check", "record", "feed"}
    BY <1>0, <1>6 DEF Put, Fail, FlushPut, Stored
  <2>3. \/ todo'[g] = todo[g]
        \/ todo[g] # << >> /\ todo'[g] = Tail(todo[g])
        \/ todo'[g] = << >>
    BY <1>0, <1>6 DEF Put, PutOK, Fail, FlushPut, Stored
  <2>4. IsSeq(todo'[g])
    BY <1>0, <2>3, TailIsSeq, EmptyIsSeq
  <2> QED BY <2>1, <2>2, <2>4, HandlingStays
<1>7. CASE LiveOpen(g) \/ LiveFetch(g) \/ LiveWait(g)
  <2>1. UNCHANGED <<todo, asmVars>>
    BY <1>7 DEF LiveOpen, LiveFetch, LiveWait
  <2>2. \/ pc'[g] \notin {"check", "record", "feed"}
        \/ ~ cur'[g].isFragment
    BY <1>0, <1>7 DEF LiveOpen, LiveFetch, LiveWait, LiveEmit, BeginFlush, LivePacket,
                      NewDatagram, Whole
  <2> QED BY <1>0, <2>1, <2>2, HandlingStays
<1> QED BY <1>1, <1>2, <1>3, <1>4, <1>5, <1>6, <1>7 DEF SessionStep, Step

(* They are in order at the start. *)
LEMMA HandlingInit == CaptureInit => HandlingInv
<1> SUFFICES ASSUME CaptureInit PROVE HandlingInv
  OBVIOUS
<1>1. AsmInv
  BY AsmInvInit DEF CaptureInit
<1>2. IsSeq(<< >>)
  BY EmptyIsSeq
<1> QED BY <1>1, <1>2 DEF CaptureInit, AsmInit, HandlingInv, Shape

(* Every step keeps them in order. *)
LEMMA HandlingStep ==
    ASSUME HandlingInv, [CaptureNext]_captureVars \/ [ControlNext]_controlVars
    PROVE  HandlingInv'
<1>1. CASE PassesBy
  BY <1>1, UnchangedAsm DEF PassesBy, HandlingInv, Shape
<1> QED BY <1>1, CaptureSteps, ControlSteps, SessionHandles

-----------------------------------------------------------------------------
(* What a clean end leaves *)

(* A session that may still flush, or whose end was not clean. *)
Answers(g) ==
    \/ pc[g] \in {"loop", "wait", "check", "record", "feed", "drain", "put", "retry", "flush"}
    \/ pc[g] \in {"close", "leave", "done"} /\ result[g] \in {"error", "cancelled"}

HeldInv ==
    /\ DOMAIN entries = {} => entries = << >>
    /\ ~ hasAssembler => /\ DOMAIN entries = {}
                         /\ \A g \in Sessions : pc[g] \notin {"feed", "drain", "flush"}
    /\ DOMAIN entries # {} => \E g \in Sessions : Answers(g)
    /\ pending # << >> => \E g \in Sessions : pc[g] = "drain"
    /\ \A g \in Sessions :
          todo[g] # << >> => pc[g] \in {"drain", "put", "retry", "flushput"}

(* A step that leaves the reassembler alone. *)
LEMMA HeldStays ==
    ASSUME Shape, HeldInv, NEW g \in Sessions, SessionStep(g),
           UNCHANGED <<asmVars, hasAssembler>>,
           Answers(g) => Answers(g)' \/ DOMAIN entries = {},
           pc[g] # "drain",
           ~ hasAssembler => pc'[g] \notin {"feed", "drain", "flush"},
           todo'[g] # << >> => pc'[g] \in {"drain", "put", "retry", "flushput"}
    PROVE  HeldInv'
<1>1. \A h \in Sessions \ {g} : /\ pc'[h] = pc[h]
                                 /\ todo'[h] = todo[h]
                                 /\ result'[h] = result[h]
  BY SessionFrame
<1>2. \A h \in Sessions \ {g} : Answers(h)' <=> Answers(h)
  BY <1>1 DEF Answers
<1>3. UNCHANGED <<entries, pending>>
  BY DEF asmVars
<1> QED BY <1>1, <1>2, <1>3 DEF HeldInv

(* A Feed opens windows only in a session that still has its end before    *)
(* it. *)
LEMMA FeedHolds ==
    ASSUME Shape, HeldInv, NEW g \in Sessions, FeedOne(g)
    PROVE  HeldInv'
<1>0. DOMAIN entries' = {} => entries' = << >>
  <2>1. CASE PassThrough(cur[g])
    BY <2>1 DEF PassThrough, HeldInv
  <2>2. CASE FeedFragment(cur[g])
    BY <2>2 DEF FeedFragment, EntriesAfter
  <2> QED BY <2>1, <2>2 DEF FeedOne, Feed
<1>1. pc[g] = "feed" /\ pc'[g] = "drain" /\ UNCHANGED hasAssembler
  BY DEF Shape, FeedOne, Goto, serviceVars
<1>2. Answers(g)'
  BY <1>1 DEF Answers
<1>3. \A h \in Sessions \ {g} : pc'[h] = pc[h] /\ todo'[h] = todo[h]
  BY SessionFrame DEF SessionStep, Step
<1> QED BY <1>0, <1>1, <1>2, <1>3 DEF HeldInv

(* A Drain leaves nothing pending. *)
LEMMA DrainHolds ==
    ASSUME Shape, HeldInv, NEW g \in Sessions, DrainAll(g)
    PROVE  HeldInv'
<1>1. pc[g] = "drain" /\ pc'[g] = "put" /\ UNCHANGED <<hasAssembler, entries>>
  BY DEF Shape, DrainAll, Drain, Goto, serviceVars
<1>2. Answers(g)' /\ pending' = << >>
  BY <1>1 DEF Answers, DrainAll, Drain
<1>3. \A h \in Sessions \ {g} : pc'[h] = pc[h] /\ todo'[h] = todo[h]
  BY SessionFrame DEF SessionStep, Step
<1> QED BY <1>1, <1>2, <1>3 DEF HeldInv

(* After a flush no window is left, whoever fed it. *)
LEMMA FlushHolds ==
    ASSUME Shape, HeldInv, AsmInv, NEW g \in Sessions, Flush(g)
    PROVE  HeldInv'
<1>1. pc[g] = "flush" /\ pc'[g] = "flushput" /\ UNCHANGED hasAssembler
  BY DEF Shape, Flush, Goto, serviceVars
<1>2. DOMAIN entries' = {} /\ entries' = << >>
  <2>1. DOMAIN entries' = {}
    BY FlushClearsWindows DEF Flush
  <2> QED BY <2>1 DEF Flush, FlushExpired, Restrict
<1>3. pending' = << >> \/ pending' = pending
  BY DEF Flush, FlushExpired
<1>4. \A h \in Sessions \ {g} : pc'[h] = pc[h] /\ todo'[h] = todo[h]
  BY SessionFrame DEF SessionStep, Step
<1> QED BY <1>1, <1>2, <1>3, <1>4 DEF HeldInv

(* Every step of a session leaves somebody to answer for what is held. *)
LEMMA SessionHolds ==
    ASSUME Shape, HeldInv, AsmInv, NEW g \in Sessions, SessionStep(g)
    PROVE  HeldInv'
<1>0. todo[g] # << >> => pc[g] \in {"drain", "put", "retry", "flushput"}
  BY DEF HeldInv
<1> USE DEF Shape, Goto, End, Answers, serviceVars
<1>1. CASE Start(g) \/ Open(g) \/ Close(g) \/ StopRunning(g)
  <2>1. UNCHANGED <<todo, asmVars, hasAssembler>>
    BY <1>1 DEF Start, Open, Close, StopRunning
  <2>2. /\ pc[g] \in {"idle", "open", "close", "leave"}
        /\ pc'[g] \notin {"feed", "drain", "flush"}
    BY <1>1 DEF Start, Open, Close, StopRunning, Leave
  <2>3. Answers(g) => Answers(g)'
    BY <1>1 DEF Start, Open, Close, StopRunning, Leave
  <2> QED BY <1>0, <2>1, <2>2, <2>3, HeldStays
<1>2. CASE Cancelled(g)
  <2>1. pc[g] = "loop" /\ pc'[g] = "close" /\ result'[g] = "cancelled"
    BY <1>2 DEF Cancelled
  <2>2. UNCHANGED <<todo, asmVars, hasAssembler>>
    BY <1>2 DEF Cancelled
  <2> QED BY <1>0, <2>1, <2>2, HeldStays
<1>3. CASE Fetch(g) \/ Stopped(g) \/ LiveOpen(g) \/ LiveFetch(g) \/ LiveWait(g)
  <2>1. UNCHANGED <<todo, asmVars, hasAssembler>> /\ pc[g] \in {"open", "loop", "wait"}
    BY <1>3 DEF Fetch, Stopped, LiveOpen, LiveFetch, LiveWait
  <2>2. \/ pc'[g] \in {"loop", "check", "wait"}
        \/ pc'[g] = "flush" /\ hasAssembler
        \/ pc'[g] = "close" /\ ~ hasAssembler
        \/ pc'[g] = "close" /\ result'[g] \in {"error", "cancelled"}
    BY <1>3 DEF Fetch, Stopped, LiveOpen, LiveFetch, LiveWait, LiveEmit, BeginFlush
  <2>3. Answers(g)' \/ DOMAIN entries = {}
    BY <2>2 DEF HeldInv
  <2> QED BY <1>0, <2>1, <2>2, <2>3, HeldStays
<1>4. CASE Check(g) \/ Mark(g) \/ Stored(g)
  <2>1. UNCHANGED <<asmVars, hasAssembler>> /\ pc[g] \in {"check", "record", "put"}
    BY <1>4 DEF Check, Mark, Stored
  <2>2. \/ pc'[g] \in {"loop", "record"} /\ UNCHANGED todo
        \/ pc'[g] = "feed" /\ hasAssembler /\ UNCHANGED todo
        \/ pc'[g] = "put"
    BY <1>4 DEF Check, Mark, Stored
  <2>3. pc[g] = "put" => todo[g] = << >>
    BY <1>4 DEF Check, Mark, Stored
  <2> QED BY <1>0, <2>1, <2>2, <2>3, HeldStays
<1>5. CASE FeedOne(g) \/ DrainAll(g) \/ Flush(g)
  BY <1>5, FeedHolds, DrainHolds, FlushHolds
<1>6. CASE Put(g)
  <2>1. UNCHANGED <<asmVars, hasAssembler>> /\ pc[g] \in {"put", "retry"}
    BY <1>6 DEF Put, PutOK
  <2>2. \/ pc'[g] \in {"put", "retry"}
        \/ pc'[g] = "close" /\ result'[g] = "error" /\ todo'[g] = << >>
    BY <1>6 DEF Put, PutOK, Fail
  <2> QED BY <2>1, <2>2, HeldStays
<1>7. CASE FlushPut(g)
  <2>1. UNCHANGED <<asmVars, hasAssembler>> /\ pc[g] = "flushput"
    BY <1>7 DEF FlushPut, PutOK
  <2>2. pc'[g] = "flushput" \/ (pc'[g] = "close" /\ todo'[g] = << >>)
    BY <1>7 DEF FlushPut, PutOK
  <2> QED BY <2>1, <2>2, HeldStays
<1> QED BY <1>1, <1>2, <1>3, <1>4, <1>5, <1>6, <1>7 DEF SessionStep, Step

(* Nothing is held at the start. *)
LEMMA HeldInit == CaptureInit => HeldInv
BY DEF CaptureInit, AsmInit, HeldInv

(* Every step leaves somebody to answer for what is held. *)
LEMMA HeldStep ==
    ASSUME HandlingInv, HeldInv, [CaptureNext]_captureVars \/ [ControlNext]_controlVars
    PROVE  HeldInv'
<1>1. CASE PassesBy
  BY <1>1 DEF PassesBy, HeldInv, Answers, asmVars, serviceVars
<1> QED BY <1>1, CaptureSteps, ControlSteps, SessionHolds DEF HandlingInv

(* When every session has come to a clean end nobody answers any more, so  *)
(* that nothing is held. *)
LEMMA HeldImplies == Shape /\ HeldInv => CleanEndHoldsNothing
<1> SUFFICES ASSUME HeldInv, \A g \in Sessions : result[g] \in {"ok", "busy"} /\ pc[g] = "done"
             PROVE  /\ entries = << >>
                    /\ pending = << >>
                    /\ \A g \in Sessions : todo[g] = << >>
  BY DEF CleanEndHoldsNothing
<1>1. \A g \in Sessions : ~ Answers(g)
  BY DEF Answers
<1> QED BY <1>1 DEF HeldInv

(* When every session has reached the end of its source without an error,  *)
(* no window, no pending result and no packet to put is left: the session  *)
(* that flushes last takes what the others fed after their flush           *)
(* (service.go, flushAssembler; reassembler.go, Flush). *)
THEOREM CleanEndLeavesNothing == CaptureSpec => []CleanEndHoldsNothing
<1>1. HandlingInv => Shape
  BY DEF HandlingInv
<1> QED BY <1>1, HandlingInit, HandlingStep, HeldInit, HeldStep, HeldImplies, PTL
        DEF CaptureSpec

-----------------------------------------------------------------------------
(* Keys and stored packets *)

FragmentKeys == {PacketKey(pkt) : pkt \in {p \in Arrivals : p.isFragment}}

(* A session that has recorded the key of its packet and not stored it. *)
Carries(g) ==
    \/ pc[g] = "feed"
    \/ /\ pc[g] \in {"drain", "put", "retry"}
       /\ ~ cur[g].isFragment
       /\ cur[g] \in Range(todo[g])

KeysInv ==
    \A k \in DOMAIN seen :
        \/ \E g \in Sessions : Carries(g) /\ k = Key(g)
        \/ k \in FragmentKeys
        \/ k \in failedKeys

StoredInv ==
    /\ IsSeq(packets)
    /\ \A g \in Sessions :
          pc[g] \in {"drain", "put", "retry"} /\ ~ cur[g].isFragment
            => cur[g] \in Range(todo[g]) \cup Range(packets)

(* What one session does changes neither key nor duty of another. *)
LEMMA OthersCarry ==
    ASSUME Shape, NEW g \in Sessions, SessionStep(g)
    PROVE  \A h \in Sessions \ {g} : Carries(h)' = Carries(h) /\ Key(h)' = Key(h)
BY SessionFrame DEF Carries, Key

(* A step that records no key keeps the reasons, if it keeps its own.      *)
LEMMA KeysStay ==
    ASSUME Shape, KeysInv, NEW g \in Sessions, SessionStep(g),
           DOMAIN seen' \subseteq DOMAIN seen, failedKeys \subseteq failedKeys',
           Carries(g) /\ Key(g) \in DOMAIN seen'
             => \/ Carries(g)' /\ Key(g)' = Key(g)
                \/ Key(g) \in FragmentKeys
                \/ Key(g) \in failedKeys'
    PROVE  KeysInv'
<1> SUFFICES ASSUME NEW k \in DOMAIN seen'
             PROVE  \/ \E h \in Sessions : Carries(h)' /\ k = Key(h)'
                    \/ k \in FragmentKeys
                    \/ k \in failedKeys'
  BY DEF KeysInv, FragmentKeys
<1>1. CASE \E h \in Sessions : Carries(h) /\ k = Key(h)
  BY <1>1, OthersCarry
<1>2. CASE k \in FragmentKeys \/ k \in failedKeys
  BY <1>2
<1> QED BY <1>1, <1>2 DEF KeysInv

(* The key that Record adds is that of the packet on its way. *)
LEMMA MarkKeys ==
    ASSUME HandlingInv, KeysInv, NEW g \in Sessions, Mark(g)
    PROVE  KeysInv'
<1>0. Shape
  BY DEF HandlingInv
<1>1. /\ DOMAIN seen' = DOMAIN seen \cup {Key(g)}
      /\ UNCHANGED <<cur, failedKeys>>
  BY DEF Mark, Record, serviceVars, historyVars
<1>2. Carries(g)' \/ Key(g) \in FragmentKeys
  <2>1. CASE pc'[g] = "feed"
    BY <2>1 DEF Carries
  <2>2. CASE pc'[g] = "put" /\ todo'[g] = << cur[g] >> /\ ~ cur[g].isFragment
    BY <1>1, <2>2, SingleIsSeq DEF Carries
  <2>3. CASE cur[g].isFragment
    BY <2>3 DEF HandlingInv, Mark, FragmentKeys, Key
  <2> QED BY <1>0, <2>1, <2>2, <2>3 DEF Mark, Goto, Shape
<1>3. Key(g)' = Key(g) /\ ~ Carries(g)
  BY <1>1 DEF Key, Carries, Mark
<1>4. ASSUME NEW k \in DOMAIN seen'
      PROVE  \/ \E h \in Sessions : Carries(h)' /\ k = Key(h)'
             \/ k \in FragmentKeys
             \/ k \in failedKeys'
  <2>1. CASE k = Key(g)
    BY <1>2, <1>3, <2>1
  <2>2. CASE k \in DOMAIN seen
    BY <1>0, <1>1, <1>3, <2>2, OthersCarry DEF KeysInv, SessionStep, Step
  <2> QED BY <1>1, <2>1, <2>2
<1> QED BY <1>4 DEF KeysInv, FragmentKeys

(* A Put that succeeds takes the packet off the list and its key out of    *)
(* the deduplicator. *)
LEMMA PutKeys ==
    ASSUME HandlingInv, KeysInv, NEW g \in Sessions, SessionStep(g), todo[g] # << >>, PutOK(g),
           \/ pc[g] \in {"put", "retry"} /\ pc'[g] = "put"
           \/ pc[g] = "flushput"
    PROVE  KeysInv'
<1>0. Shape /\ IsSeq(todo[g])
  BY DEF HandlingInv
<1>1. /\ DOMAIN seen' = DOMAIN seen \ {PacketKey(Head(todo[g]))}
      /\ UNCHANGED <<cur, failedKeys>>
      /\ todo'[g] = Tail(todo[g])
  BY <1>0 DEF PutOK, Release, Restrict, serviceVars, historyVars, Shape
<1>2. Range(todo[g]) = {Head(todo[g])} \cup Range(todo'[g])
  BY <1>0, <1>1, TailIsSeq
<1>3. ASSUME Carries(g), Key(g) \in DOMAIN seen' PROVE Carries(g)' /\ Key(g)' = Key(g)
  <2>1. cur[g] # Head(todo[g])
    BY <1>1, <1>3 DEF Key
  <2> QED BY <1>1, <1>2, <1>3, <2>1 DEF Carries, Key
<1> QED BY <1>0, <1>1, <1>3, KeysStay

(* Feed and Drain hand the packet on, and its key with it. *)
LEMMA HandKeys ==
    ASSUME HandlingInv, KeysInv, NEW g \in Sessions, FeedOne(g) \/ DrainAll(g)
    PROVE  KeysInv'
<1>0. Shape
  BY DEF HandlingInv
<1>1. UNCHANGED <<cur, seen, failedKeys>>
  BY DEF FeedOne, DrainAll, serviceVars, historyVars, dedupVars
<1>2. CASE FeedOne(g)
  <2>1. cur[g].isFragment => Key(g) \in FragmentKeys
    BY <1>2 DEF HandlingInv, FeedOne, FragmentKeys, Key
  <2>2. ~ cur[g].isFragment => todo'[g] = << cur[g] >>
    BY <1>0, <1>2 DEF FeedOne, FeedResult, Shape
  <2>3. pc'[g] = "drain"
    BY <1>0, <1>2 DEF FeedOne, Goto, Shape
  <2>4. Carries(g)' \/ Key(g) \in FragmentKeys
    BY <1>1, <2>1, <2>2, <2>3, SingleIsSeq DEF Carries
  <2> QED BY <1>0, <1>1, <1>2, <2>4, KeysStay DEF Key, SessionStep, Step
<1>3. CASE DrainAll(g)
  <2>1. todo'[g] = pending \o todo[g] /\ pc[g] = "drain" /\ pc'[g] = "put"
    BY <1>0, <1>3 DEF DrainAll, Goto, Shape
  <2>2. Range(todo[g]) \subseteq Range(todo'[g])
    BY <2>1, ConcatIsSeq DEF HandlingInv
  <2>3. Carries(g) => Carries(g)'
    BY <1>1, <2>1, <2>2 DEF Carries
  <2> QED BY <1>0, <1>1, <1>3, <2>3, KeysStay DEF Key, SessionStep, Step
<1> QED BY <1>2, <1>3

(* Every step of a session leaves a reason for every key. *)
LEMMA SessionKeys ==
    ASSUME HandlingInv, KeysInv, NEW g \in Sessions, SessionStep(g)
    PROVE  KeysInv'
<1>0. Shape
  BY DEF HandlingInv
<1> USE DEF Shape, Goto, End, serviceVars, historyVars, dedupVars
<1>1. CASE \/ Start(g) \/ Open(g) \/ Close(g) \/ StopRunning(g) \/ Cancelled(g) \/ Fetch(g)
           \/ Check(g) \/ Flush(g) \/ Stopped(g) \/ LiveOpen(g) \/ LiveFetch(g) \/ LiveWait(g)
  <2>1. UNCHANGED <<seen, failedKeys>>
    BY <1>1 DEF Start, Open, Close, StopRunning, Cancelled, Fetch, Check, Flush, Stopped,
                LiveOpen, LiveFetch, LiveWait
  <2>2. ~ Carries(g)
    BY <1>1 DEF Start, Open, Close, StopRunning, Cancelled, Fetch, Check, Flush, Stopped,
                LiveOpen, LiveFetch, LiveWait, Carries
  <2> QED BY <1>0, <2>1, <2>2, KeysStay
<1>2. CASE Mark(g) \/ FeedOne(g) \/ DrainAll(g)
  BY <1>2, MarkKeys, HandKeys
<1>3. CASE Put(g)
  <2>1. CASE PutOK(g) /\ Goto(g, "put")
    BY <1>0, <1>3, <2>1, PutKeys DEF Put
  <2>2. CASE Fail(g) /\ UNCHANGED dedupVars
    <3>1. failedKeys' = failedKeys \cup {Key(g)}
      BY <2>2 DEF Fail
    <3> QED BY <1>0, <2>2, <3>1, KeysStay
  <2>3. CASE Goto(g, "retry") /\ UNCHANGED <<todo, cur, failedKeys, dedupVars>>
    <3>1. Carries(g) => Carries(g)' /\ Key(g)' = Key(g)
      BY <1>0, <1>3, <2>3 DEF Carries, Key, Put
    <3> QED BY <1>0, <2>3, <3>1, KeysStay
  <2> QED BY <1>3, <2>1, <2>2, <2>3 DEF Put
<1>4. CASE Stored(g)
  <2>1. UNCHANGED <<seen, failedKeys>> /\ ~ Carries(g)
    BY <1>4, EmptyIsSeq DEF Stored, Carries
  <2> QED BY <1>0, <2>1, KeysStay
<1>5. CASE FlushPut(g)
  <2>1. CASE todo[g] # << >> /\ PutOK(g)
    BY <1>5, <2>1, PutKeys DEF FlushPut
  <2>2. CASE UNCHANGED <<seen, failedKeys>>
    BY <1>0, <1>5, <2>2, KeysStay DEF FlushPut, Carries
  <2> QED BY <1>5, <2>1, <2>2 DEF FlushPut
<1> QED BY <1>1, <1>2, <1>3, <1>4, <1>5 DEF SessionStep, Step

(* Every step leaves a reason for every key. *)
LEMMA KeysStep ==
    ASSUME HandlingInv, KeysInv, [CaptureNext]_captureVars \/ [ControlNext]_controlVars
    PROVE  KeysInv'
<1>1. CASE PassesBy
  <2>1. \A g \in Sessions : Carries(g) => Carries(g)' /\ Key(g)' = Key(g)
    BY <1>1 DEF PassesBy, Carries, Key, HandlingInv, Shape
  <2>2. DOMAIN seen' \subseteq DOMAIN seen /\ UNCHANGED failedKeys
    BY <1>1 DEF PassesBy, serviceVars, historyVars
  <2> QED BY <2>1, <2>2 DEF KeysInv, FragmentKeys
<1> QED BY <1>1, CaptureSteps, ControlSteps, SessionKeys

(* A reason of the invariant is one of the property. *)
LEMMA KeysImply == KeysInv => KeysHeldForAReason
BY DEF KeysInv, KeysHeldForAReason, Carries, FragmentKeys

(* No key is recorded at the start. *)
LEMMA KeysInit == CaptureInit => KeysInv
BY DEF CaptureInit, DedupInit, KeysInv

(* A key that is recorded belongs to a packet on its way to the store, to  *)
(* one that failed, or to a fragment: a stored datagram never leaves its   *)
(* key behind to swallow later packets, also when the purge, a second      *)
(* Record of the key or the Put of another session come between            *)
(* (service.go, ProcessOne; store.go, Put). *)
THEOREM KeysAreHeldForAReason == CaptureSpec => []KeysHeldForAReason
BY HandlingInit, HandlingStep, KeysInit, KeysStep, KeysImply, PTL DEF CaptureSpec

-----------------------------------------------------------------------------
(* A step keeps what it neither puts nor takes. *)
LEMMA StoredStay ==
    ASSUME Shape, StoredInv, NEW g \in Sessions, SessionStep(g),
           IsSeq(packets'), Range(packets) \subseteq Range(packets'),
           pc'[g] \in {"drain", "put", "retry"} /\ ~ cur'[g].isFragment
             => cur'[g] \in Range(todo'[g]) \cup Range(packets')
    PROVE  StoredInv'
BY SessionFrame DEF StoredInv

(* A packet that leaves the list of a session has entered the store. *)
LEMMA PutStores ==
    ASSUME HandlingInv, StoredInv, NEW g \in Sessions, SessionStep(g),
           todo[g] # << >>, PutOK(g),
           \/ pc[g] \in {"put", "retry"} /\ pc'[g] = "put"
           \/ pc'[g] = "flushput"
    PROVE  StoredInv'
<1>0. Shape /\ IsSeq(todo[g]) /\ IsSeq(packets)
  BY DEF HandlingInv, StoredInv
<1>1. /\ packets' = Append(packets, Head(todo[g]))
      /\ UNCHANGED cur
      /\ todo'[g] = Tail(todo[g])
  BY <1>0 DEF PutOK, Insert, Shape
<1>2. /\ IsSeq(packets')
      /\ Range(packets') = Range(packets) \cup {Head(todo[g])}
      /\ Range(todo[g]) = {Head(todo[g])} \cup Range(todo'[g])
  BY <1>0, <1>1, AppendIsSeq, TailIsSeq
<1> QED BY <1>0, <1>1, <1>2, StoredStay DEF StoredInv

(* Every step of a session keeps its packet on the list or in the store. *)
LEMMA SessionStores ==
    ASSUME HandlingInv, StoredInv, NEW g \in Sessions, SessionStep(g)
    PROVE  StoredInv'
<1>0. Shape /\ IsSeq(packets)
  BY DEF HandlingInv, StoredInv
<1> USE DEF Shape, Goto, End, storeVars
<1>1. CASE \/ Start(g) \/ Open(g) \/ Close(g) \/ StopRunning(g) \/ Cancelled(g) \/ Fetch(g)
           \/ Check(g) \/ Flush(g) \/ Stored(g)
           \/ Stopped(g) \/ LiveOpen(g) \/ LiveFetch(g) \/ LiveWait(g)
  <2>1. UNCHANGED packets
    BY <1>1 DEF Start, Open, Close, StopRunning, Cancelled, Fetch, Check, Flush, Stopped,
                Stored, LiveOpen, LiveFetch, LiveWait
  <2>2. pc'[g] \notin {"drain", "put", "retry"}
    BY <1>0, <1>1 DEF Start, Open, Close, StopRunning, Cancelled, Fetch, Check, Flush, Stopped,
                Stored, LiveOpen, LiveFetch, LiveWait, LiveEmit, Leave, BeginFlush
  <2> QED BY <1>0, <2>1, <2>2, StoredStay
<1>2. CASE Mark(g)
  <2>1. UNCHANGED <<packets, cur>> /\ (pc'[g] = "feed" \/ todo'[g] = << cur[g] >>)
    BY <1>0, <1>2 DEF Mark
  <2> QED BY <1>0, <2>1, SingleIsSeq, StoredStay
<1>3. CASE FeedOne(g)
  <2>1. UNCHANGED <<packets, cur>> /\ (~ cur[g].isFragment => todo'[g] = << cur[g] >>)
    BY <1>0, <1>3 DEF FeedOne, FeedResult
  <2> QED BY <1>0, <2>1, SingleIsSeq, StoredStay
<1>4. CASE DrainAll(g)
  <2>1. UNCHANGED <<packets, cur>> /\ todo'[g] = pending \o todo[g] /\ pc[g] = "drain"
    BY <1>0, <1>4 DEF DrainAll
  <2>2. Range(todo[g]) \subseteq Range(todo'[g])
    BY <2>1, ConcatIsSeq DEF HandlingInv
  <2> QED BY <1>0, <2>1, <2>2, StoredStay DEF StoredInv
<1>5. CASE Put(g)
  <2>1. CASE PutOK(g) /\ Goto(g, "put")
    BY <1>0, <1>5, <2>1, PutStores DEF Put
  <2>2. CASE Fail(g) /\ UNCHANGED storeVars
    BY <1>0, <2>2, StoredStay DEF Fail
  <2>3. CASE Goto(g, "retry") /\ UNCHANGED <<todo, cur, storeVars>>
    BY <1>0, <1>5, <2>3, StoredStay DEF StoredInv, Put
  <2> QED BY <1>5, <2>1, <2>2, <2>3 DEF Put, Refuse
<1>6. CASE FlushPut(g)
  <2>1. CASE todo[g] # << >> /\ PutOK(g) /\ UNCHANGED pc
    BY <1>6, <2>1, PutStores DEF FlushPut
  <2>2. CASE Goto(g, "close") /\ UNCHANGED storeVars
    BY <1>0, <2>2, StoredStay
  <2> QED BY <1>6, <2>1, <2>2 DEF FlushPut, Refuse
<1> QED BY <1>1, <1>2, <1>3, <1>4, <1>5, <1>6 DEF SessionStep, Step

(* Every step keeps it there. *)
LEMMA StoredStep ==
    ASSUME HandlingInv, StoredInv, [CaptureNext]_captureVars \/ [ControlNext]_controlVars
    PROVE  StoredInv'
<1>1. CASE PassesBy
  BY <1>1 DEF PassesBy, StoredInv, HandlingInv, Shape, storeVars
<1> QED BY <1>1, CaptureSteps, ControlSteps, SessionStores

(* Nothing is on its way at the start. *)
LEMMA StoredInit == CaptureInit => StoredInv
BY EmptyIsSeq DEF CaptureInit, StoreInit, StoredInv

(* Only `Stored' takes a session from its puts back to the loop. *)
LEMMA BackToLoop ==
    ASSUME Shape, NEW g \in Sessions, SessionStep(g), pc[g] = "put", pc'[g] = "loop"
    PROVE  todo[g] = << >>
<1> USE DEF Shape, Goto, End
<1>1. CASE Start(g) \/ Open(g) \/ Close(g) \/ StopRunning(g) \/ Cancelled(g) \/ Fetch(g)
  BY <1>1 DEF Start, Open, Close, StopRunning, Cancelled, Fetch
<1>2. CASE Check(g) \/ Mark(g) \/ FeedOne(g) \/ DrainAll(g) \/ Put(g) \/ Stored(g)
  BY <1>2 DEF Check, Mark, FeedOne, DrainAll, Put, Fail, Stored
<1>3. CASE Flush(g) \/ FlushPut(g) \/ Stopped(g) \/ LiveOpen(g) \/ LiveFetch(g) \/ LiveWait(g)
  BY <1>3 DEF Flush, FlushPut, Stopped, LiveOpen, LiveFetch, LiveWait
<1> QED BY <1>1, <1>2, <1>3 DEF SessionStep, Step

(* The step that counts a datagram as stored finds it in the store. *)
LEMMA StoredWhenCounted ==
    ASSUME HandlingInv, StoredInv, [CaptureNext]_captureVars \/ [ControlNext]_controlVars
    PROVE  \A g \in Sessions :
              /\ pc[g] = "put"
              /\ pc'[g] = "loop"
              /\ ~ cur[g].isFragment
              => cur[g] \in Range(packets)
<1> SUFFICES ASSUME NEW g \in Sessions, pc[g] = "put", pc'[g] = "loop", ~ cur[g].isFragment
             PROVE  cur[g] \in Range(packets)
  OBVIOUS
<1>0. Shape
  BY DEF HandlingInv
<1>1. SessionStep(g)
  <2>1. PICK h \in Sessions : SessionStep(h)
    BY CaptureSteps, ControlSteps DEF PassesBy
  <2> QED BY <1>0, <2>1, SessionFrame
<1>2. todo[g] = << >>
  BY <1>0, <1>1, BackToLoop
<1> QED BY <1>2, EmptyIsSeq DEF StoredInv

(* A datagram that ProcessOne counts as stored is in the store with the    *)
(* fields it arrived with, whatever partial results of other sessions      *)
(* were put before it (service.go, Handle and ProcessOne). *)
THEOREM WhatIsCountedIsStored == CaptureSpec => CountedIsStored
<1>1. HandlingInv /\ StoredInv /\ [CaptureNext]_captureVars
        => [\A g \in Sessions :
              /\ pc[g] = "put"
              /\ pc'[g] = "loop"
              /\ ~ cur[g].isFragment
              => cur[g] \in Range(packets)]_captureVars
  BY StoredWhenCounted
<1> QED BY <1>1, HandlingInit, HandlingStep, StoredInit, StoredStep, PTL
        DEF CaptureSpec, CountedIsStored

-----------------------------------------------------------------------------
(* Types *)

Places == {"idle", "open", "loop", "check", "record", "feed", "drain",
           "put", "retry", "flush", "flushput", "close", "leave", "done"}

Results == {"none", "ok", "error", "cancelled", "busy"}

PlacesInv ==
    /\ pc \in [Sessions -> Places]
    /\ cancelled \in [Sessions -> BOOLEAN]
    /\ result \in [Sessions -> Results]
    /\ running \in BOOLEAN

CurInv ==
    /\ \A g \in Sessions : cur[g] \in Arrivals \cup {<< >>}
    /\ \A g \in Sessions : InFlight(g) => cur[g] \in Arrivals
    /\ stats.received <= MaxFed

ListsInv ==
    /\ \A pkt \in Range(pending) : IsPacket(pkt)
    /\ \A g \in Sessions : \A pkt \in Range(todo[g]) : IsPacket(pkt)

SeenInv == now \in Nat /\ \A k \in DOMAIN seen : seen[k] \in 0 .. now

(* Every step leads a session to a place of its own. *)
LEMMA PlacesStep ==
    ASSUME PlacesInv, [CaptureNext]_captureVars
    PROVE  PlacesInv'
<1> USE DEF PlacesInv, Goto, End
<1>1. ASSUME NEW g \in Sessions, NEW label \in Places, Goto(g, label),
             UNCHANGED <<cancelled, running>>,
             result' = result \/ \E how \in Results : result' = [result EXCEPT ![g] = how]
      PROVE  PlacesInv'
  BY <1>1
<1>2. ASSUME NEW g \in Sessions, Start(g) \/ Open(g) \/ Close(g) \/ StopRunning(g)
      PROVE  PlacesInv'
  BY <1>2 DEF Start, Open, Close, StopRunning, Leave, serviceVars, Places, Results
<1>3. ASSUME NEW g \in Sessions,
             \/ Cancelled(g) \/ Fetch(g) \/ Check(g) \/ Mark(g) \/ FeedOne(g) \/ DrainAll(g)
             \/ Stored(g) \/ Flush(g) \/ Stopped(g)
      PROVE  PlacesInv'
  <2>1. UNCHANGED <<cancelled, running>>
    BY <1>3 DEF Cancelled, Fetch, Check, Mark, FeedOne, DrainAll, Stored, Flush, Stopped,
                serviceVars
  <2>2. \E label \in Places : Goto(g, label)
    BY <1>3 DEF Cancelled, Fetch, Check, Mark, FeedOne, DrainAll, Stored, Flush, Stopped,
                BeginFlush, Places
  <2>3. result' = result \/ \E how \in Results : result' = [result EXCEPT ![g] = how]
    BY <1>3 DEF Cancelled, Fetch, Check, Mark, FeedOne, DrainAll, Stored, Flush, Stopped,
                BeginFlush, Results
  <2> QED BY <1>1, <2>1, <2>2, <2>3
<1>4. ASSUME NEW g \in Sessions, Put(g) \/ FlushPut(g)
      PROVE  PlacesInv'
  <2>1. UNCHANGED <<cancelled, running>>
    BY <1>4 DEF Put, PutOK, FlushPut, serviceVars
  <2>2. UNCHANGED pc \/ \E label \in Places : Goto(g, label)
    BY <1>4 DEF Put, Fail, FlushPut, Places
  <2>3. result' = result \/ \E how \in Results : result' = [result EXCEPT ![g] = how]
    BY <1>4 DEF Put, PutOK, Fail, FlushPut, Results
  <2> QED BY <1>1, <2>1, <2>2, <2>3
<1>5. ASSUME NEW g \in Sessions, Cancel(g) PROVE PlacesInv'
  BY <1>5 DEF Cancel, serviceVars
<1>6. CASE Stop
  <2>1. CASE UNCHANGED <<pc, result>>
    BY <1>6, <2>1 DEF Stop, serviceVars
  <2>2. ASSUME NEW g \in Runners, pc[g] = "loop", BeginFlush(g) PROVE PlacesInv'
    BY <1>3, <1>6, <2>2 DEF Stop, Stopped, Sessions
  <2> QED BY <1>6, <2>1, <2>2 DEF Stop
<1>7. CASE Environment \/ UNCHANGED captureVars
  BY <1>7 DEF Environment, captureVars, sessionVars, serviceVars
<1> QED BY <1>2, <1>3, <1>4, <1>5, <1>6, <1>7 DEF CaptureNext, Step

(* The times of the deduplicator never lie ahead of its clock. *)
LEMMA SeenStep ==
    ASSUME SeenInv, [CaptureNext]_captureVars
    PROVE  SeenInv'
<1>1. CASE UNCHANGED dedupVars
  BY <1>1 DEF SeenInv, dedupVars
<1>2. ASSUME NEW key, Record(key) \/ Release(key), UNCHANGED now PROVE SeenInv'
  BY <1>2 DEF SeenInv, Record, Release, Restrict
<1>3. CASE PurgeExpired \/ Tick
  BY <1>3 DEF SeenInv, PurgeExpired, Tick, Restrict
<1>4. ASSUME NEW g \in Sessions, Step(g) PROVE SeenInv'
  <2>1. \/ UNCHANGED dedupVars
        \/ \E key : (Record(key) \/ Release(key)) /\ UNCHANGED now
    <3>1. CASE Mark(g) \/ Put(g) \/ FlushPut(g)
      BY <3>1 DEF Mark, Put, PutOK, FlushPut
    <3>2. CASE ~ (Mark(g) \/ Put(g) \/ FlushPut(g))
      BY <1>4, <3>2 DEF Step, Start, Open, Close, StopRunning, Cancelled, Fetch, Check, FeedOne,
                        DrainAll, Stored, Flush
    <3> QED BY <3>1, <3>2
  <2> QED BY <1>1, <1>2, <2>1
<1> QED BY <1>1, <1>3, <1>4 DEF CaptureNext, Cancel, Stop, Environment, captureVars

(* A session in flight works on a packet that arrived. *)
LEMMA CurStep ==
    ASSUME Shape, CountingInv, CurInv, [CaptureNext]_captureVars
    PROVE  CurInv'
<1>1. CASE UNCHANGED <<pc, cur, stats>>
  BY <1>1 DEF CurInv, InFlight
<1>2. ASSUME NEW g \in Sessions, Step(g) \/ Stopped(g) PROVE CurInv'
  <2>0. \A h \in Sessions \ {g} : pc'[h] = pc[h] /\ cur'[h] = cur[h]
    BY <1>2, SessionFrame DEF SessionStep
  <2>1. ASSUME UNCHANGED cur, InFlight(g)' => InFlight(g), stats'.received = stats.received
        PROVE  CurInv'
    BY <2>0, <2>1 DEF CurInv, InFlight
  <2> USE DEF Shape, Goto, End, Count, CountingInv, InFlight
  <2>2. CASE \/ Start(g) \/ Open(g) \/ Close(g) \/ StopRunning(g) \/ Cancelled(g) \/ Stopped(g)
             \/ Check(g) \/ Mark(g) \/ FeedOne(g) \/ DrainAll(g) \/ Put(g) \/ Stored(g)
             \/ Flush(g) \/ FlushPut(g)
    <3>1. UNCHANGED cur
      BY <2>2 DEF Start, Open, Close, StopRunning, Cancelled, Stopped, Check, Mark, FeedOne,
                  DrainAll, Put, PutOK, Stored, Flush, FlushPut
    <3>2. InFlight(g)' => InFlight(g)
      BY <2>2 DEF Start, Open, Close, Leave, StopRunning, Cancelled, Stopped, BeginFlush, Check,
                  Mark, FeedOne, DrainAll, Put, PutOK, Stored, Flush, FlushPut
    <3>3. \/ UNCHANGED stats
          \/ \E field \in {"stored", "deduped", "failed"} : Count(field)
      BY <2>2 DEF Start, Open, Close, StopRunning, Cancelled, Stopped, Check, Mark, FeedOne,
                  DrainAll, Put, PutOK, Fail, Stored, Flush, FlushPut, serviceVars
    <3>4. stats'.received = stats.received
      BY <3>3
    <3> QED BY <2>1, <3>1, <3>2, <3>4
  <2>3. CASE Fetch(g)
    <3>1. CASE UNCHANGED <<cur, stats>> /\ ~ InFlight(g)'
      BY <2>1, <3>1
    <3>2. CASE /\ stats.received < MaxFed /\ Count("received")
               /\ \E pkt \in Arrivals : cur' = [cur EXCEPT ![g] = pkt]
      <4>1. cur'[g] \in Arrivals
        BY <3>2
      <4>2. stats'.received <= MaxFed
        BY <3>2, MaxFedAssumption
      <4> QED BY <2>0, <4>1, <4>2 DEF CurInv
    <3> QED BY <2>3, <3>1, <3>2 DEF Fetch, BeginFlush
  <2> QED BY <1>2, <2>2, <2>3 DEF Step
<1>3. CASE Stop
  <2>1. CASE UNCHANGED <<pc, result>>
    BY <1>1, <1>3, <2>1 DEF Stop, serviceVars
  <2>2. ASSUME NEW g \in Runners, pc[g] = "loop", BeginFlush(g) PROVE CurInv'
    BY <1>2, <1>3, <2>2 DEF Stop, Stopped, Sessions
  <2> QED BY <1>3, <2>1, <2>2 DEF Stop
<1> QED BY <1>1, <1>2, <1>3
        DEF CaptureNext, Cancel, Environment, captureVars, sessionVars, serviceVars

(* What the reassembler makes of a window is a packet. *)
LEMMA WholeIsPacket ==
    ASSUME NEW kind \in {"datagram", "reassembled", "partial"},
           NEW stream \in Streams, NEW seq \in Nat, NEW payload
    PROVE  IsPacket(Whole(kind, stream, seq, payload))
<1>1. 0 \in UInt32
  BY PacketsAssumption DEF UInt32
<1> QED BY <1>1 DEF IsPacket, Whole, Packet, PacketID

(* Feed returns packets and leaves packets pending. *)
LEMMA FeedLists ==
    ASSUME HandlingInv, CurInv, ListsInv, NEW g \in Sessions, FeedOne(g)
    PROVE  /\ \A pkt \in Range(pending') : IsPacket(pkt)
           /\ \A pkt \in Range(todo'[g]) : IsPacket(pkt)
<1>1. /\ cur[g] \in Arrivals /\ IsArrival(cur[g])
      /\ WindowsTypeOK /\ IsSeq(pending) /\ Shape
  BY ArrivalsArrive DEF CurInv, InFlight, FeedOne, HandlingInv, AsmInv
<1>2. \A pkt \in Range(pending') : IsPacket(pkt)
  BY <1>1, FeedKeepsPending DEF FeedOne, Feed, PassThrough, ListsInv
<1>3. IsPacket(cur[g])
  BY <1>1, ArrivalsAssumption DEF IsPacket
<1>4. FeedResult(cur[g]) = << >> \/ \E e : IsPacket(e) /\ FeedResult(cur[g]) = << e >>
  BY <1>1, <1>3, ArrivalTypes, WholeIsPacket DEF FeedResult
<1>5. \A pkt \in Range(todo'[g]) : IsPacket(pkt)
  BY <1>1, <1>4, EmptyIsSeq, SingleIsSeq DEF FeedOne, Shape
<1> QED BY <1>2, <1>5

(* Every step of a session keeps packets in the lists. *)
LEMMA SessionLists ==
    ASSUME HandlingInv, CurInv, ListsInv, NEW g \in Sessions, Step(g) \/ Stopped(g)
    PROVE  ListsInv'
<1>0. Shape /\ AsmInv /\ IsSeq(todo[g]) /\ IsSeq(pending)
  BY DEF HandlingInv
<1>1. \A h \in Sessions \ {g} : todo'[h] = todo[h]
  BY <1>0, SessionFrame DEF SessionStep
<1>2. SUFFICES /\ \A pkt \in Range(pending') : IsPacket(pkt)
               /\ \A pkt \in Range(todo'[g]) : IsPacket(pkt)
  BY <1>1 DEF ListsInv
<1> USE DEF Shape, ListsInv, asmVars
<1>3. CASE FeedOne(g)
  BY <1>3, FeedLists
<1>4. CASE DrainAll(g)
  BY <1>0, <1>4, ConcatIsSeq, EmptyIsSeq DEF DrainAll, Drain
<1>5. CASE Flush(g)
  <2>1. WindowsTypeOK /\ Len(order) \in Nat
    BY <1>0 DEF AsmInv, WindowsTypeOK
  <2>2. \A pkt \in Range(FlushResult) : IsPacket(pkt)
    BY <1>0, <2>1, RestOfTypes, ConcatIsSeq, EmptyIsSeq DEF FlushResult
  <2>3. todo'[g] = FlushResult /\ (pending' = pending \/ pending' = << >>)
    BY <1>0, <1>5 DEF Flush, FlushExpired
  <2> QED BY <2>2, <2>3, EmptyIsSeq
<1>6. CASE Mark(g)
  <2>1. cur[g] \in Arrivals
    BY <1>6 DEF CurInv, InFlight, Mark
  <2>2. IsPacket(cur[g])
    BY <2>1, ArrivalsAssumption DEF IsPacket
  <2> QED BY <1>0, <1>6, <2>2, SingleIsSeq DEF Mark
<1>7. CASE Put(g) \/ FlushPut(g)
  <2>1. /\ UNCHANGED pending
        /\ \/ todo'[g] = todo[g]
           \/ todo[g] # << >> /\ todo'[g] = Tail(todo[g])
           \/ todo'[g] = << >>
    BY <1>0, <1>7 DEF Put, PutOK, Fail, FlushPut
  <2> QED BY <1>0, <2>1, TailIsSeq, EmptyIsSeq
<1>8. CASE UNCHANGED <<todo, pending>>
  BY <1>8
<1> QED BY <1>3, <1>4, <1>5, <1>6, <1>7, <1>8
        DEF Step, Start, Open, Close, StopRunning, Cancelled, Fetch, Check, Stored, Stopped

(* Every step keeps packets in the lists. *)
LEMMA ListsStep ==
    ASSUME HandlingInv, CurInv, ListsInv, [CaptureNext]_captureVars
    PROVE  ListsInv'
<1>1. CASE UNCHANGED <<todo, pending>>
  BY <1>1 DEF ListsInv
<1>2. CASE Stop
  BY <1>1, <1>2 DEF Stop, asmVars
<1> QED BY <1>1, <1>2, SessionLists
        DEF CaptureNext, Cancel, Environment, captureVars, sessionVars, asmVars

CaptureTypeInv == PlacesInv /\ CurInv /\ ListsInv /\ SeenInv

(* The types hold at the start. *)
LEMMA CaptureTypeInit == CaptureInit => CaptureTypeInv
<1> SUFFICES ASSUME CaptureInit PROVE CaptureTypeInv
  OBVIOUS
<1> USE DEF CaptureInit, AsmInit, DedupInit
<1>1. PlacesInv
  BY DEF PlacesInv, Places, Results
<1>2. CurInv
  BY MaxFedAssumption DEF CurInv, InFlight
<1>3. ListsInv
  BY EmptyIsSeq DEF ListsInv
<1>4. SeenInv
  BY DEF SeenInv
<1> QED BY <1>1, <1>2, <1>3, <1>4 DEF CaptureTypeInv

(* Every step keeps the types. *)
LEMMA CaptureTypeStep ==
    ASSUME HandlingInv, CountingInv, CaptureTypeInv, [CaptureNext]_captureVars
    PROVE  CaptureTypeInv'
BY PlacesStep, CurStep, ListsStep, SeenStep DEF CaptureTypeInv, HandlingInv

(* The balance bounds the counters: those that the sessions count are at   *)
(* most what was received, and each session adds one failed close at       *)
(* most. *)
LEMMA CaptureTypesImply ==
    ASSUME HandlingInv, CountingInv, CaptureTypeInv, IsFiniteSet(Sessions)
    PROVE  CaptureTypeOK
<1>1. /\ \A g \in Sessions : cur[g] \in Arrivals \cup {<< >>}
      /\ cancelled \in [Sessions -> BOOLEAN]
      /\ running \in BOOLEAN
      /\ \A k \in DOMAIN seen : seen[k] \in 0 .. now
  BY DEF CaptureTypeInv, CurInv, PlacesInv, SeenInv
<1>2. /\ pc \in [Sessions -> {"idle", "open", "loop", "check", "record", "feed", "drain",
                            "put", "retry", "flush", "flushput", "close", "leave", "done"}]
      /\ result \in [Sessions -> {"none", "ok", "error", "cancelled", "busy"}]
  BY DEF CaptureTypeInv, PlacesInv, Places, Results
<1>3. \A g \in Sessions : \A i \in DOMAIN todo[g] : todo[g][i] \in Packet({todo[g][i].payload})
  BY DEF CaptureTypeInv, ListsInv, IsPacket, Range
<1>4. closeErrors \subseteq Sessions
  BY DEF CountingInv
<1>5. \A c \in DOMAIN stats : stats[c] \in 0 .. MaxFed + Cardinality(Sessions)
  <2>1. /\ Cardinality(closeErrors) \in Nat
        /\ Cardinality(closeErrors) <= Cardinality(Sessions)
        /\ Cardinality(Sessions) \in Nat
        /\ Cardinality(Flying) \in Nat
    BY <1>4, FS_Subset, FS_CardinalityType DEF CountingInv
  <2>2. /\ stats.received = stats.stored + stats.deduped
                            + (stats.failed - Cardinality(closeErrors)) + Cardinality(Flying)
        /\ stats.received <= MaxFed
        /\ stats.failed >= Cardinality(closeErrors)
    BY <2>1 DEF CountingInv, Balanced, EveryPacketCounted, Flying, CaptureTypeInv, CurInv
  <2> QED BY <2>1, <2>2, MaxFedAssumption DEF CountingInv
<1> QED BY <1>1, <1>2, <1>3, <1>4, <1>5 DEF CaptureTypeOK

(* The capture service keeps its types, the bound on every counter         *)
(* included, which follows from the balance of the counters (service.go,   *)
(* Stats). *)
THEOREM CaptureTypeCorrect ==
    ASSUME IsFiniteSet(Sessions)
    PROVE  CaptureSpec => []CaptureTypeOK
<1>1. HandlingInv /\ CountingInv /\ CaptureTypeInv => CaptureTypeOK
  BY CaptureTypesImply
<1> QED BY <1>1, HandlingInit, HandlingStep, CountingInit, CountingStep, CaptureTypeInit,
           CaptureTypeStep, PTL DEF CaptureSpec

-----------------------------------------------------------------------------
(* The web server and the live source *)

(* The same holds when the web server and the demo start the sessions, over*)
(* a file source or a live one. *)
THEOREM ControlledCaptureIsSound ==
    ControlSpec => [](RunIsExclusive /\ EveryPacketCounted /\ CleanEndHoldsNothing
                      /\ KeysHeldForAReason)
<1>1. HandlingInv => Shape
  BY DEF HandlingInv
<1> QED BY <1>1, StartsAlike, ExclusionInit, ExclusionStep, ExclusionInvImplies,
           CountingInit, CountingStep, CountingInvImplies, HandlingInit, HandlingStep,
           HeldInit, HeldStep, HeldImplies, KeysInit, KeysStep, KeysImply, PTL
        DEF ControlSpec

TrackedInv == WebRunIsTracked /\ finished \subseteq spawned

(* A start, the end of a run and a stop keep track of the run. *)
LEMMA TrackedStep == TrackedInv /\ [ControlNext]_controlVars => TrackedInv'
<1> SUFFICES ASSUME TrackedInv, [ControlNext]_controlVars PROVE TrackedInv'
  OBVIOUS
<1> USE DEF TrackedInv, WebRunIsTracked
<1>1. CASE UNCHANGED <<spawned, finished, captureRun, captureCancel>>
  BY <1>1
<1>2. ASSUME NEW w \in Webs, HandleCaptureStart(w) PROVE TrackedInv'
  BY <1>2 DEF HandleCaptureStart, MayStart
<1>3. ASSUME NEW w \in Webs, Finish(w) PROVE TrackedInv'
  BY <1>3 DEF Finish, RunAfter
<1> QED BY <1>1, <1>2, <1>3 DEF ControlNext, RunStep, HandleCaptureStop, CallCancel, PassTime,
                                controlVars, webVars

(* captureRun is set exactly while a goroutine of the web server lives,    *)
(* there is one at most, and captureCancel is its cancel function, for     *)
(* every number of starts and however they interleave with the demo        *)
(* (handlers.go, handleCaptureStart and handleCaptureStop). *)
THEOREM WebRunStaysTracked == ControlSpec => []WebRunIsTracked
<1>1. ControlInit => TrackedInv
  BY ControlAssumption DEF ControlInit, TrackedInv, WebRunIsTracked
<1>2. TrackedInv => WebRunIsTracked
  BY DEF TrackedInv
<1> QED BY <1>1, <1>2, TrackedStep, PTL DEF ControlSpec

(* A session that has received its late packet meets the cancelled context *)
(* at the next look, or has ended. *)
Warned(g) == pc[g] = "done" \/ (cancelled[g] /\ pc[g] # "wait")

LateInv ==
    /\ DOMAIN late = Runners
    /\ DOMAIN cancelled = Sessions
    /\ \A w \in finished : w \in Sessions /\ pc[w] = "done"
    /\ live => \A g \in Runners : late[g] = 0 \/ (late[g] = 1 /\ Warned(g))

(* A session over the live source receives a packet after its cancel only  *)
(* in the select it already waited in. *)
LEMMA LiveMoves ==
    ASSUME Shape, LateInv, live, NEW g \in Runners, SourceStep(g) \/ ServiceStep(g)
    PROVE  /\ UNCHANGED cancelled
           /\ pc[g] # "done"
           /\ DOMAIN late' = Runners
           /\ \A h \in Runners \ {g} : late'[h] = late[h]
           /\ \/ late'[g] = late[g] /\ (pc'[g] = "wait" => ~ cancelled[g])
              \/ late'[g] = late[g] + 1 /\ cancelled[g] /\ pc[g] = "wait" /\ pc'[g] = "check"
<1>0. g \in Sessions /\ g \in DOMAIN pc /\ g \in DOMAIN late
  BY DEF Sessions, Shape, LateInv
<1> USE DEF Goto, End
<1>1. CASE ServiceStep(g)
  <2>1. UNCHANGED <<cancelled, late>>
    BY <1>1 DEF ServiceStep, Start, StopRunning, Cancelled, Check, Mark, FeedOne, DrainAll, Put,
                PutOK, Stored, Flush, FlushPut
  <2>2. pc[g] # "done" /\ (pc'[g] = "wait" => pc[g] = "wait")
    BY <1>0, <1>1 DEF ServiceStep, Start, StopRunning, Cancelled, Check, Mark, FeedOne, DrainAll,
                Put, Fail, Stored, Flush, FlushPut
  <2>3. pc[g] = "wait" => pc'[g] # "wait"
    BY <1>0, <1>1 DEF ServiceStep, Start, StopRunning, Cancelled, Check, Mark, FeedOne, DrainAll,
                Put, Fail, Stored, Flush, FlushPut
  <2> QED BY <2>1, <2>2, <2>3 DEF LateInv
<1>2. CASE LiveOpen(g) \/ (LiveClose(g) /\ UNCHANGED late)
  BY <1>0, <1>2 DEF LiveOpen, LiveClose, Close, Leave, LateInv
<1>3. CASE LiveFetch(g)
  <2>1. UNCHANGED cancelled /\ pc[g] = "loop"
    BY <1>3 DEF LiveFetch
  <2>2. CASE UNCHANGED late
    BY <1>0, <1>3, <2>1, <2>2 DEF LiveFetch, LiveRefuses, LiveEmit, BeginFlush, LateInv
  <2>3. CASE LiveEmit(g) /\ ~ cancelled[g]
    <3>1. late' = [late EXCEPT ![g] = @ + 0] /\ pc'[g] = "check"
      BY <1>0, <2>3 DEF LiveEmit
    <3>2. late[g] = 0
      BY <2>1, <2>3 DEF LateInv, Warned
    <3> QED BY <1>0, <2>1, <3>1, <3>2 DEF LateInv
  <2> QED BY <1>3, <2>2, <2>3 DEF LiveFetch, LiveRefuses
<1>4. CASE LiveWait(g)
  <2>1. UNCHANGED cancelled /\ pc[g] = "wait"
    BY <1>4 DEF LiveWait
  <2>2. CASE UNCHANGED late /\ pc'[g] = "close"
    BY <2>1, <2>2 DEF LateInv
  <2>3. CASE LiveEmit(g)
    <3>1. late' = [late EXCEPT ![g] = @ + IF cancelled[g] THEN 1 ELSE 0] /\ pc'[g] = "check"
      BY <1>0, <2>3 DEF LiveEmit
    <3>2. late[g] = 0
      BY <2>1 DEF LateInv, Warned
    <3> QED BY <1>0, <2>1, <3>1, <3>2 DEF LateInv
  <2> QED BY <1>0, <1>4, <2>2, <2>3 DEF LiveWait
<1> QED BY <1>1, <1>2, <1>3, <1>4 DEF SourceStep

(* Every step keeps it at one late packet. *)
LEMMA LateStep == Shape /\ LateInv /\ [ControlNext]_controlVars => LateInv'
<1> SUFFICES ASSUME Shape, LateInv, [ControlNext]_controlVars PROVE LateInv'
  OBVIOUS
<1>1. ASSUME NEW g \in Runners, RunStep(g) PROVE LateInv'
  <2>1. UNCHANGED <<live, finished>>
    BY <1>1 DEF RunStep, webVars
  <2>2. \A h \in Sessions \ {g} : pc'[h] = pc[h]
    BY <1>1, SessionFrame
       DEF RunStep, SourceStep, ServiceStep, SessionStep, Step, LiveClose, Sessions
  <2>3. CASE ~ live
    <3>1. UNCHANGED late
      BY <1>1, <2>3 DEF RunStep, SourceStep, ServiceStep
    <3>2. pc[g] # "done" /\ DOMAIN cancelled' = Sessions
      BY <1>1, <2>3 DEF RunStep, SourceStep, ServiceStep, LateInv,
            Open, Fetch, Close, Start, StopRunning, Cancelled, Check, Mark, FeedOne, DrainAll, Put,
            PutOK, Stored, Flush, FlushPut
    <3>3. \A w \in finished : w # g
      BY <3>2 DEF LateInv
    <3> QED BY <2>1, <2>2, <2>3, <3>1, <3>2, <3>3 DEF LateInv
  <2>4. CASE live
    <3>1. SourceStep(g) \/ ServiceStep(g)
      BY <1>1 DEF RunStep
    <3>2. \A w \in finished' : w \in Sessions /\ pc'[w] = "done"
      BY <2>1, <2>2, <2>4, <3>1, LiveMoves DEF LateInv
    <3>3. \A h \in Runners \ {g} : late'[h] = late[h] /\ (Warned(h) => Warned(h)')
      BY <2>2, <2>4, <3>1, LiveMoves DEF Warned, Sessions
    <3>4. late'[g] = 0 \/ (late'[g] = 1 /\ Warned(g)')
      BY <2>4, <3>1, LiveMoves DEF Warned, LateInv
    <3>5. DOMAIN late' = Runners /\ DOMAIN cancelled' = Sessions
      BY <2>4, <3>1, LiveMoves DEF LateInv
    <3>6. ASSUME NEW h \in Runners PROVE late'[h] = 0 \/ (late'[h] = 1 /\ Warned(h)')
      BY <2>4, <3>3, <3>4 DEF LateInv
    <3> QED BY <3>2, <3>5, <3>6 DEF LateInv
  <2> QED BY <2>3, <2>4
<1>2. ASSUME NEW w \in Webs, Finish(w) PROVE LateInv'
  <2>1. \A g \in Runners : Warned(g) => Warned(g)'
    BY <1>2 DEF Finish, Warned
  <2>2. w \in Sessions
    BY <1>2, ControlAssumption DEF Sessions
  <2>3. UNCHANGED <<pc, live, late>> /\ finished' = finished \cup {w} /\ pc[w] = "done"
    BY <1>2 DEF Finish
  <2>4. DOMAIN cancelled' = Sessions
    BY <1>2 DEF Finish, LateInv
  <2> QED BY <2>1, <2>2, <2>3, <2>4 DEF LateInv
<1>3. ASSUME NEW w \in Webs, HandleCaptureStart(w) PROVE LateInv'
  BY <1>3 DEF HandleCaptureStart, captureVars, sessionVars, LateInv, Warned
<1>4. CASE CallCancel
  <2>1. ASSUME NEW g \in Runners, Warned(g) PROVE Warned(g)'
    <3>1. CASE pc[g] = "done"
      BY <1>4, <3>1 DEF CallCancel, Warned
    <3>2. CASE pc[g] # "done"
      <4>1. g \notin finished /\ g \in DOMAIN cancelled
        BY <3>2 DEF LateInv, Sessions
      <4>2. cancelled'[g]
        BY <1>4, <2>1, <3>2, <4>1 DEF CallCancel, Warned
      <4> QED BY <1>4, <2>1, <3>2, <4>2 DEF CallCancel, Warned
    <3> QED BY <3>1, <3>2
  <2>2. UNCHANGED <<pc, live, late, finished>>
    BY <1>4 DEF CallCancel
  <2>3. DOMAIN cancelled' = Sessions
    BY <1>4 DEF CallCancel, LateInv
  <2> QED BY <2>1, <2>2, <2>3 DEF LateInv
<1>5. CASE HandleCaptureStop \/ PassTime \/ UNCHANGED controlVars
  BY <1>5 DEF HandleCaptureStop, PassTime, Environment, controlVars, captureVars, sessionVars,
              webVars, LateInv, Warned
<1> QED BY <1>1, <1>2, <1>3, <1>4, <1>5 DEF ControlNext

(* A session over the live source receives at most one packet after its    *)
(* context is cancelled, for every number of sessions and requests         *)
(* (live_source.go, Next). *)
THEOREM StopStaysPrompt == ControlSpec => []StopIsPrompt
<1>1. ControlInit => LateInv
  BY DEF ControlInit, CaptureInit, LateInv
<1>2. LateInv => StopIsPrompt
  BY DEF LateInv, StopIsPrompt
<1>3. HandlingInv => Shape
  BY DEF HandlingInv
<1> QED BY <1>1, <1>2, <1>3, LateStep, StartsAlike, HandlingInit, HandlingStep, PTL
        DEF ControlSpec

-----------------------------------------------------------------------------
(* The first session over the live source                                  *)

Sole == live /\ \A g, h \in spawned : g = h

LivePlaces == {"idle", "open", "loop", "wait", "check", "record", "feed", "drain", "put",
               "flush", "flushput", "close", "leave", "done"}

(* The store holds the packets made so far, in their order, and knows no   *)
(* other ID. *)
LiveStored ==
    /\ IsSeq(packets)
    /\ \A i \in DOMAIN packets : packets[i] = LivePacket(i - 1)
    /\ \A id \in DOMAIN byID : \E i \in DOMAIN packets : id = packets[i].id

(* Between two packets no key is recorded and all are counted as stored;   *)
(* with one in its hands the session may have recorded the key of that one.*)
Even(g) ==
    /\ todo[g] = << >> /\ DOMAIN seen = {}
    /\ stats.stored = emitted /\ Len(packets) = emitted

Taken(g) ==
    /\ cur[g] = LivePacket(emitted - 1) /\ DOMAIN seen \subseteq {Key(g)}
    /\ stats.stored + 1 = emitted /\ Len(packets) + 1 = emitted

PutDone(g) ==
    /\ todo[g] = << >> /\ DOMAIN seen = {}
    /\ stats.stored + 1 = emitted /\ Len(packets) = emitted

OnCourse(g) ==
    /\ pc[g] \in LivePlaces
    /\ pc[g] \in {"idle", "open"} => emitted = 0
    /\ pc[g] \in LivePlaces \ {"check", "record", "feed", "drain", "put"} => Even(g)
    /\ pc[g] \in {"check", "record", "feed"} => Taken(g)
    /\ pc[g] \in {"check", "record"} => DOMAIN seen = {}
    /\ pc[g] = "drain" => Taken(g) /\ todo[g] = << cur[g] >>
    /\ pc[g] = "put" => (Taken(g) /\ todo[g] = << cur[g] >>) \/ PutDone(g)

(* What holds of the shared components as long as there is one session. *)
LiveQuiet ==
    /\ emitted \in Nat
    /\ stats.deduped = 0
    /\ DOMAIN entries = {} /\ pending = << >>
    /\ LiveStored

LiveInv ==
    /\ emitted \in Nat
    /\ IsFiniteSet(spawned) /\ spawned \subseteq Runners
    /\ \A g \in Runners \ spawned : pc[g] = "idle" /\ todo[g] = << >>
    /\ Sole => /\ LiveQuiet
               /\ \A g \in spawned : OnCourse(g)
               /\ spawned = {} => /\ emitted = 0 /\ stats.stored = 0
                                  /\ packets = << >> /\ DOMAIN seen = {}

(* The first session, at its call, its wait and its end. *)
LEMMA LiveTurns ==
    ASSUME Shape, CountingInv, live, LiveQuiet, NEW g \in Sessions, OnCourse(g),
           \/ LiveOpen(g) \/ LiveFetch(g) \/ LiveWait(g)
           \/ /\ Start(g) \/ LiveClose(g) \/ StopRunning(g) \/ Cancelled(g)
              /\ UNCHANGED emitted
    PROVE  LiveQuiet' /\ OnCourse(g)'
<1>0. /\ g \in DOMAIN pc /\ g \in DOMAIN cur /\ emitted \in Nat
      /\ stats \in [received : Nat, stored : Nat, failed : Nat, deduped : Nat]
      /\ IsSeq(packets)
  BY DEF Shape, CountingInv, LiveQuiet, LiveStored
<1>1. /\ UNCHANGED <<todo, seen, packets, byID, entries, pending>>
  BY DEF Start, LiveOpen, LiveFetch, LiveWait, LiveClose, Close, StopRunning, Cancelled,
         storeVars, dedupVars, asmVars
<1>2. CASE /\ UNCHANGED emitted /\ stats'.stored = stats.stored /\ stats'.deduped = stats.deduped
           /\ pc[g] \in LivePlaces \ {"check", "record", "feed", "drain", "put"}
           /\ pc'[g] \in LivePlaces \ {"check", "record", "feed", "drain", "put"}
           /\ pc'[g] \in {"idle", "open"} => emitted = 0
  <2>1. Even(g)'
    BY <1>1, <1>2 DEF OnCourse, Even
  <2>2. OnCourse(g)'
    BY <1>2, <2>1 DEF OnCourse, LivePlaces
  <2> QED BY <1>1, <1>2, <2>2 DEF LiveQuiet, LiveStored
<1>3. CASE LiveEmit(g) /\ pc[g] \in {"loop", "wait"}
  <2>1. /\ emitted' = emitted + 1 /\ cur'[g] = LivePacket(emitted) /\ pc'[g] = "check"
        /\ stats'.stored = stats.stored /\ stats'.deduped = stats.deduped
    BY <1>0, <1>3 DEF LiveEmit, Count, Goto
  <2>2. Even(g)
    BY <1>3 DEF OnCourse, LivePlaces
  <2>3. Taken(g)' /\ DOMAIN seen' = {}
    BY <1>0, <1>1, <2>1, <2>2 DEF Even, Taken
  <2>4. OnCourse(g)'
    BY <2>1, <2>3 DEF OnCourse, LivePlaces
  <2> QED BY <1>1, <2>1, <2>4 DEF LiveQuiet, LiveStored
<1>4. CASE Start(g) /\ UNCHANGED emitted
  <2>1. pc[g] = "idle" /\ pc'[g] \in {"open", "done"} /\ UNCHANGED stats
    BY <1>0, <1>4 DEF Start, Goto
  <2> QED BY <1>2, <1>4, <2>1 DEF LivePlaces, OnCourse
<1>5. CASE LiveOpen(g)
  <2>1. pc[g] = "open" /\ pc'[g] = "loop" /\ UNCHANGED stats /\ emitted' = 0
    BY <1>0, <1>5 DEF LiveOpen, Goto, serviceVars
  <2> QED BY <1>2, <2>1 DEF LivePlaces, OnCourse
<1>6. CASE LiveFetch(g)
  <2>1. pc[g] = "loop"
    BY <1>6 DEF LiveFetch
  <2>2. LiveEmit(g) \/ (pc'[g] \in {"close", "flush", "wait"} /\ UNCHANGED <<stats, emitted>>)
    BY <1>0, <1>6 DEF LiveFetch, BeginFlush, End, Goto
  <2> QED BY <1>2, <1>3, <2>1, <2>2 DEF LivePlaces
<1>7. CASE LiveWait(g)
  <2>1. pc[g] = "wait"
    BY <1>7 DEF LiveWait
  <2>2. LiveEmit(g) \/ (pc'[g] = "close" /\ UNCHANGED <<stats, emitted>>)
    BY <1>0, <1>7 DEF LiveWait, End, Goto
  <2> QED BY <1>2, <1>3, <2>1, <2>2 DEF LivePlaces
<1>8. CASE LiveClose(g) /\ UNCHANGED emitted
  <2>1. pc[g] = "close" /\ pc'[g] \in {"leave", "done"}
    BY <1>0, <1>8 DEF LiveClose, Close, Leave, Goto
  <2>2. stats'.stored = stats.stored /\ stats'.deduped = stats.deduped
    BY <1>0, <1>8 DEF LiveClose, Close, Count
  <2> QED BY <1>2, <1>8, <2>1, <2>2 DEF LivePlaces
<1>9. CASE StopRunning(g) /\ UNCHANGED emitted
  <2>1. pc[g] = "leave" /\ pc'[g] = "done" /\ UNCHANGED stats
    BY <1>0, <1>9 DEF StopRunning, Goto
  <2> QED BY <1>2, <1>9, <2>1 DEF LivePlaces
<1>10. CASE Cancelled(g) /\ UNCHANGED emitted
  <2>1. pc[g] = "loop" /\ pc'[g] = "close" /\ UNCHANGED stats
    BY <1>0, <1>10 DEF Cancelled, End, Goto, serviceVars
  <2> QED BY <1>2, <1>10, <2>1 DEF LivePlaces
<1> QED BY <1>4, <1>5, <1>6, <1>7, <1>8, <1>9, <1>10

(* A packet that was made has a payload, is no fragment and no duplicate:  *)
(* the store takes it. *)
LEMMA LivePacketIsNew ==
    ASSUME LiveQuiet, NEW g, Taken(g)
    PROVE  PutResult(cur[g]) = "ok" /\ ~ cur[g].isFragment
<1>1. /\ cur[g].payload = LivePayload /\ ~ cur[g].isFragment
      /\ cur[g].id = [kind |-> "datagram", stream |-> LiveKey, seq |-> emitted - 1, off |-> 0]
  BY DEF Taken, LivePacket, NewDatagram, Whole
<1>2. cur[g].id \notin DOMAIN byID
  <2> SUFFICES ASSUME NEW i \in DOMAIN packets, packets[i].id = cur[g].id PROVE FALSE
    BY DEF LiveQuiet, LiveStored
  <2>1. packets[i].id.seq = i - 1
    BY DEF LiveQuiet, LiveStored, LivePacket, NewDatagram, Whole
  <2>2. cur[g].id.seq = emitted - 1
    BY <1>1
  <2>3. i \in 1 .. Len(packets) /\ Len(packets) \in Nat /\ Len(packets) + 1 = emitted
    BY DEF LiveQuiet, LiveStored, IsSeq, Taken
  <2> QED BY <2>1, <2>2, <2>3
<1> QED BY <1>1, <1>2, ControlAssumption DEF PutResult, Validate, HasPayload

(* The first session, with a packet in its hands and in the flush. *)
LEMMA LiveWorks ==
    ASSUME Shape, CountingInv, LiveQuiet, NEW g \in Sessions, OnCourse(g), UNCHANGED emitted,
           \/ Check(g) \/ Mark(g) \/ FeedOne(g) \/ DrainAll(g) \/ Put(g) \/ Stored(g)
           \/ Flush(g) \/ FlushPut(g)
    PROVE  LiveQuiet' /\ OnCourse(g)'
<1>0. /\ g \in DOMAIN pc /\ g \in DOMAIN cur /\ g \in DOMAIN todo /\ emitted \in Nat
      /\ stats \in [received : Nat, stored : Nat, failed : Nat, deduped : Nat]
      /\ IsSeq(packets) /\ Len(packets) \in Nat
  BY DEF Shape, CountingInv, LiveQuiet, LiveStored, IsSeq
<1>1. CASE Check(g)
  <2>1. pc[g] = "check" /\ Taken(g) /\ DOMAIN seen = {}
    BY <1>1 DEF Check, OnCourse
  <2>2. /\ pc'[g] = "record"
        /\ UNCHANGED <<stats, cur, todo, seen, packets, byID, entries, pending>>
    BY <1>0, <1>1, <2>1 DEF Check, Seen, Goto, storeVars, dedupVars, asmVars
  <2>3. Taken(g)'
    BY <2>1, <2>2 DEF Taken, Key
  <2>4. OnCourse(g)'
    BY <2>1, <2>2, <2>3 DEF OnCourse, LivePlaces
  <2> QED BY <2>2, <2>4 DEF LiveQuiet, LiveStored
<1>2. CASE Mark(g)
  <2>1. pc[g] = "record" /\ Taken(g) /\ DOMAIN seen = {}
    BY <1>2 DEF Mark, OnCourse
  <2>2. /\ UNCHANGED <<stats, cur, packets, byID, entries, pending>>
        /\ DOMAIN seen' = {Key(g)}
    BY <1>2, <2>1 DEF Mark, Record, serviceVars, storeVars, asmVars
  <2>3. pc'[g] = "feed" \/ (pc'[g] = "put" /\ todo'[g] = << cur[g] >>)
    BY <1>0, <1>2 DEF Mark, Goto
  <2>4. Taken(g)'
    BY <2>1, <2>2 DEF Taken, Key
  <2>5. OnCourse(g)'
    BY <2>2, <2>3, <2>4 DEF OnCourse, LivePlaces
  <2> QED BY <2>2, <2>5 DEF LiveQuiet, LiveStored
<1>3. CASE FeedOne(g)
  <2>1. pc[g] = "feed" /\ Taken(g)
    BY <1>3 DEF FeedOne, OnCourse
  <2>2. ~ cur[g].isFragment
    BY <2>1, LivePacketIsNew
  <2>3. /\ UNCHANGED <<stats, cur, seen, packets, byID, entries, pending>>
        /\ pc'[g] = "drain" /\ todo'[g] = << cur[g] >>
    BY <1>0, <1>3, <2>2 DEF FeedOne, Feed, PassThrough, FeedFragment, FeedResult, Goto,
       serviceVars, storeVars, dedupVars
  <2>4. Taken(g)'
    BY <2>1, <2>3 DEF Taken, Key
  <2>5. OnCourse(g)'
    BY <2>3, <2>4 DEF OnCourse, LivePlaces
  <2> QED BY <2>3, <2>5 DEF LiveQuiet, LiveStored
<1>4. CASE DrainAll(g)
  <2>1. pc[g] = "drain" /\ Taken(g) /\ todo[g] = << cur[g] >> /\ pending = << >>
    BY <1>4 DEF DrainAll, OnCourse, LiveQuiet
  <2>2. /\ UNCHANGED <<stats, cur, seen, packets, byID, entries>> /\ pending' = << >>
        /\ pc'[g] = "put" /\ todo'[g] = << >> \o << cur[g] >>
    BY <1>0, <1>4, <2>1 DEF DrainAll, Drain, Goto, serviceVars, storeVars, dedupVars
  <2>3. todo'[g] = << cur[g] >>
    BY <2>2
  <2>4. Taken(g)'
    BY <2>1, <2>2 DEF Taken, Key
  <2>5. OnCourse(g)'
    BY <2>2, <2>3, <2>4 DEF OnCourse, LivePlaces
  <2> QED BY <2>2, <2>5 DEF LiveQuiet, LiveStored
<1>5. CASE Put(g)
  <2>1. pc[g] = "put" /\ Taken(g) /\ todo[g] = << cur[g] >>
    BY <1>5 DEF Put, OnCourse, LivePlaces, PutDone
  <2>2. Head(todo[g]) = cur[g] /\ Tail(todo[g]) = << >>
    BY <2>1
  <2>3. PutOK(g) /\ Goto(g, "put")
    BY <1>5, <2>1, <2>2, LivePacketIsNew DEF Put, Refuse
  <2>4. /\ UNCHANGED <<stats, cur, entries, pending>>
        /\ pc'[g] = "put" /\ todo'[g] = << >>
        /\ packets' = Append(packets, cur[g])
        /\ DOMAIN byID' = DOMAIN byID \cup {cur[g].id}
        /\ DOMAIN seen' = {}
    <3>1. seen' = Restrict(seen, DOMAIN seen \ {Key(g)})
      BY <2>2, <2>3 DEF PutOK, Release, Key
    <3>2. DOMAIN seen' = {}
      BY <2>1, <3>1 DEF Restrict, Taken
    <3> QED BY <1>0, <2>2, <2>3, <3>2 DEF PutOK, Insert, Goto, serviceVars, asmVars
  <2>5. /\ IsSeq(packets') /\ Len(packets') = Len(packets) + 1
        /\ DOMAIN packets' = 1 .. Len(packets) + 1
        /\ \A i \in 1 .. Len(packets) : packets'[i] = packets[i]
        /\ packets'[Len(packets) + 1] = cur[g]
        /\ DOMAIN packets = 1 .. Len(packets)
    <3>1. IsSeq(packets')
      BY <1>0, <2>4, AppendIsSeq
    <3> QED BY <1>0, <2>4, <3>1 DEF IsSeq
  <2>6. LiveStored'
    <3>1. cur[g] = LivePacket((Len(packets) + 1) - 1)
      <4>1. emitted - 1 = (Len(packets) + 1) - 1
        BY <2>1 DEF Taken
      <4> QED BY <2>1, <4>1 DEF Taken
    <3>2. ASSUME NEW i \in DOMAIN packets' PROVE packets'[i] = LivePacket(i - 1)
      <4>1. CASE i = Len(packets) + 1
        BY <2>5, <3>1, <4>1
      <4>2. CASE i # Len(packets) + 1
        <5>1. i \in DOMAIN packets /\ packets'[i] = packets[i]
          BY <1>0, <2>5, <4>2
        <5> QED BY <5>1 DEF LiveQuiet, LiveStored
      <4> QED BY <4>1, <4>2
    <3>3. ASSUME NEW id \in DOMAIN byID' PROVE \E i \in DOMAIN packets' : id = packets'[i].id
      <4>1. CASE id = cur[g].id
        <5>1. Len(packets) + 1 \in DOMAIN packets'
          BY <1>0, <2>5
        <5> QED BY <2>5, <4>1, <5>1
      <4>2. CASE id # cur[g].id
        <5>1. PICK i \in DOMAIN packets : id = packets[i].id
          BY <2>4, <4>2 DEF LiveQuiet, LiveStored
        <5>2. i \in DOMAIN packets' /\ packets'[i] = packets[i]
          BY <1>0, <2>5
        <5> QED BY <5>1, <5>2
      <4> QED BY <4>1, <4>2
    <3> QED BY <2>5, <3>2, <3>3 DEF LiveStored
  <2>7. PutDone(g)'
    BY <1>0, <2>1, <2>4, <2>5 DEF Taken, PutDone
  <2>8. OnCourse(g)'
    BY <2>4, <2>7 DEF OnCourse, LivePlaces
  <2> QED BY <2>4, <2>6, <2>8 DEF LiveQuiet
<1>6. CASE Stored(g)
  <2>1. pc[g] = "put" /\ todo[g] = << >> /\ << cur[g] >> # << >>
    BY <1>6 DEF Stored
  <2>2. PutDone(g)
    BY <2>1 DEF OnCourse
  <2>3. /\ UNCHANGED <<cur, todo, seen, packets, byID, entries, pending>>
        /\ pc'[g] = "loop" /\ stats'.stored = stats.stored + 1 /\ stats'.deduped = stats.deduped
    BY <1>0, <1>6 DEF Stored, Count, Goto, storeVars, dedupVars, asmVars
  <2>4. Even(g)'
    BY <2>2, <2>3 DEF PutDone, Even
  <2>5. OnCourse(g)'
    BY <2>3, <2>4 DEF OnCourse, LivePlaces
  <2> QED BY <2>3, <2>5 DEF LiveQuiet, LiveStored
<1>7. CASE Flush(g)
  <2>1. pc[g] = "flush" /\ Even(g) /\ Flushable = {} /\ pending = << >>
    BY <1>7 DEF Flush, OnCourse, LivePlaces, Flushable, LiveQuiet
  <2>2. /\ UNCHANGED <<stats, seen, packets, byID>> /\ pending' = << >>
        /\ pc'[g] = "flushput" /\ todo'[g] = << >>
        /\ DOMAIN entries' = {}
    BY <1>0, <1>7, <2>1 DEF Flush, FlushExpired, FlushResult, Restrict, Goto, serviceVars, storeVars,
       dedupVars, LiveQuiet
  <2>3. Even(g)'
    BY <2>1, <2>2 DEF Even
  <2>4. OnCourse(g)'
    BY <2>2, <2>3 DEF OnCourse, LivePlaces
  <2> QED BY <2>2, <2>4 DEF LiveQuiet, LiveStored
<1>8. CASE FlushPut(g)
  <2>1. pc[g] = "flushput" /\ Even(g) /\ todo[g] = << >>
    BY <1>8 DEF FlushPut, OnCourse, LivePlaces, Even
  <2>2. /\ UNCHANGED <<stats, cur, todo, seen, packets, byID, entries, pending>>
        /\ pc'[g] = "close"
    BY <1>0, <1>8, <2>1 DEF FlushPut, End, Goto, serviceVars, storeVars, dedupVars, asmVars
  <2>3. Even(g)'
    BY <2>1, <2>2 DEF Even
  <2>4. OnCourse(g)'
    BY <2>2, <2>3 DEF OnCourse, LivePlaces
  <2> QED BY <2>2, <2>4 DEF LiveQuiet, LiveStored
<1> QED BY <1>1, <1>2, <1>3, <1>4, <1>5, <1>6, <1>7, <1>8

(* Every step keeps the first session on its course. *)
LEMMA LiveStep ==
    ASSUME Shape, CountingInv, LiveInv, [ControlNext]_controlVars
    PROVE  LiveInv'
<1>0. spawned \subseteq Runners /\ Runners \subseteq Sessions
  BY DEF LiveInv, Sessions
<1>1. ASSUME NEW g \in Runners, RunStep(g) PROVE LiveInv'
  <2>1. UNCHANGED <<live, spawned>> /\ g \in spawned /\ g \in Sessions
    BY <1>0, <1>1 DEF RunStep
  <2>2. SessionStep(g)
    BY <1>1 DEF RunStep, SourceStep, ServiceStep, SessionStep, Step, LiveClose
  <2>3. \A h \in Runners \ spawned : pc'[h] = pc[h] /\ todo'[h] = todo[h]
    BY <1>0, <2>1, <2>2, SessionFrame
  <2>4. emitted' \in Nat
    BY <1>1 DEF RunStep, SourceStep, ServiceStep, LiveOpen, LiveFetch, LiveWait, LiveEmit, LiveInv
  <2>5. ASSUME Sole PROVE LiveQuiet' /\ OnCourse(g)'
    <3>1. LiveQuiet /\ OnCourse(g) /\ live
      BY <2>1, <2>5 DEF LiveInv, Sole
    <3>2. \/ LiveOpen(g) \/ LiveFetch(g) \/ LiveWait(g)
          \/ LiveClose(g) /\ UNCHANGED emitted
          \/ ServiceStep(g)
      BY <1>1, <3>1 DEF RunStep, SourceStep
    <3>3. CASE ServiceStep(g)
      BY <2>1, <3>1, <3>3, LiveTurns, LiveWorks DEF ServiceStep
    <3>4. CASE \/ LiveOpen(g) \/ LiveFetch(g) \/ LiveWait(g)
               \/ LiveClose(g) /\ UNCHANGED emitted
      BY <2>1, <3>1, <3>4, LiveTurns
    <3> QED BY <3>2, <3>3, <3>4
  <2>6. Sole' => Sole /\ \A h \in spawned : h = g
    BY <2>1 DEF Sole
  <2>7. spawned' # {}
    BY <2>1
  <2> QED BY <1>0, <2>1, <2>3, <2>4, <2>5, <2>6, <2>7 DEF LiveInv
<1>2. CASE PassesBy /\ UNCHANGED <<live, emitted, spawned>>
  <2>1. /\ UNCHANGED <<pc, todo, stats, packets, byID, entries, pending>>
        /\ DOMAIN seen' \subseteq DOMAIN seen
        /\ \A g \in Sessions : pc[g] # "done" => cur'[g] = cur[g]
    BY <1>2 DEF PassesBy, serviceVars, storeVars, asmVars, Shape
  <2>2. ASSUME NEW g \in spawned, OnCourse(g) PROVE OnCourse(g)'
    <3>1. Even(g) => Even(g)'
      BY <1>2, <2>1 DEF Even
    <3>2. PutDone(g) => PutDone(g)'
      BY <1>2, <2>1 DEF PutDone
    <3>3. pc[g] # "done" => cur'[g] = cur[g]
      BY <1>0, <2>1
    <3>4. pc[g] # "done" /\ Taken(g) => Taken(g)'
      BY <1>2, <2>1, <3>3 DEF Taken, Key
    <3> QED BY <1>2, <2>1, <2>2, <3>1, <3>2, <3>3, <3>4 DEF OnCourse, LivePlaces
  <2>3. LiveQuiet => LiveQuiet'
    BY <1>2, <2>1 DEF LiveQuiet, LiveStored
  <2> QED BY <1>2, <2>1, <2>2, <2>3 DEF LiveInv, Sole
<1>3. ASSUME NEW w \in Webs, HandleCaptureStart(w) PROVE LiveInv'
  <2>1. /\ UNCHANGED <<live, emitted, pc, todo, stats, packets, byID, entries, pending, seen>>
        /\ w \notin spawned /\ spawned' = spawned \cup {w} /\ w \in Runners
    BY <1>3, ControlAssumption
       DEF HandleCaptureStart, captureVars, sessionVars, serviceVars, storeVars, asmVars, dedupVars
  <2>2. IsFiniteSet(spawned') /\ spawned' \subseteq Runners
    BY <1>0, <2>1, FS_AddElement DEF LiveInv
  <2>3. ASSUME Sole' PROVE Sole /\ spawned = {} /\ spawned' = {w}
    BY <2>1, <2>3 DEF Sole
  <2>4. ASSUME Sole' PROVE LiveQuiet' /\ OnCourse(w)'
    <3>1. /\ LiveQuiet /\ emitted = 0 /\ stats.stored = 0 /\ packets = << >> /\ DOMAIN seen = {}
          /\ pc[w] = "idle" /\ todo[w] = << >>
      BY <2>1, <2>3, <2>4 DEF LiveInv
    <3>2. Len(packets) = 0
      BY <3>1
    <3>3. Even(w)' /\ LiveQuiet'
      BY <2>1, <3>1, <3>2 DEF Even, LiveQuiet, LiveStored
    <3> QED BY <2>1, <3>1, <3>3 DEF OnCourse, LivePlaces
  <2> QED BY <2>1, <2>2, <2>3, <2>4 DEF LiveInv
<1>4. ASSUME NEW w \in Webs, Finish(w) PROVE PassesBy /\ UNCHANGED <<live, emitted, spawned>>
  BY <1>4 DEF Finish, dedupVars, PassesBy
<1>5. CASE HandleCaptureStop \/ CallCancel \/ UNCHANGED controlVars
  BY <1>2, <1>5 DEF HandleCaptureStop, CallCancel, controlVars, captureVars, sessionVars, dedupVars,
              PassesBy
<1>6. CASE PassTime
  BY <1>2, <1>6, EnvironmentPassesBy DEF PassTime
<1> QED BY <1>1, <1>2, <1>3, <1>4, <1>5, <1>6 DEF ControlNext

(* Nothing is made at the start. *)
LEMMA LiveInit == ControlInit => LiveInv
<1> SUFFICES ASSUME ControlInit PROVE LiveInv
  OBVIOUS
<1>1. /\ emitted = 0 /\ stats.stored = 0 /\ stats.deduped = 0 /\ packets = << >>
      /\ DOMAIN seen = {} /\ DOMAIN byID = {} /\ DOMAIN entries = {} /\ pending = << >>
      /\ \A g \in Runners : pc[g] = "idle" /\ todo[g] = << >>
  BY DEF ControlInit, CaptureInit, StoreInit, DedupInit, AsmInit, Sessions
<1>2. spawned \in {{}, {Demo}} /\ (live => spawned = {})
  BY DEF ControlInit
<1>3. IsFiniteSet(spawned) /\ spawned \subseteq Runners
  <2>1. IsFiniteSet({}) /\ IsFiniteSet({Demo})
    BY FS_EmptySet, FS_Singleton
  <2> QED BY <1>2, <2>1, ControlAssumption
<1>4. LiveQuiet
  BY <1>1, EmptyIsSeq DEF LiveQuiet, LiveStored
<1> QED BY <1>1, <1>2, <1>3, <1>4 DEF LiveInv, Sole

(* On its course a session that is alone stores all that is made. *)
LEMMA LiveImplies == LiveInv => LiveStoresAll
<1> SUFFICES ASSUME LiveInv, live, Cardinality(spawned) = 1
             PROVE  /\ \A i \in DOMAIN packets : packets[i] = LivePacket(i - 1)
                    /\ stats.deduped = 0
                    /\ emitted = stats.stored + Cardinality({g \in Runners : InFlight(g)})
  BY DEF LiveStoresAll
<1> DEFINE A == {g \in Runners : InFlight(g)}
<1>1. PICK w : spawned = {w}
  BY FS_Singleton DEF LiveInv
<1>2. Sole
  BY <1>1 DEF Sole
<1>3. LiveQuiet /\ OnCourse(w) /\ w \in Runners
  BY <1>1, <1>2 DEF LiveInv
<1>4. \A g \in Runners : g # w => ~ InFlight(g)
  BY <1>1 DEF LiveInv, InFlight
<1>5. CASE InFlight(w)
  <2>1. A = {w}
    BY <1>3, <1>4, <1>5
  <2>2. Cardinality({w}) = 1
    BY FS_Singleton, Zenon
  <2>3. stats.stored + 1 = emitted
    BY <1>3, <1>5 DEF InFlight, OnCourse, LivePlaces, Taken, PutDone
  <2> HIDE DEF A
  <2>4. emitted = stats.stored + Cardinality(A)
    BY <2>1, <2>2, <2>3
  <2> QED BY <1>3, <2>4 DEF A, LiveQuiet, LiveStored
<1>6. CASE ~ InFlight(w)
  <2>1. A = {} /\ Cardinality({}) = 0
    BY <1>4, <1>6, FS_EmptySet
  <2>2. stats.stored = emitted /\ emitted \in Nat
    BY <1>3, <1>6 DEF InFlight, OnCourse, LivePlaces, Even, LiveQuiet
  <2> HIDE DEF A
  <2>3. emitted = stats.stored + Cardinality(A)
    BY <2>1, <2>2
  <2> QED BY <1>3, <2>3 DEF A, LiveQuiet, LiveStored
<1> QED BY <1>5, <1>6

(* Although all packets of the live source have one deduplication key, the *)
(* first session stores each of them, in the order they were made, and     *)
(* drops none, with the purge, stops and refused starts of the web server  *)
(* in between (live_source.go, Next; store.go:77). *)
THEOREM LiveSessionStoresAll == ControlSpec => []LiveStoresAll
<1>1. HandlingInv => Shape
  BY DEF HandlingInv
<1> QED BY <1>1, LiveInit, LiveStep, LiveImplies, StartsAlike, HandlingInit, HandlingStep,
           CountingInit, CountingStep, PTL DEF ControlSpec

=============================================================================
