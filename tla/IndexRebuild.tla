---------------------------- MODULE IndexRebuild -----------------------------
(***************************************************************************)
(* Rebuilding the search index from the store while packets keep arriving  *)
(* (internal/index/rebuild.go).  Rebuild takes the locks of the store and  *)
(* of the index in turn and holds neither from one end to the other; the   *)
(* demo goroutine (main.go:118) and every HTTP request that resumes a      *)
(* replay (replay.go:135) may be inside it at the same time.               *)
(*                                                                         *)
(* The maps by stream, protocol and port always take an ID together and    *)
(* are reset together, so the index is the set of IDs they hold.           *)
(***************************************************************************)
EXTENDS Store, Functions

CONSTANTS
    Rebuilders,     \* goroutines that call Rebuild
    MaxRounds       \* bound on the calls of each of them

ASSUME MaxRoundsAssumption == MaxRounds \in Nat

VARIABLES
    indexed,        \* the IDs in the index
    version,        \* Index.version
    history,        \* version -> the IDs indexed when it was recorded
    at,             \* where each rebuilder is in Rebuild
    snap,           \* its snapshot of the store
    delta,          \* the IDs of its delta
    reported,       \* the Version of its last RebuildResult
    rounds,         \* how often it has called Rebuild
    resetAt         \* number of packets stored when the index was last reset

indexVars == <<indexed, version, history>>
rebuildVars == <<indexVars, at, snap, delta, reported, rounds, resetAt>>
allVars == <<storeVars, rebuildVars>>

StoredIDs(n) == {packets[i].id : i \in 1 .. n}

NoSnapshot == [version |-> 0, ids |-> << >>]

RebuildInit ==
    /\ StoreInit
    /\ indexed  = {}
    /\ version  = 0
    /\ history  = << >>
    /\ at       = [g \in Rebuilders |-> "idle"]
    /\ snap     = [g \in Rebuilders |-> NoSnapshot]
    /\ delta    = [g \in Rebuilders |-> {}]
    /\ reported = [g \in Rebuilders |-> 0]
    /\ rounds   = [g \in Rebuilders |-> 0]
    /\ resetAt  = 0

-----------------------------------------------------------------------------
TakeSnapshot(g) ==
    /\ at[g] = "idle"
    /\ rounds[g] < MaxRounds
    /\ snap'   = [snap EXCEPT ![g] = Snapshot]
    /\ rounds' = [rounds EXCEPT ![g] = @ + 1]
    /\ at'     = [at EXCEPT ![g] = "build"]
    /\ UNCHANGED <<storeVars, indexVars, delta, reported, resetAt>>

(* resetLocked and the additions that follow it, under one lock.  Every ID *)
(* of the snapshot that the lookup still finds is indexed.                 *)
Build(g) ==
    /\ at[g] = "build"
    /\ indexed' = Range(snap[g].ids) \cap DOMAIN byID
    /\ resetAt' = Len(packets)
    /\ at'      = [at EXCEPT ![g] = "delta"]
    /\ UNCHANGED <<storeVars, version, history, snap, delta, reported, rounds>>

(* Mutant: the delta is read from the version of the index, which another  *)
(* rebuild may have recorded.                                              *)
IndexVersion(g) == version

DeltaBase(g) == snap[g].version

ReadDelta(g) ==
    /\ at[g] = "delta"
    /\ delta' = [delta EXCEPT ![g] = Range(IDsOf(Since(DeltaBase(g))))]
    /\ at'    = [at EXCEPT ![g] = "merge"]
    /\ UNCHANGED <<storeVars, indexVars, snap, reported, rounds, resetAt>>

(* Mutant: the merged index is recorded as that of the snapshot. *)
SnapshotVersion(g) == snap[g].version

(* Mutant: the index of the last packet is recorded, not the count. *)
LastPosition(g) == Len(packets) - 1

(* src.PacketCount(), read when the rebuild records its history. *)
RecordedVersion(g) == Len(packets)

(* The count of packets is read while the index is locked and the store is *)
(* not; nobody sees the merged index before.                               *)
Merge(g) ==
    /\ at[g] = "merge"
    /\ indexed' = indexed \cup delta[g]
    /\ version' = RecordedVersion(g)
    /\ history' = [v \in DOMAIN history \cup {RecordedVersion(g)} |->
                     IF v = RecordedVersion(g) THEN indexed \cup delta[g] ELSE history[v]]
    /\ at'      = [at EXCEPT ![g] = "return"]
    /\ UNCHANGED <<storeVars, snap, delta, reported, rounds, resetAt>>

(* The result carries the version of the index after the lock is released. *)
Return(g) ==
    /\ at[g] = "return"
    /\ reported' = [reported EXCEPT ![g] = version]
    /\ at'       = [at EXCEPT ![g] = "idle"]
    /\ UNCHANGED <<storeVars, indexVars, snap, delta, rounds, resetAt>>

Arrive == StoreNext /\ UNCHANGED rebuildVars

GoOn(g) == Build(g) \/ ReadDelta(g) \/ Merge(g) \/ Return(g)

RebuildStep(g) == TakeSnapshot(g) \/ GoOn(g)

RebuildNext == Arrive \/ \E g \in Rebuilders : RebuildStep(g)

(* A call of Rebuild that has begun runs to its end: none of its steps     *)
(* waits for another goroutine.  Nobody has to call it.                    *)
RebuildSpec ==
    /\ RebuildInit /\ [][RebuildNext]_allVars
    /\ \A g \in Rebuilders : WF_allVars(GoOn(g))

-----------------------------------------------------------------------------
RebuildTypeOK ==
    /\ indexed \subseteq {pkt.id : pkt \in Offered}
    /\ version \in Nat
    /\ DOMAIN history \subseteq Nat
    /\ at \in [Rebuilders -> {"idle", "build", "delta", "merge", "return"}]
    /\ snap \in [Rebuilders -> [version : Nat, ids : Seq({pkt.id : pkt \in Offered})]]
    /\ delta \in [Rebuilders -> SUBSET {pkt.id : pkt \in Offered}]
    /\ reported \in [Rebuilders -> Nat]
    /\ rounds \in [Rebuilders -> 0 .. MaxRounds]
    /\ resetAt \in Nat

(* The snapshot kept for a version lists nothing that was stored after it: *)
(* what PacketsAt(version) shows is a part of the first `version' packets. *)
HistoryWithinVersion ==
    \A v \in DOMAIN history : v <= Len(packets) /\ history[v] \subseteq StoredIDs(v)

(* Whatever rebuilds overlap, and in whatever order they reset and merge,  *)
(* the index that is left when all have returned holds every packet that   *)
(* was stored when it was last reset: the merge of the rebuild that reset  *)
(* it last comes after, and covers what its snapshot missed.               *)
QuiescentIndexComplete ==
    (\A g \in Rebuilders : at[g] = "idle") => StoredIDs(resetAt) \subseteq indexed

(* Overlapping rebuilds never turn the version back. *)
VersionNeverDecreases == [][version' >= version]_allVars

(* Overlapping rebuilds may take an ID out of the index for a while, but a *)
(* packet that was stored when some rebuild began is indexed for good once *)
(* the rebuilds have run their course.                                     *)
RebuildCatchesUp ==
    \A pkt \in Offered :
        (\E g \in Rebuilders : at[g] = "build" /\ pkt.id \in Range(snap[g].ids))
            ~> [](pkt.id \in indexed)

-----------------------------------------------------------------------------
(* rebuild.go:18: what is written during the rebuild is not lost.  A single*)
(* rebuild indexes every packet that is stored when it records its version.*)
NothingWrittenIsLost ==
    [][\A g \in Rebuilders : Merge(g) => StoredIDs(Len(packets)) \subseteq indexed']_allVars

=============================================================================
