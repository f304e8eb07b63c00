----------------------------- MODULE IndexProofs -----------------------------
(***************************************************************************)
(* Proofs about overlapping rebuilds of the index (IndexRebuild), for any  *)
(* number of rebuilders, rounds and packets, and about what the index and  *)
(* the filter answer meanwhile (Search).                                   *)
(***************************************************************************)
EXTENDS Search, StoreProofs

(* Nothing in the index, in a snapshot or in a delta is ahead of the store.*)
NothingAhead ==
    /\ version \in 0 .. Len(packets)
    /\ resetAt \in 0 .. Len(packets)
    /\ indexed \subseteq StoredIDs(Len(packets))
    /\ \A g \in Rebuilders : snap[g].version \in 0 .. Len(packets)
    /\ \A g \in Rebuilders : delta[g] \subseteq StoredIDs(Len(packets))

(* A snapshot lists the packets up to its version. *)
SnapshotsFaithful ==
    \A g \in Rebuilders : Range(snap[g].ids) = StoredIDs(snap[g].version)

IndexTypes ==
    /\ at \in [Rebuilders -> {"idle", "build", "delta", "merge", "return"}]
    /\ snap \in [Rebuilders -> [version : Nat, ids : Seq({pkt.id : pkt \in Offered})]]
    /\ delta \in [Rebuilders -> SUBSET {pkt.id : pkt \in Offered}]
    /\ DOMAIN history \subseteq Nat

(* The packets stored at the last reset are indexed, or the rebuilder that *)
(* reset the index has still to merge those its snapshot missed.           *)
StillToMerge(g) ==
    /\ StoredIDs(snap[g].version) \subseteq indexed
    /\ \/ at[g] = "delta"
       \/ /\ at[g] = "merge"
          /\ \A i \in snap[g].version + 1 .. resetAt : packets[i].id \in delta[g]

ResetIsCovered ==
    \/ StoredIDs(resetAt) \subseteq indexed
    \/ \E g \in Rebuilders : StillToMerge(g)

IndexInv ==
    /\ StoreInv /\ IndexTypes /\ NothingAhead /\ SnapshotsFaithful
    /\ HistoryWithinVersion /\ ResetIsCovered

-----------------------------------------------------------------------------
(* What the proofs use of the store. *)
LEMMA PacketsTyped ==
    ASSUME StoreInv
    PROVE  /\ packets \in Seq(Offered)
           /\ Len(packets) \in Nat
           /\ DOMAIN packets = 1 .. Len(packets)
           /\ generation = Len(packets)
BY DEF StoreInv, StoreTypeOK, GenerationCountsPackets

(* The IDs a snapshot lists *)
LEMMA SnapshotLists ==
    ASSUME StoreInv
    PROVE  /\ Snapshot.version = Len(packets)
           /\ Snapshot.ids \in Seq({pkt.id : pkt \in Offered})
           /\ Range(Snapshot.ids) = StoredIDs(Len(packets))
<1>1. IDsOf(packets) = [i \in 1 .. Len(packets) |-> packets[i].id]
  BY PacketsTyped DEF IDsOf
<1>2. \A i \in 1 .. Len(packets) : packets[i] \in Offered
  BY PacketsTyped
<1> QED BY <1>1, <1>2, PacketsTyped DEF Snapshot, Range, StoredIDs

(* The IDs a delta lists *)
LEMMA SinceLists ==
    ASSUME StoreInv, NEW b \in 0 .. Len(packets)
    PROVE  Range(IDsOf(Since(b))) = {packets[i].id : i \in b + 1 .. Len(packets)}
<1> DEFINE n == Len(packets)
<1>1. packets \in Seq(Offered) /\ n \in Nat /\ generation = n /\ b \in 0 .. n
  BY PacketsTyped
<1>2. CASE b = n
  BY <1>1, <1>2 DEF Since, IDsOf, Range
<1>3. CASE b < n
  <2>1. Since(b) = SubSeq(packets, 1 + b, n)
    BY <1>1, <1>3 DEF Since
  <2>2. /\ DOMAIN Since(b) = 1 .. n - b
        /\ \A i \in 1 .. n - b : Since(b)[i] = packets[b + i]
    BY <1>1, <1>3, <2>1, SubSeqProperties
  <2>3. Range(IDsOf(Since(b))) = {packets[b + i].id : i \in 1 .. n - b}
    BY <2>2 DEF IDsOf, Range
  <2>4. \A i \in b + 1 .. n : i - b \in 1 .. n - b /\ b + (i - b) = i
    BY <1>1
  <2>5. \A i \in 1 .. n - b : b + i \in b + 1 .. n
    BY <1>1
  <2> QED BY <2>3, <2>4, <2>5
<1> QED BY <1>1, <1>2, <1>3

(* Put leaves every prefix of the log as it was. *)
LEMMA InsertKeepsPrefixes ==
    ASSUME StoreInv, NEW pkt \in Offered, Insert(pkt)
    PROVE  /\ Len(packets') = Len(packets) + 1
           /\ \A n \in 0 .. Len(packets) : StoredIDs(n)' = StoredIDs(n)
           /\ StoredIDs(Len(packets)) \subseteq StoredIDs(Len(packets))'
           /\ \A i \in 1 .. Len(packets) : packets'[i] = packets[i]
<1>1. /\ Len(packets') = Len(packets) + 1
      /\ \A i \in 1 .. Len(packets) : packets'[i] = packets[i]
  BY InsertAppends
<1>2. \A n \in 0 .. Len(packets) : StoredIDs(n)' = StoredIDs(n)
  BY <1>1, PacketsTyped DEF StoredIDs
<1>3. StoredIDs(Len(packets)) \subseteq StoredIDs(Len(packets))'
  BY <1>1, PacketsTyped DEF StoredIDs
<1> QED BY <1>1, <1>2, <1>3

(* The empty index satisfies the invariant. *)
LEMMA IndexInvInit == RebuildInit => IndexInv
<1> SUFFICES ASSUME RebuildInit PROVE IndexInv
  OBVIOUS
<1>1. StoreInv
  BY StoreInvInit DEF RebuildInit
<1>2. packets = << >>
  BY DEF RebuildInit, StoreInit
<1>3. IndexTypes
  BY DEF RebuildInit, IndexTypes, NoSnapshot
<1>4. NothingAhead
  BY <1>2 DEF RebuildInit, NothingAhead, NoSnapshot
<1>5. SnapshotsFaithful
  BY <1>2 DEF RebuildInit, SnapshotsFaithful, NoSnapshot, StoredIDs, Range
<1>6. HistoryWithinVersion
  BY DEF RebuildInit, HistoryWithinVersion
<1>7. ResetIsCovered
  BY DEF RebuildInit, ResetIsCovered, StoredIDs
<1> QED BY <1>1, <1>3, <1>4, <1>5, <1>6, <1>7 DEF IndexInv

(* A Put that is refused changes nothing here. *)
LEMMA StutterKeeps ==
    ASSUME IndexInv, UNCHANGED storeVars, UNCHANGED rebuildVars
    PROVE  IndexInv'
<1> USE DEF IndexInv
<1>1. StoreInv'
  BY UnchangedKeepsInv
<1>2. UNCHANGED <<packets, byID, byStream, chunks, generation, indexed, version, history,
                  at, snap, delta, resetAt>>
  BY DEF storeVars, rebuildVars, indexVars
<1>3. \A n : StoredIDs(n)' = StoredIDs(n)
  BY <1>2 DEF StoredIDs
<1>4. IndexTypes' /\ NothingAhead' /\ SnapshotsFaithful' /\ HistoryWithinVersion'
  BY <1>2, <1>3 DEF IndexTypes, NothingAhead, SnapshotsFaithful, HistoryWithinVersion
<1>5. ResetIsCovered'
  BY <1>2, <1>3 DEF ResetIsCovered, StillToMerge
<1> QED BY <1>1, <1>4, <1>5

-----------------------------------------------------------------------------
(* A packet that arrives changes no prefix, and is ahead of every rebuild. *)
LEMMA ArriveKeeps == ASSUME IndexInv, Arrive PROVE IndexInv'
<1> USE DEF IndexInv
<1>1. UNCHANGED rebuildVars /\ UNCHANGED <<indexed, version, history>>
  BY DEF Arrive, rebuildVars, indexVars
<1>2. StoreInv'
  BY StoreInvStep DEF Arrive
<1>3. CASE UNCHANGED storeVars
  BY <1>1, <1>3, StutterKeeps
<1>4. ASSUME NEW pkt \in Offered, Insert(pkt)
      PROVE  IndexInv'
  <2>1. /\ Len(packets') = Len(packets) + 1
        /\ \A n \in 0 .. Len(packets) : StoredIDs(n)' = StoredIDs(n)
        /\ StoredIDs(Len(packets)) \subseteq StoredIDs(Len(packets))'
        /\ \A i \in 1 .. Len(packets) : packets'[i] = packets[i]
    BY <1>4, InsertKeepsPrefixes
  <2>2. Len(packets) \in Nat
    BY PacketsTyped
  <2>3. IndexTypes'
    BY <1>1 DEF rebuildVars, IndexTypes
  <2>4. NothingAhead'
    BY <1>1, <2>1, <2>2 DEF rebuildVars, NothingAhead
  <2>5. SnapshotsFaithful'
    BY <1>1, <2>1 DEF rebuildVars, SnapshotsFaithful, NothingAhead
  <2>6. HistoryWithinVersion'
    BY <1>1, <2>1, <2>2 DEF HistoryWithinVersion, IndexTypes
  <2>7. ResetIsCovered'
    <3>1. CASE StoredIDs(resetAt) \subseteq indexed
      BY <1>1, <2>1, <3>1 DEF rebuildVars, ResetIsCovered, NothingAhead
    <3>2. ASSUME NEW g \in Rebuilders, StillToMerge(g) PROVE StillToMerge(g)'
      BY <1>1, <2>1, <2>2, <3>2 DEF rebuildVars, StillToMerge, NothingAhead
    <3> QED BY <3>1, <3>2 DEF ResetIsCovered
  <2> QED BY <1>2, <2>3, <2>4, <2>5, <2>6, <2>7
<1> QED BY <1>3, <1>4 DEF Arrive, StoreNext, StorePut, Refuse

(* A new snapshot lists what is stored now. *)
LEMMA TakeSnapshotKeeps ==
    ASSUME IndexInv, NEW g \in Rebuilders, TakeSnapshot(g) PROVE IndexInv'
<1> USE DEF IndexInv
<1>1. UNCHANGED <<packets, byID, byStream, chunks, generation, indexed, version, history,
                  delta, resetAt>>
  BY DEF TakeSnapshot, storeVars, indexVars
<1>2. StoreInv'
  BY UnchangedKeepsInv DEF TakeSnapshot
<1>3. /\ snap' = [snap EXCEPT ![g] = Snapshot]
      /\ at' = [at EXCEPT ![g] = "build"] /\ at[g] = "idle"
  BY DEF TakeSnapshot
<1>4. /\ Snapshot.version = Len(packets)
      /\ Snapshot \in [version : Nat, ids : Seq({pkt.id : pkt \in Offered})]
      /\ Range(Snapshot.ids) = StoredIDs(Len(packets))
  BY SnapshotLists, PacketsTyped DEF Snapshot
<1>5. \A n : StoredIDs(n)' = StoredIDs(n)
  BY <1>1 DEF StoredIDs
<1>6. IndexTypes'
  BY <1>1, <1>3, <1>4 DEF IndexTypes
<1>7. NothingAhead'
  BY <1>1, <1>3, <1>4, <1>5, PacketsTyped DEF NothingAhead, IndexTypes
<1>8. SnapshotsFaithful'
  BY <1>3, <1>4, <1>5 DEF SnapshotsFaithful, IndexTypes
<1>9. HistoryWithinVersion'
  BY <1>1, <1>5 DEF HistoryWithinVersion
<1>10. ResetIsCovered'
  <2>1. ASSUME NEW h \in Rebuilders, StillToMerge(h) PROVE StillToMerge(h)'
    <3>1. h # g
      BY <1>3, <2>1 DEF StillToMerge
    <3> QED BY <1>1, <1>3, <1>5, <2>1, <3>1 DEF StillToMerge, IndexTypes
  <2> QED BY <1>1, <1>5, <2>1 DEF ResetIsCovered
<1> QED BY <1>2, <1>6, <1>7, <1>8, <1>9, <1>10

(* The reset makes its rebuilder the one that has still to merge. *)
LEMMA BuildKeeps ==
    ASSUME IndexInv, NEW g \in Rebuilders, Build(g) PROVE IndexInv'
<1> USE DEF IndexInv
<1>1. UNCHANGED <<packets, byID, byStream, chunks, generation, version, history, snap,
                  delta>>
  BY DEF Build, storeVars
<1>2. StoreInv'
  BY UnchangedKeepsInv DEF Build
<1>3. \A n : StoredIDs(n)' = StoredIDs(n)
  BY <1>1 DEF StoredIDs
<1>4. StoredIDs(snap[g].version) \subseteq DOMAIN byID
  BY PacketsTyped DEF StoreInv, StoreTypeOK, StoredIDs, NothingAhead
<1>5. indexed' = StoredIDs(snap[g].version)
  BY <1>4 DEF Build, SnapshotsFaithful
<1>6. StoredIDs(snap[g].version) \subseteq StoredIDs(Len(packets))
  BY PacketsTyped DEF StoredIDs, NothingAhead
<1>7. resetAt' = Len(packets) /\ at' = [at EXCEPT ![g] = "delta"]
  BY DEF Build
<1>8. IndexTypes'
  BY <1>1, <1>7 DEF IndexTypes
<1>9. NothingAhead'
  BY <1>1, <1>3, <1>5, <1>6, <1>7, PacketsTyped DEF NothingAhead
<1>10. SnapshotsFaithful' /\ HistoryWithinVersion'
  BY <1>1, <1>3 DEF SnapshotsFaithful, HistoryWithinVersion
<1>11. StillToMerge(g)'
  BY <1>1, <1>3, <1>5, <1>7 DEF StillToMerge, IndexTypes
<1> QED BY <1>2, <1>8, <1>9, <1>10, <1>11 DEF ResetIsCovered

(* The delta holds what the snapshot of its rebuilder missed. *)
LEMMA ReadDeltaKeeps ==
    ASSUME IndexInv, NEW g \in Rebuilders, ReadDelta(g) PROVE IndexInv'
<1> USE DEF IndexInv
<1>1. UNCHANGED <<packets, byID, byStream, chunks, generation, indexed, version, history,
                  snap, resetAt>>
  BY DEF ReadDelta, storeVars, indexVars
<1>2. StoreInv'
  BY UnchangedKeepsInv DEF ReadDelta
<1>3. \A n : StoredIDs(n)' = StoredIDs(n)
  BY <1>1 DEF StoredIDs
<1> DEFINE new == {packets[i].id : i \in snap[g].version + 1 .. Len(packets)}
<1>4. delta' = [delta EXCEPT ![g] = new]
  BY SinceLists DEF ReadDelta, DeltaBase, NothingAhead
<1>5. new \subseteq StoredIDs(Len(packets)) /\ new \subseteq {pkt.id : pkt \in Offered}
  BY PacketsTyped DEF StoredIDs, NothingAhead
<1>6. at[g] = "delta" /\ at' = [at EXCEPT ![g] = "merge"]
  BY DEF ReadDelta
<1> HIDE DEF new
<1>7. IndexTypes'
  BY <1>1, <1>4, <1>5, <1>6 DEF IndexTypes
<1>8. NothingAhead'
  BY <1>1, <1>3, <1>4, <1>5 DEF NothingAhead, IndexTypes
<1>9. SnapshotsFaithful' /\ HistoryWithinVersion'
  BY <1>1, <1>3 DEF SnapshotsFaithful, HistoryWithinVersion
<1>10. ResetIsCovered'
  <2>1. ASSUME NEW h \in Rebuilders, StillToMerge(h) PROVE StillToMerge(h)'
    <3>1. CASE h # g
      BY <1>1, <1>3, <1>4, <1>6, <2>1, <3>1 DEF StillToMerge, IndexTypes
    <3>2. CASE h = g
      <4>1. \A i \in snap[g].version + 1 .. resetAt : packets[i].id \in new
        BY PacketsTyped DEF new, NothingAhead
      <4> QED BY <1>1, <1>3, <1>4, <1>6, <2>1, <3>2, <4>1 DEF StillToMerge, IndexTypes
    <3> QED BY <3>1, <3>2
  <2> QED BY <1>1, <1>3, <2>1 DEF ResetIsCovered
<1> QED BY <1>2, <1>7, <1>8, <1>9, <1>10

(* With the delta of the last reset the index covers what was stored then. *)
LEMMA MergeKeeps ==
    ASSUME IndexInv, NEW g \in Rebuilders, Merge(g) PROVE IndexInv'
<1> USE DEF IndexInv
<1>1. UNCHANGED <<packets, byID, byStream, chunks, generation, snap, delta, resetAt>>
  BY DEF Merge, storeVars
<1>2. StoreInv'
  BY UnchangedKeepsInv DEF Merge
<1>3. \A n : StoredIDs(n)' = StoredIDs(n)
  BY <1>1 DEF StoredIDs
<1>4. /\ indexed' = indexed \cup delta[g]
      /\ version' = Len(packets)
      /\ at[g] = "merge" /\ at' = [at EXCEPT ![g] = "return"]
  BY DEF Merge, RecordedVersion
<1>5. /\ DOMAIN history' = DOMAIN history \cup {Len(packets)}
      /\ history'[Len(packets)] = indexed \cup delta[g]
      /\ \A v \in DOMAIN history : v # Len(packets) => history'[v] = history[v]
  BY DEF Merge, RecordedVersion
<1>6. IndexTypes'
  BY <1>1, <1>4, <1>5, PacketsTyped DEF IndexTypes
<1>7. NothingAhead'
  BY <1>1, <1>3, <1>4, PacketsTyped DEF NothingAhead
<1>8. SnapshotsFaithful'
  BY <1>1, <1>3 DEF SnapshotsFaithful
<1>9. HistoryWithinVersion'
  BY <1>1, <1>3, <1>5, PacketsTyped DEF HistoryWithinVersion, NothingAhead
<1>10. ResetIsCovered'
  <2>1. ASSUME NEW h \in Rebuilders, StillToMerge(h), h # g PROVE StillToMerge(h)'
    BY <1>1, <1>3, <1>4, <2>1 DEF StillToMerge, IndexTypes
  <2>2. ASSUME StillToMerge(g) PROVE StoredIDs(resetAt) \subseteq indexed \cup delta[g]
    <3>1. \A i \in 1 .. resetAt :
             i \in 1 .. snap[g].version \/ i \in snap[g].version + 1 .. resetAt
      BY PacketsTyped DEF NothingAhead
    <3>2. \A i \in snap[g].version + 1 .. resetAt : packets[i].id \in delta[g]
      BY <1>4, <2>2 DEF StillToMerge
    <3>3. \A i \in 1 .. snap[g].version : packets[i].id \in indexed
      BY <2>2 DEF StillToMerge, StoredIDs
    <3> QED BY <3>1, <3>2, <3>3 DEF StoredIDs
  <2> QED BY <1>1, <1>3, <1>4, <2>1, <2>2 DEF ResetIsCovered
<1> QED BY <1>2, <1>6, <1>7, <1>8, <1>9, <1>10

(* A rebuild returns only after it has merged. *)
LEMMA ReturnKeeps ==
    ASSUME IndexInv, NEW g \in Rebuilders, Return(g) PROVE IndexInv'
<1> USE DEF IndexInv
<1>1. UNCHANGED <<packets, byID, byStream, chunks, generation, indexed, version, history,
                  snap, delta, resetAt>>
  BY DEF Return, storeVars, indexVars
<1>2. StoreInv'
  BY UnchangedKeepsInv DEF Return
<1>3. \A n : StoredIDs(n)' = StoredIDs(n)
  BY <1>1 DEF StoredIDs
<1>4. at[g] = "return" /\ at' = [at EXCEPT ![g] = "idle"]
  BY DEF Return
<1>5. IndexTypes' /\ NothingAhead' /\ SnapshotsFaithful' /\ HistoryWithinVersion'
  BY <1>1, <1>3, <1>4 DEF IndexTypes, NothingAhead, SnapshotsFaithful, HistoryWithinVersion
<1>6. ResetIsCovered'
  BY <1>1, <1>3, <1>4 DEF ResetIsCovered, StillToMerge, IndexTypes
<1> QED BY <1>2, <1>5, <1>6

(* Every step keeps the inductive invariant. *)
LEMMA IndexInvStep == IndexInv /\ [RebuildNext]_allVars => IndexInv'
<1> SUFFICES ASSUME IndexInv, [RebuildNext]_allVars PROVE IndexInv'
  OBVIOUS
<1>1. CASE UNCHANGED allVars
  BY <1>1, StutterKeeps DEF allVars
<1> QED BY <1>1, ArriveKeeps, TakeSnapshotKeeps, BuildKeeps, ReadDeltaKeeps, MergeKeeps,
           ReturnKeeps DEF RebuildNext, RebuildStep, GoOn

(* Every reachable state satisfies the inductive invariant. *)
LEMMA IndexInvHolds == RebuildSpec => []IndexInv
BY IndexInvInit, IndexInvStep, PTL DEF RebuildSpec

-----------------------------------------------------------------------------
(* The snapshot recorded for a version never lists a packet stored after   *)
(* it, however rebuilds overlap (rebuild.go:73-80).                        *)
THEOREM IndexHistoryWithinVersion == RebuildSpec => []HistoryWithinVersion
<1>1. IndexInv => HistoryWithinVersion
  BY DEF IndexInv
<1> QED BY <1>1, IndexInvHolds, PTL

(* Once every rebuild has returned, the index holds every packet that was  *)
(* stored when it was last reset (rebuild.go:29-50).                       *)
THEOREM IndexQuiescentComplete == RebuildSpec => []QuiescentIndexComplete
<1>1. IndexInv => QuiescentIndexComplete
  BY DEF IndexInv, ResetIsCovered, StillToMerge, QuiescentIndexComplete
<1> QED BY <1>1, IndexInvHolds, PTL

(* No rebuild, however late it merges, turns the version of the index back *)
(* (rebuild.go:50).                                                        *)
THEOREM IndexVersionNeverDecreases == RebuildSpec => VersionNeverDecreases
<1>1. IndexInv /\ [RebuildNext]_allVars => [version' >= version]_allVars
  <2> SUFFICES ASSUME IndexInv, RebuildNext PROVE version' >= version
    OBVIOUS
  <2>1. version \in Nat /\ Len(packets) \in Nat /\ version <= Len(packets)
    BY PacketsTyped DEF IndexInv, NothingAhead
  <2>2. ASSUME NEW g \in Rebuilders, Merge(g) PROVE version' >= version
    BY <2>1, <2>2 DEF Merge, RecordedVersion
  <2>3. CASE Arrive
    BY <2>1, <2>3 DEF Arrive, rebuildVars, indexVars
  <2>4. ASSUME NEW g \in Rebuilders,
               TakeSnapshot(g) \/ Build(g) \/ ReadDelta(g) \/ Return(g)
        PROVE  version' >= version
    BY <2>1, <2>4 DEF TakeSnapshot, Build, ReadDelta, Return, indexVars
  <2> QED BY <2>2, <2>3, <2>4 DEF RebuildNext, RebuildStep, GoOn
<1> QED BY <1>1, IndexInvHolds, PTL DEF RebuildSpec, VersionNeverDecreases

(* Rebuild keeps the types of the index and of its own locals; the number  *)
(* of its calls is the bound of the model (rebuild.go:13-84).              *)
THEOREM IndexTypeCorrect == RebuildSpec => []RebuildTypeOK
<1> DEFINE Counters == /\ reported \in [Rebuilders -> Nat]
                       /\ rounds \in [Rebuilders -> 0 .. MaxRounds]
<1>1. RebuildInit => Counters
  BY MaxRoundsAssumption DEF RebuildInit
<1>2. IndexInv /\ Counters /\ [RebuildNext]_allVars => Counters'
  <2> SUFFICES ASSUME IndexInv, Counters, [RebuildNext]_allVars PROVE Counters'
    OBVIOUS
  <2>1. ASSUME NEW g \in Rebuilders, TakeSnapshot(g) PROVE Counters'
    <3>1. rounds[g] + 1 \in 0 .. MaxRounds
      BY <2>1, MaxRoundsAssumption DEF TakeSnapshot
    <3> QED BY <2>1, <3>1 DEF TakeSnapshot
  <2>2. ASSUME NEW g \in Rebuilders, Return(g) PROVE Counters'
    <3>1. version \in Nat
      BY PacketsTyped DEF IndexInv, NothingAhead
    <3> QED BY <2>2, <3>1 DEF Return
  <2>3. ASSUME NEW g \in Rebuilders, Build(g) \/ ReadDelta(g) \/ Merge(g) PROVE Counters'
    BY <2>3 DEF Build, ReadDelta, Merge
  <2>4. CASE Arrive \/ UNCHANGED allVars
    BY <2>4 DEF Arrive, rebuildVars, allVars
  <2> QED BY <2>1, <2>2, <2>3, <2>4 DEF RebuildNext, RebuildStep, GoOn
<1>3. IndexInv /\ Counters => RebuildTypeOK
  <2> SUFFICES ASSUME IndexInv, Counters PROVE RebuildTypeOK
    OBVIOUS
  <2>1. version \in Nat /\ resetAt \in Nat
    BY PacketsTyped DEF IndexInv, NothingAhead
  <2>2. indexed \subseteq {pkt.id : pkt \in Offered}
    BY PacketsTyped DEF IndexInv, NothingAhead, StoredIDs
  <2> QED BY <2>1, <2>2 DEF IndexInv, IndexTypes, RebuildTypeOK
<1> HIDE DEF Counters
<1>4. (IndexInv /\ Counters) /\ [RebuildNext]_allVars => Counters'
  BY <1>2
<1>5. RebuildSpec => []Counters
  BY <1>1, <1>4, IndexInvHolds, PTL DEF RebuildSpec
<1> QED BY <1>3, <1>5, IndexInvHolds, PTL

-----------------------------------------------------------------------------
(* The maps of the index and the searches on them (module Search)          *)

(* The IDs there can be *)
IDs == {pkt.id : pkt \in Offered}

(* Maps of the shape the index has *)
Maps == [stream : [Streams -> Seq(IDs)],
         proto  : [Protos -> Seq(IDs)],
         port   : [Ports -> Seq(IDs)]]

(* The list has the IDs of that set, each once. *)
Lists(ids, T) == Range(ids) = T /\ IsInjective(ids)

(* The maps hold the IDs of the set I, each under the stream, the protocol *)
(* and the port of the packet that b has for it.                           *)
Indexes(m, I, b) ==
    /\ m \in Maps
    /\ \A s \in Streams : Lists(m.stream[s], {id \in I : b[id].stream = s})
    /\ \A p \in Protos  : Lists(m.proto[p], {id \in I : Header[b[id].stream].proto = p})
    /\ \A p \in Ports   : Lists(m.port[p], {id \in I : Header[b[id].stream].dstport = p})

(* The inductive invariant *)
SearchInv == IndexInv /\ Indexes(maps, indexed, byID)

(* The lookup of the store, for an ID that is stored *)
LEMMA LookupOf ==
    ASSUME IndexInv
    PROVE  /\ DOMAIN byID = StoredIDs(Len(packets))
           /\ \A id \in DOMAIN byID : /\ byID[id] \in Offered
                                      /\ byID[id].id = id
                                      /\ byID[id].stream \in Streams
           /\ \A i \in 1 .. Len(packets) : /\ packets[i] \in Offered
                                           /\ packets[i].id \in DOMAIN byID
                                           /\ byID[packets[i].id] = packets[i]
           /\ indexed \subseteq DOMAIN byID
           /\ \A g \in Rebuilders : delta[g] \subseteq DOMAIN byID
<1>1. StoreInv
  BY DEF IndexInv
<1>2. /\ packets \in Seq(Offered) /\ Len(packets) \in Nat
      /\ DOMAIN packets = 1 .. Len(packets)
  BY <1>1, PacketsTyped
<1>3. DOMAIN byID = StoredIDs(Len(packets))
  BY <1>1, <1>2 DEF StoreInv, StoreTypeOK, StoredIDs
<1>4. \A i \in 1 .. Len(packets) : /\ packets[i] \in Offered
                                   /\ packets[i].id \in DOMAIN byID
                                   /\ byID[packets[i].id] = packets[i]
  BY <1>1, <1>2, <1>3 DEF StoreInv, IndexesAgree, LookupFaithful, StoredIDs
<1>5. \A id \in DOMAIN byID : byID[id] \in Offered /\ byID[id].id = id
  BY <1>3, <1>4 DEF StoredIDs
<1>6. indexed \subseteq DOMAIN byID /\ \A g \in Rebuilders : delta[g] \subseteq DOMAIN byID
  BY <1>3 DEF IndexInv, NothingAhead
<1> QED BY <1>3, <1>4, <1>5, <1>6, OfferedFields

(* What the loop over one list of IDs does *)
LEMMA ExtendLists ==
    ASSUME NEW ids \in Seq(IDs), NEW T, Lists(ids, T), NEW id \in IDs
    PROVE  Extend(ids, id) \in Seq(IDs) /\ Lists(Extend(ids, id), T \cup {id})
<1>1. CASE id \in Range(ids)
  BY <1>1 DEF Extend, Lists
<1>2. CASE id \notin Range(ids)
  <2>1. Extend(ids, id) = Append(ids, id)
    BY <1>2 DEF Extend
  <2> DEFINE r == Append(ids, id)
  <2>2. /\ r \in Seq(IDs) /\ Len(ids) \in Nat
        /\ DOMAIN ids = 1 .. Len(ids)
        /\ DOMAIN r = 1 .. Len(ids) + 1
        /\ \A i \in 1 .. Len(ids) : r[i] = ids[i]
        /\ r[Len(ids) + 1] = id
    OBVIOUS
  <2> HIDE DEF r
  <2>3. Range(r) = Range(ids) \cup {id}
    BY <2>2 DEF Range
  <2>4. IsInjective(r)
    BY <1>2, <2>2 DEF Lists, IsInjective, Range
  <2> QED BY <2>1, <2>2, <2>3, <2>4 DEF Lists, r
<1> QED BY <1>1, <1>2

(* addLocked adds the ID of a packet to all three maps, and nothing else. *)
LEMMA AddIndexes ==
    ASSUME NEW m, NEW I, NEW b, Indexes(m, I, b), NEW pkt \in Offered, b[pkt.id] = pkt
    PROVE  Indexes(AddLocked(m, pkt), I \cup {pkt.id}, b)
<1> DEFINE id == pkt.id
           J == I \cup {id}
           r == AddLocked(m, pkt)
           h == Header[pkt.stream]
<1>1. pkt.stream \in Streams /\ h.proto \in Protos /\ h.dstport \in Ports
  BY OfferedFields, HeaderAssumption
<1>2. m \in Maps /\ id \in IDs
  BY DEF Indexes, IDs
<1>3. /\ r.stream = [m.stream EXCEPT ![pkt.stream] = Extend(@, id)]
      /\ r.proto = [m.proto EXCEPT ![h.proto] = Extend(@, id)]
      /\ r.port = [m.port EXCEPT ![h.dstport] = Extend(@, id)]
      /\ r = [stream |-> r.stream, proto |-> r.proto, port |-> r.port]
  BY DEF AddLocked
<1>4. /\ DOMAIN m.stream = Streams /\ DOMAIN m.proto = Protos /\ DOMAIN m.port = Ports
      /\ \A s \in Streams : m.stream[s] \in Seq(IDs)
      /\ \A p \in Protos : m.proto[p] \in Seq(IDs)
      /\ \A p \in Ports : m.port[p] \in Seq(IDs)
  BY <1>2 DEF Maps
<1>5. b[id].stream = pkt.stream
  OBVIOUS
<1> HIDE DEF id, h, r
<1>6. ASSUME NEW s \in Streams
      PROVE  r.stream[s] \in Seq(IDs) /\ Lists(r.stream[s], {x \in J : b[x].stream = s})
  <2> DEFINE T == {x \in I : b[x].stream = s}
  <2>1. Lists(m.stream[s], T)
    BY DEF Indexes
  <2>2. CASE s = pkt.stream
    <3>1. r.stream[s] = Extend(m.stream[s], id)
      BY <1>1, <1>3, <1>4, <2>2
    <3>2. {x \in J : b[x].stream = s} = T \cup {id}
      BY <1>5, <2>2
    <3> HIDE DEF T, J
    <3> QED BY <1>2, <1>4, <2>1, <3>1, <3>2, ExtendLists
  <2>3. CASE s # pkt.stream
    <3>1. r.stream[s] = m.stream[s]
      BY <1>1, <1>3, <1>4, <2>3
    <3>2. {x \in J : b[x].stream = s} = T
      BY <1>5, <2>3
    <3> HIDE DEF T, J
    <3> QED BY <1>4, <2>1, <3>1, <3>2
  <2> QED BY <2>2, <2>3
<1>7. ASSUME NEW p \in Protos
      PROVE  /\ r.proto[p] \in Seq(IDs)
             /\ Lists(r.proto[p], {x \in J : Header[b[x].stream].proto = p})
  <2> DEFINE T == {x \in I : Header[b[x].stream].proto = p}
  <2>1. Lists(m.proto[p], T)
    BY DEF Indexes
  <2>2. CASE p = h.proto
    <3>1. r.proto[p] = Extend(m.proto[p], id)
      BY <1>1, <1>3, <1>4, <2>2
    <3>2. {x \in J : Header[b[x].stream].proto = p} = T \cup {id}
      BY <1>5, <2>2 DEF h
    <3> HIDE DEF T, J
    <3> QED BY <1>2, <1>4, <2>1, <3>1, <3>2, ExtendLists
  <2>3. CASE p # h.proto
    <3>1. r.proto[p] = m.proto[p]
      BY <1>1, <1>3, <1>4, <2>3
    <3>2. {x \in J : Header[b[x].stream].proto = p} = T
      BY <1>5, <2>3 DEF h
    <3> HIDE DEF T, J
    <3> QED BY <1>4, <2>1, <3>1, <3>2
  <2> QED BY <2>2, <2>3
<1>8. ASSUME NEW p \in Ports
      PROVE  /\ r.port[p] \in Seq(IDs)
             /\ Lists(r.port[p], {x \in J : Header[b[x].stream].dstport = p})
  <2> DEFINE T == {x \in I : Header[b[x].stream].dstport = p}
  <2>1. Lists(m.port[p], T)
    BY DEF Indexes
  <2>2. CASE p = h.dstport
    <3>1. r.port[p] = Extend(m.port[p], id)
      BY <1>1, <1>3, <1>4, <2>2
    <3>2. {x \in J : Header[b[x].stream].dstport = p} = T \cup {id}
      BY <1>5, <2>2 DEF h
    <3>3. m.port[p] \in Seq(IDs)
      BY <1>4
    <3> HIDE DEF T, J
    <3> QED BY <1>2, <2>1, <3>1, <3>2, <3>3, ExtendLists
  <2>3. CASE p # h.dstport
    <3>1. r.port[p] = m.port[p]
      BY <1>1, <1>3, <1>4, <2>3
    <3>2. {x \in J : Header[b[x].stream].dstport = p} = T
      BY <1>5, <2>3 DEF h
    <3> HIDE DEF T, J
    <3> QED BY <1>4, <2>1, <3>1, <3>2
  <2> QED BY <2>2, <2>3
<1>9. r \in Maps
  <2>1. r.stream \in [Streams -> Seq(IDs)]
    BY <1>3, <1>4, <1>6
  <2>2. r.proto \in [Protos -> Seq(IDs)]
    BY <1>3, <1>4, <1>7
  <2>3. r.port \in [Ports -> Seq(IDs)]
    BY <1>3, <1>4, <1>8
  <2> QED BY <1>3, <2>1, <2>2, <2>3 DEF Maps
<1>10. Indexes(r, J, b)
  <2> HIDE DEF J
  <2> QED BY <1>6, <1>7, <1>8, <1>9 DEF Indexes
<1> QED BY <1>10 DEF r, id

(* An index that is reset holds nothing. *)
LEMMA EmptyIndexes ==
    ASSUME NEW b
    PROVE  Indexes(EmptyMaps, {}, b)
BY DEF EmptyMaps, Indexes, Maps, Lists, Range, IsInjective

(* What is in no stream list is in no map. *)
LEMMA ContainsIndexed ==
    ASSUME NEW m, NEW I, NEW b, Indexes(m, I, b),
           \A x \in I : b[x].stream \in Streams, NEW id
    PROVE  ContainsIDLocked(m, id) <=> id \in I
BY DEF ContainsIDLocked, Indexes, Lists

-----------------------------------------------------------------------------
(* The loops of Rebuild *)

(* The function that the fold over a snapshot chooses *)
IsBuild(f, q, n) ==
    f = [s \in SUBSET (1 .. n) |->
           IF s = {} THEN EmptyMaps ELSE AddFound(f[s \ {Max(s)}], q[Max(s)])]

(* After a reset, the loop over a snapshot indexes the IDs in it that the  *)
(* lookup finds.                                                           *)
LEMMA BuildIndexes ==
    ASSUME IndexInv, NEW g \in Rebuilders
    PROVE  Indexes(BuildMaps(g), Range(snap[g].ids) \cap DOMAIN byID, byID)
<1> DEFINE q == snap[g].ids
           n == Len(q)
           found(k) == {q[j] : j \in 1 .. k} \cap DOMAIN byID
           D == {m \in Maps : \E I \in SUBSET DOMAIN byID : Indexes(m, I, byID)}
           G == [x \in (1 .. n) \X D |-> AddFound(x[2], q[x[1]])]
           iter == CHOOSE f : IsBuild(f, q, n)
           W == [k \in 0 .. n |-> {m \in Maps : Indexes(m, found(k), byID)}]
<1>1. n \in Nat /\ DOMAIN q = 1 .. n
  BY DEF IndexInv, IndexTypes
<1>2. ASSUME NEW m, NEW I \in SUBSET DOMAIN byID, Indexes(m, I, byID), NEW id
      PROVE  Indexes(AddFound(m, id), I \cup ({id} \cap DOMAIN byID), byID)
  <2>1. CASE id \in DOMAIN byID
    <3>1. Indexes(AddLocked(m, byID[id]), I \cup {byID[id].id}, byID)
      BY <1>2, <2>1, LookupOf, AddIndexes
    <3>2. byID[id].id = id /\ I \cup ({id} \cap DOMAIN byID) = I \cup {id}
      BY <2>1, LookupOf
    <3> QED BY <2>1, <3>1, <3>2 DEF AddFound
  <2>2. CASE id \notin DOMAIN byID
    <3>1. I \cup ({id} \cap DOMAIN byID) = I
      BY <2>2
    <3> QED BY <1>2, <2>2, <3>1 DEF AddFound
  <2> QED BY <2>1, <2>2
<1>3. EmptyMaps \in D
  BY EmptyIndexes DEF Indexes
<1>4. ASSUME NEW m \in D, NEW id PROVE AddFound(m, id) \in D
  <2>1. PICK I \in SUBSET DOMAIN byID : Indexes(m, I, byID)
    OBVIOUS
  <2>2. Indexes(AddFound(m, id), I \cup ({id} \cap DOMAIN byID), byID)
    BY <1>2, <2>1
  <2> QED BY <2>2 DEF Indexes
<1> HIDE DEF n, D
<1>5. \E f : IsBuild(f, q, n)
  <2>1. G \in [(1 .. n) \X D -> D]
    BY <1>4
  <2>2. PICK f \in [SUBSET (1 .. n) -> D] : IsFold(f, n, EmptyMaps, G)
    <3> HIDE DEF G
    <3> QED BY <1>1, <1>3, <2>1, FoldExists
  <2>3. ASSUME NEW s \in SUBSET (1 .. n), s # {}
        PROVE  G[<<Max(s), f[s \ {Max(s)}]>>] = AddFound(f[s \ {Max(s)}], q[Max(s)])
    <3>1. Max(s) \in 1 .. n
      <4>1. s \subseteq 0 .. n
        OBVIOUS
      <4> QED BY <1>1, <2>3, <4>1, MaxOfSubset
    <3>2. f[s \ {Max(s)}] \in D
      OBVIOUS
    <3> QED BY <3>1, <3>2
  <2> HIDE DEF G, q
  <2>4. IsBuild(f, q, n)
    BY <2>2, <2>3 DEF IsFold, IsBuild
  <2> QED BY <2>4
<1>6. IsBuild(iter, q, n)
  BY <1>5, Zenon
<1> HIDE DEF iter
<1>7. BuildMaps(g) = iter[1 .. n]
  BY <1>1 DEF BuildMaps, FoldLeft, MapThenFoldSet, IsBuild, iter
<1>8. iter[{}] \in W[0]
  <2>1. iter[{}] = EmptyMaps
    BY <1>6 DEF IsBuild
  <2>2. found(0) = {}
    OBVIOUS
  <2>3. EmptyMaps \in Maps /\ Indexes(EmptyMaps, {}, byID)
    BY EmptyIndexes DEF Indexes
  <2>4. W[0] = {m \in Maps : Indexes(m, found(0), byID)}
    BY <1>1
  <2> HIDE DEF W, found
  <2> QED BY <2>1, <2>2, <2>3, <2>4
<1>9. ASSUME NEW k \in 1 .. n, iter[1 .. k - 1] \in W[k - 1]
      PROVE  iter[1 .. k] \in W[k]
  <2>1. iter[1 .. k] = AddFound(iter[1 .. k - 1], q[k])
    <3>1. /\ 1 .. k \in SUBSET (1 .. n) /\ 1 .. k # {}
          /\ Max(1 .. k) = k /\ (1 .. k) \ {k} = 1 .. k - 1
      BY <1>1, FirstPositions
    <3> HIDE DEF q
    <3>2. iter[1 .. k] = AddFound(iter[(1 .. k) \ {Max(1 .. k)}], q[Max(1 .. k)])
      BY <1>6, <3>1 DEF IsBuild
    <3> QED BY <3>1, <3>2
  <2>2. Indexes(iter[1 .. k - 1], found(k - 1), byID)
    BY <1>1, <1>9
  <2>3. found(k) = found(k - 1) \cup ({q[k]} \cap DOMAIN byID)
    BY <1>1
  <2>4. Indexes(iter[1 .. k], found(k), byID)
    <3> HIDE DEF found, q
    <3>1. found(k - 1) \in SUBSET DOMAIN byID
      BY DEF found
    <3> QED BY <1>2, <2>1, <2>2, <2>3, <3>1
  <2>5. iter[1 .. k] \in Maps
    BY <2>4 DEF Indexes
  <2>6. W[k] = {m \in Maps : Indexes(m, found(k), byID)}
    BY <1>1
  <2> HIDE DEF W, found
  <2> QED BY <2>4, <2>5, <2>6
<1>10. iter[1 .. n] \in W[n]
  <2> HIDE DEF W
  <2> QED BY <1>1, <1>8, <1>9, FoldInduction
<1>11. Indexes(iter[1 .. n], found(n), byID)
  BY <1>1, <1>10
<1>12. found(n) = Range(q) \cap DOMAIN byID
  BY <1>1 DEF Range
<1> QED BY <1>7, <1>11, <1>12

(* The function that the fold over a delta chooses *)
IsMerge(f, g, n) ==
    f = [s \in SUBSET (1 .. n) |->
           IF s = {} THEN maps ELSE AddMissing(g, f[s \ {Max(s)}], packets[Max(s)])]

(* The loop over a delta indexes its IDs beside those indexed already. *)
LEMMA MergeIndexes ==
    ASSUME SearchInv, NEW g \in Rebuilders
    PROVE  Indexes(MergeMaps(g), indexed \cup delta[g], byID)
<1> DEFINE n == Len(packets)
           new(k) == indexed \cup ({packets[j].id : j \in 1 .. k} \cap delta[g])
           D == {m \in Maps : \E I \in SUBSET DOMAIN byID : Indexes(m, I, byID)}
           G == [x \in (1 .. n) \X D |-> AddMissing(g, x[2], packets[x[1]])]
           iter == CHOOSE f : IsMerge(f, g, n)
           W == [k \in 0 .. n |-> {m \in Maps : Indexes(m, new(k), byID)}]
<1>0. IndexInv /\ Indexes(maps, indexed, byID)
  BY DEF SearchInv
<1>1. n \in Nat /\ DOMAIN packets = 1 .. n
  BY <1>0, PacketsTyped DEF IndexInv
<1>2. ASSUME NEW m, NEW I \in SUBSET DOMAIN byID, Indexes(m, I, byID), NEW k \in 1 .. n
      PROVE  Indexes(AddMissing(g, m, packets[k]), I \cup ({packets[k].id} \cap delta[g]), byID)
  <2> DEFINE pkt == packets[k]
  <2>1. pkt \in Offered /\ byID[pkt.id] = pkt /\ \A x \in I : byID[x].stream \in Streams
    BY <1>0, LookupOf
  <2>2. ContainsIDLocked(m, pkt.id) <=> pkt.id \in I
    BY <1>2, <2>1, ContainsIndexed
  <2> HIDE DEF pkt
  <2>3. CASE pkt.id \in delta[g] /\ pkt.id \notin I
    <3>1. Indexes(AddLocked(m, pkt), I \cup {pkt.id}, byID)
      BY <1>2, <2>1, AddIndexes
    <3>2. I \cup ({pkt.id} \cap delta[g]) = I \cup {pkt.id}
      BY <2>3
    <3>3. AddMissing(g, m, pkt) = AddLocked(m, pkt)
      BY <2>2, <2>3 DEF AddMissing
    <3> QED BY <3>1, <3>2, <3>3 DEF pkt
  <2>4. CASE pkt.id \notin delta[g] \/ pkt.id \in I
    <3>1. I \cup ({pkt.id} \cap delta[g]) = I
      BY <2>4
    <3>2. AddMissing(g, m, pkt) = m
      BY <2>2, <2>4 DEF AddMissing
    <3> QED BY <1>2, <3>1, <3>2 DEF pkt
  <2> QED BY <2>3, <2>4
<1>3. maps \in D
  BY <1>0, LookupOf DEF Indexes
<1>4. ASSUME NEW m \in D, NEW k \in 1 .. n PROVE AddMissing(g, m, packets[k]) \in D
  <2>1. PICK I \in SUBSET DOMAIN byID : Indexes(m, I, byID)
    OBVIOUS
  <2> DEFINE J == I \cup ({packets[k].id} \cap delta[g])
  <2>2. Indexes(AddMissing(g, m, packets[k]), J, byID)
    BY <1>2, <2>1
  <2>3. J \in SUBSET DOMAIN byID
    BY <1>0, LookupOf
  <2> HIDE DEF J
  <2> QED BY <2>2, <2>3 DEF Indexes
<1> HIDE DEF n, D
<1>5. \E f : IsMerge(f, g, n)
  <2>1. G \in [(1 .. n) \X D -> D]
    BY <1>4
  <2>2. PICK f \in [SUBSET (1 .. n) -> D] : IsFold(f, n, maps, G)
    <3> HIDE DEF G
    <3> QED BY <1>1, <1>3, <2>1, FoldExists
  <2>3. ASSUME NEW s \in SUBSET (1 .. n), s # {}
        PROVE  G[<<Max(s), f[s \ {Max(s)}]>>]
                 = AddMissing(g, f[s \ {Max(s)}], packets[Max(s)])
    <3>1. Max(s) \in 1 .. n
      <4>1. s \subseteq 0 .. n
        OBVIOUS
      <4> QED BY <1>1, <2>3, <4>1, MaxOfSubset
    <3>2. f[s \ {Max(s)}] \in D
      OBVIOUS
    <3> QED BY <3>1, <3>2
  <2> HIDE DEF G
  <2>4. IsMerge(f, g, n)
    BY <2>2, <2>3 DEF IsFold, IsMerge
  <2> QED BY <2>4
<1>6. IsMerge(iter, g, n)
  BY <1>5, Zenon
<1> HIDE DEF iter
<1>7. MergeMaps(g) = iter[1 .. n]
  BY <1>1 DEF MergeMaps, FoldLeft, MapThenFoldSet, IsMerge, iter
<1>8. iter[{}] \in W[0]
  <2>1. iter[{}] = maps
    BY <1>6 DEF IsMerge
  <2>2. new(0) = indexed
    OBVIOUS
  <2>3. maps \in Maps
    BY <1>0 DEF Indexes
  <2>4. W[0] = {m \in Maps : Indexes(m, new(0), byID)}
    BY <1>1
  <2> HIDE DEF W, new
  <2> QED BY <1>0, <2>1, <2>2, <2>3, <2>4
<1>9. ASSUME NEW k \in 1 .. n, iter[1 .. k - 1] \in W[k - 1]
      PROVE  iter[1 .. k] \in W[k]
  <2>1. iter[1 .. k] = AddMissing(g, iter[1 .. k - 1], packets[k])
    <3>1. /\ 1 .. k \in SUBSET (1 .. n) /\ 1 .. k # {}
          /\ Max(1 .. k) = k /\ (1 .. k) \ {k} = 1 .. k - 1
      BY <1>1, FirstPositions
    <3>2. iter[1 .. k] = AddMissing(g, iter[(1 .. k) \ {Max(1 .. k)}], packets[Max(1 .. k)])
      BY <1>6, <3>1 DEF IsMerge
    <3> QED BY <3>1, <3>2
  <2>2. Indexes(iter[1 .. k - 1], new(k - 1), byID)
    BY <1>1, <1>9
  <2>3. new(k) = new(k - 1) \cup ({packets[k].id} \cap delta[g])
    BY <1>1
  <2>4. Indexes(iter[1 .. k], new(k), byID)
    <3>1. new(k - 1) \in SUBSET DOMAIN byID
      BY <1>0, LookupOf
    <3> HIDE DEF new
    <3> QED BY <1>2, <2>1, <2>2, <2>3, <3>1
  <2>5. iter[1 .. k] \in Maps
    BY <2>4 DEF Indexes
  <2>6. W[k] = {m \in Maps : Indexes(m, new(k), byID)}
    BY <1>1
  <2> HIDE DEF W, new
  <2> QED BY <2>4, <2>5, <2>6
<1>10. iter[1 .. n] \in W[n]
  <2> HIDE DEF W
  <2> QED BY <1>1, <1>8, <1>9, FoldInduction
<1>11. Indexes(iter[1 .. n], new(n), byID)
  BY <1>1, <1>10
<1>12. new(n) = indexed \cup delta[g]
  <2>1. delta[g] \subseteq {packets[j].id : j \in 1 .. n}
    BY <1>0, LookupOf DEF StoredIDs, n
  <2> QED BY <2>1
<1> QED BY <1>7, <1>11, <1>12

(* The empty maps index the empty store. *)
LEMMA SearchInvInit == SearchInit => SearchInv
<1> SUFFICES ASSUME SearchInit PROVE SearchInv
  OBVIOUS
<1>1. IndexInv
  BY IndexInvInit DEF SearchInit
<1>2. indexed = {} /\ maps = EmptyMaps
  BY DEF SearchInit, RebuildInit
<1> QED BY <1>1, <1>2, EmptyIndexes DEF SearchInv

(* A Put that is accepted leaves the lookup of every other packet alone. *)
LEMMA ArriveKeepsLookup ==
    ASSUME IndexInv, Arrive
    PROVE  \A id \in DOMAIN byID : byID'[id] = byID[id]
<1>1. ASSUME NEW pkt \in Offered, Insert(pkt)
      PROVE  \A id \in DOMAIN byID : byID'[id] = byID[id]
  BY <1>1 DEF Insert, PutResult
<1> QED BY <1>1 DEF Arrive, StoreNext, StorePut, Refuse, storeVars

(* What is indexed stays so while the packets of the IDs do. *)
LEMMA IndexesKept ==
    ASSUME NEW m, NEW I, NEW b, NEW c, Indexes(m, I, b), \A id \in I : c[id] = b[id]
    PROVE  Indexes(m, I, c)
<1>1. /\ \A s : {id \in I : c[id].stream = s} = {id \in I : b[id].stream = s}
      /\ \A p : {id \in I : Header[c[id].stream].proto = p}
                  = {id \in I : Header[b[id].stream].proto = p}
      /\ \A p : {id \in I : Header[c[id].stream].dstport = p}
                  = {id \in I : Header[b[id].stream].dstport = p}
  OBVIOUS
<1> QED BY <1>1 DEF Indexes

(* Every step of the rebuilds keeps maps and indexed IDs together. *)
LEMMA SearchInvStep == SearchInv /\ [SearchNext]_searchVars => SearchInv'
<1> SUFFICES ASSUME SearchInv, [SearchNext]_searchVars PROVE SearchInv'
  OBVIOUS
<1>0. IndexInv /\ Indexes(maps, indexed, byID)
  BY DEF SearchInv
<1>1. [RebuildNext]_allVars
  BY DEF SearchNext, SearchRebuildStep, SearchGoOn, RebuildNext, RebuildStep, GoOn, searchVars
<1>2. IndexInv'
  BY <1>0, <1>1, IndexInvStep
<1>3. ASSUME NEW g \in Rebuilders, Build(g), maps' = BuildMaps(g)
      PROVE  Indexes(maps', indexed', byID')
  <2>1. indexed' = Range(snap[g].ids) \cap DOMAIN byID /\ byID' = byID
    BY <1>3 DEF Build, storeVars
  <2> QED BY <1>0, <1>3, <2>1, BuildIndexes
<1>4. ASSUME NEW g \in Rebuilders, Merge(g), maps' = MergeMaps(g)
      PROVE  Indexes(maps', indexed', byID')
  <2>1. indexed' = indexed \cup delta[g] /\ byID' = byID
    BY <1>4 DEF Merge, storeVars
  <2> QED BY <1>4, <2>1, MergeIndexes
<1>5. ASSUME NEW g \in Rebuilders, TakeSnapshot(g) \/ ReadDelta(g) \/ Return(g), UNCHANGED maps
      PROVE  Indexes(maps', indexed', byID')
  BY <1>0, <1>5 DEF TakeSnapshot, ReadDelta, Return, storeVars, indexVars
<1>6. ASSUME Arrive, UNCHANGED maps PROVE Indexes(maps', indexed', byID')
  <2>1. indexed' = indexed /\ indexed \subseteq DOMAIN byID
    BY <1>0, <1>6, LookupOf DEF Arrive, rebuildVars, indexVars
  <2>2. \A id \in indexed : byID'[id] = byID[id]
    BY <1>0, <1>6, <2>1, ArriveKeepsLookup
  <2> QED BY <1>0, <1>6, <2>1, <2>2, IndexesKept
<1>7. ASSUME UNCHANGED searchVars PROVE Indexes(maps', indexed', byID')
  BY <1>0, <1>7 DEF searchVars, allVars, storeVars, rebuildVars, indexVars
<1>8. Indexes(maps', indexed', byID')
  BY <1>3, <1>4, <1>5, <1>6, <1>7 DEF SearchNext, SearchRebuildStep, SearchGoOn
<1> QED BY <1>2, <1>8 DEF SearchInv

(* Every reachable state of rebuilds and maps satisfies it. *)
LEMMA SearchInvHolds == SearchSpec => []SearchInv
BY SearchInvInit, SearchInvStep, PTL DEF SearchSpec

-----------------------------------------------------------------------------
(* Search: the answer is what all conditions have in common. *)

Common(c) == {id \in c[1] : \A j \in DOMAIN c : id \in c[j]}

(* The function that the fold over the conditions chooses *)
IsNarrow(f, c, n) ==
    f = [s \in SUBSET (1 .. n) |->
           IF s = {} THEN [first |-> TRUE, candidates |-> {}]
           ELSE Narrow(f[s \ {Max(s)}], c[Max(s)])]

(* The closure `apply' of Search, called once for each condition, leaves   *)
(* what the conditions so far have in common.                              *)
LEMMA NarrowedIsCommon ==
    ASSUME NEW U, NEW c \in Seq(SUBSET U)
    PROVE  FoldLeft(Narrow, [first |-> TRUE, candidates |-> {}], c).candidates
             = IF c = << >> THEN {} ELSE Common(c)
<1> DEFINE n == Len(c)
           base == [first |-> TRUE, candidates |-> {}]
           after(k) == [first |-> FALSE,
                        candidates |-> {id \in c[1] : \A j \in 1 .. k : id \in c[j]}]
           D == [first : BOOLEAN, candidates : SUBSET U]
           G == [x \in (1 .. n) \X D |-> Narrow(x[2], c[x[1]])]
           iter == CHOOSE f : IsNarrow(f, c, n)
           W == [k \in 0 .. n |-> IF k = 0 THEN {base} ELSE {after(k)}]
<1>1. n \in Nat /\ DOMAIN c = 1 .. n /\ \A k \in 1 .. n : c[k] \in SUBSET U
  OBVIOUS
<1>2. base \in D
  OBVIOUS
<1>3. ASSUME NEW acc \in D, NEW T \in SUBSET U PROVE Narrow(acc, T) \in D
  BY DEF Narrow
<1> HIDE DEF n, D
<1>4. \E f : IsNarrow(f, c, n)
  <2>1. G \in [(1 .. n) \X D -> D]
    BY <1>1, <1>3
  <2>2. PICK f \in [SUBSET (1 .. n) -> D] : IsFold(f, n, base, G)
    <3> HIDE DEF G
    <3> QED BY <1>1, <1>2, <2>1, FoldExists
  <2>3. ASSUME NEW s \in SUBSET (1 .. n), s # {}
        PROVE  G[<<Max(s), f[s \ {Max(s)}]>>] = Narrow(f[s \ {Max(s)}], c[Max(s)])
    <3>1. Max(s) \in 1 .. n
      <4>1. s \subseteq 0 .. n
        OBVIOUS
      <4> QED BY <1>1, <2>3, <4>1, MaxOfSubset
    <3>2. f[s \ {Max(s)}] \in D
      OBVIOUS
    <3> QED BY <3>1, <3>2
  <2> HIDE DEF G
  <2>4. IsNarrow(f, c, n)
    BY <2>2, <2>3 DEF IsFold, IsNarrow
  <2> QED BY <2>4
<1>5. IsNarrow(iter, c, n)
  BY <1>4, Zenon
<1> HIDE DEF iter
<1>6. FoldLeft(Narrow, base, c) = iter[1 .. n]
  BY <1>1 DEF FoldLeft, MapThenFoldSet, IsNarrow, iter
<1>7. iter[{}] \in W[0]
  <2>1. iter[{}] = base
    BY <1>5 DEF IsNarrow
  <2>2. W[0] = {base}
    BY <1>1
  <2> HIDE DEF W, base
  <2> QED BY <2>1, <2>2
<1>8. ASSUME NEW k \in 1 .. n, iter[1 .. k - 1] \in W[k - 1]
      PROVE  iter[1 .. k] \in W[k]
  <2>1. iter[1 .. k] = Narrow(iter[1 .. k - 1], c[k])
    <3>1. /\ 1 .. k \in SUBSET (1 .. n) /\ 1 .. k # {}
          /\ Max(1 .. k) = k /\ (1 .. k) \ {k} = 1 .. k - 1
      BY <1>1, FirstPositions
    <3>2. iter[1 .. k] = Narrow(iter[(1 .. k) \ {Max(1 .. k)}], c[Max(1 .. k)])
      BY <1>5, <3>1 DEF IsNarrow
    <3> QED BY <3>1, <3>2
  <2>2. W[k] = {after(k)}
    BY <1>1
  <2>3. CASE k = 1
    <3>1. iter[1 .. k - 1] = base
      <4>1. W[k - 1] = {base}
        BY <1>1, <2>3
      <4> HIDE DEF W, base
      <4> QED BY <1>8, <4>1
    <3>2. c[1] = {id \in c[1] : \A j \in 1 .. 1 : id \in c[j]}
      OBVIOUS
    <3>3. iter[1 .. k] = [first |-> FALSE, candidates |-> c[1]]
      BY <2>1, <2>3, <3>1 DEF Narrow, IsFirstCondition
    <3> QED BY <2>2, <2>3, <3>2, <3>3
  <2>4. CASE k # 1
    <3>1. iter[1 .. k - 1] = after(k - 1)
      <4>1. k - 1 \in 0 .. n /\ k - 1 # 0
        BY <1>1, <2>4
      <4>2. W[k - 1] = {after(k - 1)}
        BY <4>1
      <4> HIDE DEF W, after
      <4> QED BY <1>8, <4>2
    <3>2. {id \in c[1] : \A j \in 1 .. k : id \in c[j]}
            = {id \in c[1] : \A j \in 1 .. k - 1 : id \in c[j]} \cap c[k]
      <4>1. \A j : j \in 1 .. k <=> (j \in 1 .. k - 1 \/ j = k)
        BY <1>1
      <4> QED BY <4>1
    <3>3. iter[1 .. k] = [first |-> FALSE,
                          candidates |-> {id \in c[1] : \A j \in 1 .. k - 1 : id \in c[j]}
                                           \cap c[k]]
      <4>1. /\ after(k - 1).first = FALSE
            /\ after(k - 1).candidates
                 = {id \in c[1] : \A j \in 1 .. k - 1 : id \in c[j]}
        OBVIOUS
      <4> HIDE DEF after
      <4> QED BY <2>1, <3>1, <4>1 DEF Narrow, IsFirstCondition
    <3> QED BY <2>2, <3>2, <3>3
  <2> QED BY <2>3, <2>4
<1>9. iter[1 .. n] \in W[n]
  <2> HIDE DEF W
  <2> QED BY <1>1, <1>7, <1>8, FoldInduction
<1>10. CASE n = 0
  <2>1. W[n] = {base}
    BY <1>10
  <2>2. iter[1 .. n] = base
    <3> HIDE DEF W, base
    <3> QED BY <1>9, <2>1
  <2>3. c = << >>
    BY <1>10 DEF n
  <2> QED BY <1>6, <2>2, <2>3
<1>11. CASE n # 0
  <2>1. iter[1 .. n] = after(n) /\ c # << >>
    BY <1>1, <1>9, <1>11 DEF n
  <2>2. after(n).candidates = Common(c)
    BY <1>1 DEF Common
  <2> HIDE DEF after, base
  <2> QED BY <1>6, <2>1, <2>2 DEF base
<1> QED BY <1>10, <1>11

(* The conditions of a query, as a set *)
ConditionSet(q) ==
    (IF q.stream = Unset THEN {} ELSE {Range(maps.stream[q.stream])})
    \cup (IF q.proto = Unset THEN {} ELSE {Range(maps.proto[q.proto])})
    \cup (IF q.port = 0 THEN {} ELSE {Range(maps.port[q.port])})
    \cup (IF q.text = Unset THEN {} ELSE {TextMatches(q.text)})

(* The list of conditions has those that are given. *)
LEMMA ConditionsListed ==
    ASSUME NEW q
    PROVE  /\ IsSeq(Conditions(q))
           /\ Range(Conditions(q)) = ConditionSet(q)
           /\ Conditions(q) = << >> <=> ConditionSet(q) = {}
<1> DEFINE a == IF q.stream = Unset THEN << >> ELSE << Range(maps.stream[q.stream]) >>
           b == IF q.proto = Unset THEN << >> ELSE << Range(maps.proto[q.proto]) >>
           c == IF q.port = 0 THEN << >> ELSE << Range(maps.port[q.port]) >>
           d == IF q.text = Unset THEN << >> ELSE << TextMatches(q.text) >>
<1>1. /\ IsSeq(a)
      /\ Range(a) = IF q.stream = Unset THEN {} ELSE {Range(maps.stream[q.stream])}
  BY EmptyIsSeq, SingleIsSeq
<1>2. /\ IsSeq(b)
      /\ Range(b) = IF q.proto = Unset THEN {} ELSE {Range(maps.proto[q.proto])}
  BY EmptyIsSeq, SingleIsSeq
<1>3. /\ IsSeq(c)
      /\ Range(c) = IF q.port = 0 THEN {} ELSE {Range(maps.port[q.port])}
  BY EmptyIsSeq, SingleIsSeq
<1>4. /\ IsSeq(d)
      /\ Range(d) = IF q.text = Unset THEN {} ELSE {TextMatches(q.text)}
  BY EmptyIsSeq, SingleIsSeq
<1>5. Conditions(q) = a \o b \o c \o d
  BY DEF Conditions
<1> HIDE DEF a, b, c, d
<1>6. IsSeq(a \o b) /\ Range(a \o b) = Range(a) \cup Range(b)
  BY <1>1, <1>2, ConcatIsSeq
<1>7. IsSeq(a \o b \o c) /\ Range(a \o b \o c) = Range(a \o b) \cup Range(c)
  BY <1>3, <1>6, ConcatIsSeq
<1>8. IsSeq(a \o b \o c \o d) /\ Range(a \o b \o c \o d) = Range(a \o b \o c) \cup Range(d)
  BY <1>4, <1>7, ConcatIsSeq
<1>9. IsSeq(Conditions(q)) /\ Range(Conditions(q)) = ConditionSet(q)
  BY <1>1, <1>2, <1>3, <1>4, <1>5, <1>6, <1>7, <1>8 DEF ConditionSet
<1>10. Conditions(q) = << >> <=> Range(Conditions(q)) = {}
  <2> DEFINE r == Conditions(q)
  <2>1. r \in Seq(Range(r)) /\ DOMAIN r = 1 .. Len(r) /\ Len(r) \in Nat
    BY <1>9 DEF IsSeq
  <2> HIDE DEF r
  <2>2. r = << >> <=> 1 \notin DOMAIN r
    BY <2>1
  <2>3. 1 \notin DOMAIN r <=> DOMAIN r = {}
    BY <2>1
  <2> QED BY <2>2, <2>3 DEF Range, r
<1> QED BY <1>9, <1>10

(* What a search finds: the IDs that are in every condition *)
LEMMA SearchFinds ==
    ASSUME NEW q, ConditionSet(q) # {}
    PROVE  \A id : id \in SearchIDs(q) <=> \A T \in ConditionSet(q) : id \in T
<1> DEFINE c == Conditions(q)
<1>1. IsSeq(c) /\ Range(c) = ConditionSet(q) /\ c # << >>
  BY ConditionsListed
<1>2. SearchIDs(q) = Common(c)
  <2> DEFINE U == UNION Range(c)
  <2>1. c \in Seq(SUBSET U)
    <3>1. Range(c) \subseteq SUBSET U
      OBVIOUS
    <3> HIDE DEF U, c
    <3> QED BY <1>1, <3>1, SeqMonotonic DEF IsSeq
  <2> HIDE DEF U
  <2> QED BY <1>1, <2>1, NarrowedIsCommon DEF SearchIDs
<1> HIDE DEF c
<1>3. 1 \in DOMAIN c
  BY <1>1 DEF IsSeq
<1>4. \A id : id \in Common(c) <=> \A T \in Range(c) : id \in T
  BY <1>3 DEF Common, Range
<1> QED BY <1>1, <1>2, <1>4

(* Without a condition a search finds nothing. *)
LEMMA NothingSearched ==
    ASSUME NEW q, ConditionSet(q) = {}
    PROVE  SearchIDs(q) = {}
<1>1. Conditions(q) = << >>
  BY ConditionsListed
<1>2. << >> \in Seq(SUBSET {})
  OBVIOUS
<1> QED BY <1>1, <1>2, NarrowedIsCommon DEF SearchIDs

(* The answer to a query with a condition, one condition after the other *)
LEMMA SearchAnswers ==
    ASSUME SearchInv, NEW q \in Query, ConditionSet(q) # {}
    PROVE  SearchIDs(q) = {id \in indexed : Satisfies(q, byID[id])}
<1>0. /\ \A s \in Streams : Range(maps.stream[s]) = {id \in indexed : byID[id].stream = s}
      /\ \A p \in Protos  : Range(maps.proto[p])
                              = {id \in indexed : Header[byID[id].stream].proto = p}
      /\ \A p \in Ports   : Range(maps.port[p])
                              = {id \in indexed : Header[byID[id].stream].dstport = p}
  BY DEF SearchInv, Indexes, Lists
<1>1. /\ q.stream \in Streams \cup {Unset} /\ q.proto \in Protos \cup {Unset}
      /\ q.port \in Ports \cup {0} /\ q.text \in DOMAIN Keyword \cup {Unset}
  BY DEF Query
<1>2. ASSUME NEW id
      PROVE  /\ q.stream # Unset =>
                  (id \in Range(maps.stream[q.stream])
                     <=> id \in indexed /\ byID[id].stream = q.stream)
             /\ q.proto # Unset =>
                  (id \in Range(maps.proto[q.proto])
                     <=> id \in indexed /\ Header[byID[id].stream].proto = q.proto)
             /\ q.port # 0 =>
                  (id \in Range(maps.port[q.port])
                     <=> id \in indexed /\ Header[byID[id].stream].dstport = q.port)
  BY <1>0, <1>1
<1>3. ASSUME NEW id, q.text # Unset
      PROVE  id \in TextMatches(q.text)
               <=> id \in indexed /\ byID[id].stream \in Keyword[q.text]
  <2>1. Keyword[q.text] \subseteq Streams
    BY <1>1, <1>3, HeaderAssumption
  <2> QED BY <1>0, <2>1 DEF TextMatches
<1>4. ASSUME NEW id
      PROVE  (\A T \in ConditionSet(q) : id \in T)
               <=> /\ q.stream # Unset => id \in Range(maps.stream[q.stream])
                   /\ q.proto # Unset => id \in Range(maps.proto[q.proto])
                   /\ q.port # 0 => id \in Range(maps.port[q.port])
                   /\ q.text # Unset => id \in TextMatches(q.text)
  BY DEF ConditionSet
<1>5. q.stream # Unset \/ q.proto # Unset \/ q.port # 0 \/ q.text # Unset
  BY DEF ConditionSet
<1>6. ASSUME NEW id
      PROVE  (\A T \in ConditionSet(q) : id \in T)
               <=> id \in indexed /\ Satisfies(q, byID[id])
  <2>1. Satisfies(q, byID[id])
          <=> /\ q.stream # Unset => byID[id].stream = q.stream
              /\ q.proto # Unset => Header[byID[id].stream].proto = q.proto
              /\ q.port # 0 => Header[byID[id].stream].dstport = q.port
              /\ q.text # Unset => byID[id].stream \in Keyword[q.text]
    BY DEF Satisfies
  <2> QED BY <1>2, <1>3, <1>4, <1>5, <2>1
<1> QED BY <1>6, SearchFinds

(* At every moment of any number of rebuilds, a search finds the indexed   *)
(* packets that satisfy all its conditions, and no list of the index has   *)
(* an ID twice (index.go:60-117, rebuild.go:29-50).                        *)
THEOREM SearchStaysExact == SearchSpec => []SearchIsExact
<1>1. ASSUME SearchInv PROVE SearchIsExact
  <2>1. ASSUME NEW q \in Query
        PROVE  SearchIDs(q) = IF Conditions(q) = << >> THEN {}
                              ELSE {id \in indexed : Satisfies(q, byID[id])}
    <3>1. CASE ConditionSet(q) = {}
      BY <3>1, ConditionsListed, NothingSearched
    <3>2. CASE ConditionSet(q) # {}
      BY <1>1, <3>2, ConditionsListed, SearchAnswers
    <3> QED BY <3>1, <3>2
  <2> QED BY <1>1, <2>1 DEF SearchIsExact, SearchInv, Indexes, Lists
<1> QED BY <1>1, SearchInvHolds, PTL

-----------------------------------------------------------------------------
(* The filter *)

(* The function that the fold over the packets chooses *)
IsApply(f, rules, q, n) ==
    f = [s \in SUBSET (1 .. n) |->
           IF s = {} THEN << >>
           ELSE IF Match(rules, q[Max(s)]) THEN Append(f[s \ {Max(s)}], q[Max(s)])
                                           ELSE f[s \ {Max(s)}]]

(* Apply keeps the packets that match. *)
LEMMA ApplyKeepsMatches ==
    ASSUME NEW S, NEW q \in Seq(S), NEW rules
    PROVE  Range(Apply(rules, q)) = {pkt \in Range(q) : Match(rules, pkt)}
<1> DEFINE n == Len(q)
           step(out, pkt) == IF Match(rules, pkt) THEN Append(out, pkt) ELSE out
           kept(k) == {pkt \in {q[j] : j \in 1 .. k} : Match(rules, pkt)}
           D == Seq(S)
           G == [x \in (1 .. n) \X D |-> step(x[2], q[x[1]])]
           iter == CHOOSE f : IsApply(f, rules, q, n)
           W == [k \in 0 .. n |-> {out \in D : Range(out) = kept(k)}]
<1>1. n \in Nat /\ DOMAIN q = 1 .. n /\ \A k \in 1 .. n : q[k] \in S
  OBVIOUS
<1>2. << >> \in D
  OBVIOUS
<1>3. ASSUME NEW out \in D, NEW pkt \in S
      PROVE  /\ step(out, pkt) \in D
             /\ Range(step(out, pkt))
                  = Range(out) \cup {x \in {pkt} : Match(rules, x)}
  <2>1. Append(out, pkt) \in D /\ Range(Append(out, pkt)) = Range(out) \cup {pkt}
    BY AppendIsSeq, SeqIsSeq
  <2> QED BY <2>1
<1> HIDE DEF n, D
<1>4. \E f : IsApply(f, rules, q, n)
  <2>1. G \in [(1 .. n) \X D -> D]
    <3> HIDE DEF step
    <3> QED BY <1>1, <1>3
  <2>2. PICK f \in [SUBSET (1 .. n) -> D] : IsFold(f, n, << >>, G)
    <3> HIDE DEF G
    <3> QED BY <1>1, <1>2, <2>1, FoldExists
  <2>3. ASSUME NEW s \in SUBSET (1 .. n), s # {}
        PROVE  G[<<Max(s), f[s \ {Max(s)}]>>] = step(f[s \ {Max(s)}], q[Max(s)])
    <3>1. Max(s) \in 1 .. n
      <4>1. s \subseteq 0 .. n
        OBVIOUS
      <4> QED BY <1>1, <2>3, <4>1, MaxOfSubset
    <3>2. f[s \ {Max(s)}] \in D
      OBVIOUS
    <3> HIDE DEF step
    <3> QED BY <3>1, <3>2
  <2> HIDE DEF G
  <2>4. IsApply(f, rules, q, n)
    BY <2>2, <2>3 DEF IsFold, IsApply
  <2> QED BY <2>4
<1>5. IsApply(iter, rules, q, n)
  BY <1>4, Zenon
<1> HIDE DEF iter
<1>6. Apply(rules, q) = iter[1 .. n]
  BY <1>1 DEF Apply, FoldLeft, MapThenFoldSet, IsApply, iter
<1>7. iter[{}] \in W[0]
  <2>1. iter[{}] = << >>
    BY <1>5 DEF IsApply
  <2>2. kept(0) = {} /\ Range(<< >>) = {}
    BY EmptyIsSeq
  <2>3. W[0] = {out \in D : Range(out) = kept(0)}
    BY <1>1
  <2> HIDE DEF W, kept
  <2> QED BY <1>2, <2>1, <2>2, <2>3
<1>8. ASSUME NEW k \in 1 .. n, iter[1 .. k - 1] \in W[k - 1]
      PROVE  iter[1 .. k] \in W[k]
  <2>1. iter[1 .. k] = step(iter[1 .. k - 1], q[k])
    <3>1. /\ 1 .. k \in SUBSET (1 .. n) /\ 1 .. k # {}
          /\ Max(1 .. k) = k /\ (1 .. k) \ {k} = 1 .. k - 1
      BY <1>1, FirstPositions
    <3>2. iter[1 .. k] = step(iter[(1 .. k) \ {Max(1 .. k)}], q[Max(1 .. k)])
      BY <1>5, <3>1 DEF IsApply
    <3> HIDE DEF step
    <3> QED BY <3>1, <3>2
  <2>2. iter[1 .. k - 1] \in D /\ Range(iter[1 .. k - 1]) = kept(k - 1)
    BY <1>1, <1>8
  <2>3. kept(k) = kept(k - 1) \cup {x \in {q[k]} : Match(rules, x)}
    <3>1. \A j : j \in 1 .. k <=> (j \in 1 .. k - 1 \/ j = k)
      BY <1>1
    <3> QED BY <3>1
  <2>4. W[k] = {out \in D : Range(out) = kept(k)}
    BY <1>1
  <2> HIDE DEF W, kept, step
  <2> QED BY <1>1, <1>3, <2>1, <2>2, <2>3, <2>4
<1>9. iter[1 .. n] \in W[n]
  <2> HIDE DEF W
  <2> QED BY <1>1, <1>7, <1>8, FoldInduction
<1>10. Range(iter[1 .. n]) = kept(n)
  BY <1>1, <1>9
<1>11. Range(q) = {q[j] : j \in 1 .. n}
  BY <1>1 DEF Range
<1> QED BY <1>6, <1>10, <1>11

(* The two rules of a range of ports and a protocol, as they are parsed *)
LEMMA RulesParse ==
    ASSUME NEW lo \in Ports, NEW hi \in Ports, lo <= hi, NEW p \in Protos, NEW pkt,
           Header[pkt.stream].dstport \in Ports
    PROVE  Match(<< PortRange(lo, hi),
                    ParseRule([field |-> "proto", op |-> "eq", args |-> <<p>>]) >>, pkt)
             <=> /\ Header[pkt.stream].dstport \in lo .. hi
                 /\ Header[pkt.stream].proto = p
<1> DEFINE a == PortRange(lo, hi)
           b == ParseRule([field |-> "proto", op |-> "eq", args |-> <<p>>])
<1>1. lo \in Nat \ {0} /\ hi \in Nat \ {0}
  BY HeaderAssumption DEF Ports
<1>2. a = [field |-> "dstport", op |-> "in", lo |-> lo, hi |-> hi, value |-> Unset]
  <2> DEFINE text == [field |-> "dstport", op |-> "in", args |-> <<lo, hi>>]
  <2>1. Len(text.args) = 2 /\ text.args # << >> /\ text.args[1] = lo /\ text.args[2] = hi
    OBVIOUS
  <2>2. Range(text.args) = {lo, hi}
    BY DEF Range
  <2>3. ParseRange(text)
          = [field |-> "dstport", op |-> "in", lo |-> lo, hi |-> hi, value |-> Unset]
    BY <1>1, <2>1, <2>2 DEF ParseRange
  <2>4. ValidRule(ParseRange(text))
    BY <2>3 DEF ValidRule, PortFields
  <2> QED BY <2>1, <2>3, <2>4 DEF PortRange, ParseRule
<1>3. b = [field |-> "proto", op |-> "eq", lo |-> 0, hi |-> 0, value |-> p]
  <2> DEFINE text == [field |-> "proto", op |-> "eq", args |-> <<p>>]
  <2>1. text.args # << >> /\ text.args[1] = p
    OBVIOUS
  <2>2. ParseEqual(text) = [field |-> "proto", op |-> "eq", lo |-> 0, hi |-> 0, value |-> p]
    BY <2>1 DEF ParseEqual
  <2>3. ValidRule(ParseEqual(text))
    BY <2>2 DEF ValidRule, ValueFields
  <2> QED BY <2>1, <2>2, <2>3 DEF ParseRule
<1> HIDE DEF a, b
<1>4. MatchRule(a, pkt) <=> Header[pkt.stream].dstport \in lo .. hi
  BY <1>1, <1>2, HeaderAssumption DEF MatchRule, PortFields, PortOf, InRange, Ports
<1>5. MatchRule(b, pkt) <=> Header[pkt.stream].proto = p
  BY <1>3 DEF MatchRule, PortFields
<1>6. Match(<<a, b>>, pkt) <=> MatchRule(a, pkt) /\ MatchRule(b, pkt)
  BY DEF Match
<1> QED BY <1>4, <1>5, <1>6 DEF a, b

(* Once all rebuilds have returned and nothing was stored since the last   *)
(* reset, the filter passes exactly the packets that the searches find     *)
(* (filter.go:44-67, index.go:74-106).                                     *)
THEOREM SearchAgreesWithFilter == SearchSpec => []SearchMatchesFilter
<1>1. ASSUME SearchInv PROVE SearchMatchesFilter
  <2> SUFFICES ASSUME \A g \in Rebuilders : at[g] = "idle", resetAt = Len(packets),
                      NEW lo \in Ports, NEW hi \in Ports, NEW p \in Protos, lo <= hi
               PROVE  Range(Apply(<< PortRange(lo, hi),
                                     ParseRule([field |-> "proto", op |-> "eq",
                                                args |-> <<p>>]) >>, packets))
                      = UNION {SearchPackets([stream |-> Unset, proto |-> p, port |-> port,
                                              text |-> Unset]) : port \in lo .. hi}
    BY DEF SearchMatchesFilter
  <2> DEFINE rules == << PortRange(lo, hi),
                         ParseRule([field |-> "proto", op |-> "eq", args |-> <<p>>]) >>
             q(port) == [stream |-> Unset, proto |-> p, port |-> port, text |-> Unset]
             passes(pkt) == /\ Header[pkt.stream].dstport \in lo .. hi
                            /\ Header[pkt.stream].proto = p
  <2>1. IndexInv
    BY <1>1 DEF SearchInv
  <2>2. packets \in Seq(Offered) /\ Len(packets) \in Nat /\ DOMAIN packets = 1 .. Len(packets)
    BY <2>1, PacketsTyped DEF IndexInv
  <2>3. indexed = DOMAIN byID
    <3>1. StoredIDs(resetAt) \subseteq indexed
      BY <2>1 DEF IndexInv, ResetIsCovered, StillToMerge
    <3> QED BY <2>1, <3>1, LookupOf
  <2>4. \A pkt \in Range(packets) :
           pkt \in Offered /\ pkt.id \in DOMAIN byID /\ byID[pkt.id] = pkt
    BY <2>1, <2>2, LookupOf DEF Range
  <2>5. Range(Apply(rules, packets)) = {pkt \in Range(packets) : passes(pkt)}
    <3>1. ASSUME NEW pkt \in Range(packets) PROVE Match(rules, pkt) <=> passes(pkt)
      <4>1. Header[pkt.stream].dstport \in Ports
        BY <2>4, OfferedFields, HeaderAssumption
      <4> QED BY <4>1, RulesParse
    <3> HIDE DEF rules, passes
    <3> QED BY <2>2, <3>1, ApplyKeepsMatches
  <2>6. ASSUME NEW port \in lo .. hi
        PROVE  SearchPackets(q(port))
                 = {pkt \in Range(packets) : /\ Header[pkt.stream].dstport = port
                                             /\ Header[pkt.stream].proto = p}
    <3>1. port \in Ports /\ port # 0
      BY HeaderAssumption DEF Ports
    <3>2. p # Unset
      BY HeaderAssumption
    <3>3. q(port) \in Query
      BY <3>1 DEF Query
    <3>4. ConditionSet(q(port)) # {}
      BY <3>1 DEF ConditionSet
    <3>5. SearchIDs(q(port)) = {id \in indexed : Satisfies(q(port), byID[id])}
      <4> HIDE DEF q
      <4> QED BY <1>1, <3>3, <3>4, SearchAnswers
    <3>6. \A pkt : Satisfies(q(port), pkt) <=> /\ Header[pkt.stream].dstport = port
                                              /\ Header[pkt.stream].proto = p
      BY <3>1, <3>2 DEF Satisfies
    <3>7. \A id \in DOMAIN byID : byID[id] \in Range(packets)
      <4>1. \A id \in DOMAIN byID : \E i \in 1 .. Len(packets) : id = packets[i].id
        BY <2>1, LookupOf DEF StoredIDs
      <4> QED BY <2>1, <2>2, <4>1, LookupOf DEF Range
    <3> HIDE DEF q
    <3> QED BY <2>3, <2>4, <3>5, <3>6, <3>7 DEF SearchPackets, Resolve
  <2>7. {pkt \in Range(packets) : passes(pkt)}
          = UNION {SearchPackets(q(port)) : port \in lo .. hi}
    <3> HIDE DEF q
    <3> QED BY <2>6
  <2> QED BY <2>5, <2>7
<1> QED BY <1>1, SearchInvHolds, PTL

=============================================================================
