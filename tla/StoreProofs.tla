----------------------------- MODULE StoreProofs -----------------------------
(***************************************************************************)
(* The invariants of the packet store, for every set of packets offered to *)
(* it and every chunk size, and the proof that it implements PacketLog.    *)
(***************************************************************************)
EXTENDS Store, SequenceLemmas, FiniteSetTheorems

(* The inductive invariant: every structure Put maintains, related to the  *)
(* sequence of stored packets.  Put decides on byID and chunks alone, so   *)
(* none of the conjuncts is inductive without the others.                  *)
StoreInv ==
    /\ StoreTypeOK
    /\ IndexesAgree
    /\ GenerationCountsPackets
    /\ ChunksFillUp

-----------------------------------------------------------------------------
(* The packet a step adds is a well-formed one. *)
LEMMA OfferedFields ==
    ASSUME NEW pkt \in Offered
    PROVE  pkt.stream \in Streams
BY OfferedAssumption DEF Packet

(* Put accepts a packet only when its ID occurs nowhere in the log. *)
LEMMA InsertIsNew ==
    ASSUME StoreInv, NEW pkt \in Offered, Insert(pkt)
    PROVE  \A i \in DOMAIN packets : packets[i].id # pkt.id
<1>1. pkt.id \notin DOMAIN byID
  BY DEF Insert, PutResult
<1>2. DOMAIN byID = {packets[i].id : i \in DOMAIN packets}
  BY DEF StoreInv, StoreTypeOK
<1> QED BY <1>1, <1>2

(* How a successful Put changes the log. *)
LEMMA InsertAppends ==
    ASSUME StoreInv, NEW pkt \in Offered, Insert(pkt)
    PROVE  /\ packets \in Seq(Offered)
           /\ packets' = Append(packets, pkt)
           /\ packets' \in Seq(Offered)
           /\ Len(packets) \in Nat
           /\ DOMAIN packets = 1 .. Len(packets)
           /\ Len(packets') = Len(packets) + 1
           /\ DOMAIN packets' = DOMAIN packets \cup {Len(packets) + 1}
           /\ packets'[Len(packets) + 1] = pkt
           /\ \A i \in DOMAIN packets : packets'[i] = packets[i]
           /\ Len(packets) + 1 \notin DOMAIN packets
BY DEF StoreInv, StoreTypeOK, Insert

-----------------------------------------------------------------------------
(* Preservation, one conjunct of StoreInv at a time. *)

(* Put keeps the types. *)
LEMMA InsertTypes ==
    ASSUME StoreInv, NEW pkt \in Offered, Insert(pkt)
    PROVE  StoreTypeOK'
<1> USE ChunkSizeAssumption
<1>1. packets' \in Seq(Offered)
  BY InsertAppends
<1>2. byID' \in [{packets'[i].id : i \in DOMAIN packets'} -> Offered]
  <2>1. DOMAIN byID = {packets[i].id : i \in DOMAIN packets}
    BY DEF StoreInv, StoreTypeOK
  <2>2. {packets'[i].id : i \in DOMAIN packets'}
          = {packets[i].id : i \in DOMAIN packets} \cup {pkt.id}
    BY InsertAppends
  <2>3. byID' \in [DOMAIN byID \cup {pkt.id} -> Offered]
    BY DEF Insert, StoreInv, StoreTypeOK
  <2> QED BY <2>1, <2>2, <2>3
<1>3. byStream' \in [Streams -> Seq({p.id : p \in Offered})]
  <2> DEFINE IDs == {p.id : p \in Offered}
  <2>1. byStream \in [Streams -> Seq(IDs)]
    BY DEF StoreInv, StoreTypeOK
  <2>2. pkt.id \in IDs
    OBVIOUS
  <2>3. byStream' = [byStream EXCEPT ![pkt.stream] = Append(@, pkt.id)]
    BY DEF Insert
  <2> HIDE DEF IDs
  <2>4. byStream' \in [Streams -> Seq(IDs)]
    BY <2>1, <2>2, <2>3, OfferedFields
  <2> QED BY <2>4 DEF IDs
<1>4. chunks' \in Seq(1 .. ChunkSize)
  <2>1. CASE chunks = << >>
    BY <2>1 DEF Insert, CountInChunk
  <2>2. CASE chunks # << >>
    <3>1. /\ chunks \in Seq(1 .. ChunkSize)
          /\ Len(chunks) \in DOMAIN chunks
          /\ chunks[Len(chunks)] \in 1 .. ChunkSize
      BY <2>2 DEF StoreInv, StoreTypeOK
    <3>2. CASE IsFull(chunks[Len(chunks)])
      BY <3>1, <3>2 DEF Insert, CountInChunk
    <3>3. CASE ~ IsFull(chunks[Len(chunks)])
      <4>1. chunks[Len(chunks)] + 1 \in 1 .. ChunkSize
        BY <3>1, <3>3 DEF IsFull
      <4>2. chunks' = [chunks EXCEPT ![Len(chunks)] = chunks[Len(chunks)] + 1]
        BY <2>2, <3>3 DEF Insert, CountInChunk
      <4> QED BY <3>1, <4>1, <4>2
    <3> QED BY <3>2, <3>3
  <2> QED BY <2>1, <2>2
<1>5. generation' \in Nat
  BY DEF Insert, StoreInv, StoreTypeOK
<1> QED BY <1>1, <1>2, <1>3, <1>4, <1>5 DEF StoreTypeOK

(* Put stores no ID twice. *)
LEMMA InsertKeepsUnique ==
    ASSUME StoreInv, NEW pkt \in Offered, Insert(pkt)
    PROVE  UniqueIDs'
BY InsertIsNew, InsertAppends DEF UniqueIDs, StoreInv, IndexesAgree

(* Put keeps the lookup of every other packet and adds its own. *)
LEMMA InsertKeepsLookup ==
    ASSUME StoreInv, NEW pkt \in Offered, Insert(pkt)
    PROVE  LookupFaithful'
<1> SUFFICES ASSUME NEW i \in DOMAIN packets'
             PROVE  byID'[packets'[i].id] = packets'[i]
  BY DEF LookupFaithful
<1>1. CASE i = Len(packets) + 1
  BY <1>1, InsertAppends DEF Insert
<1>2. CASE i \in DOMAIN packets
  <2>1. /\ packets[i].id # pkt.id
        /\ packets[i].id \in DOMAIN byID
        /\ byID[packets[i].id] = packets[i]
    BY <1>2, InsertIsNew DEF StoreInv, StoreTypeOK, IndexesAgree, LookupFaithful
  <2> QED BY <1>2, <2>1, InsertAppends DEF Insert
<1> QED BY <1>1, <1>2, InsertAppends

(* The list of the packet's stream grows by its ID, the others stay. *)
LEMMA InsertStreamLists ==
    ASSUME StoreInv, NEW pkt \in Offered, Insert(pkt), NEW s \in Streams
    PROVE  /\ s # pkt.stream => byStream'[s] = byStream[s]
           /\ s = pkt.stream =>
                /\ DOMAIN byStream'[s] = DOMAIN byStream[s] \cup {Len(byStream[s]) + 1}
                /\ byStream'[s][Len(byStream[s]) + 1] = pkt.id
                /\ \A k \in DOMAIN byStream[s] :
                        /\ byStream'[s][k] = byStream[s][k]
                        /\ k < Len(byStream[s]) + 1
           /\ DOMAIN byStream[s] \subseteq Nat
           /\ Len(byStream[s]) \in Nat
<1> DEFINE IDs == {p.id : p \in Offered}
<1>1. byStream \in [Streams -> Seq(IDs)] /\ pkt.id \in IDs
  BY DEF StoreInv, StoreTypeOK
<1>2. byStream' = [byStream EXCEPT ![pkt.stream] = Append(@, pkt.id)]
  BY DEF Insert
<1> HIDE DEF IDs
<1>3. byStream[s] \in Seq(IDs)
  BY <1>1
<1>4. s # pkt.stream => byStream'[s] = byStream[s]
  BY <1>1, <1>2
<1>5. s = pkt.stream => byStream'[s] = Append(byStream[s], pkt.id)
  BY <1>1, <1>2
<1> QED BY <1>1, <1>3, <1>4, <1>5

(* ... so every list holds its packets, after the Put too. *)
LEMMA InsertKeepsStreamLists ==
    ASSUME StoreInv, NEW pkt \in Offered, Insert(pkt)
    PROVE  StreamListsComplete'
<1> SUFFICES ASSUME NEW s \in Streams
             PROVE  {byStream'[s][k] : k \in DOMAIN byStream'[s]}
                      = {packets'[i].id : i \in {j \in DOMAIN packets' :
                                                   packets'[j].stream = s}}
  BY DEF StreamListsComplete
<1>1. {byStream[s][k] : k \in DOMAIN byStream[s]}
        = {packets[i].id : i \in {j \in DOMAIN packets : packets[j].stream = s}}
  BY DEF StoreInv, IndexesAgree, StreamListsComplete
<1>2. CASE s # pkt.stream
  <2>1. {j \in DOMAIN packets' : packets'[j].stream = s}
          = {j \in DOMAIN packets : packets[j].stream = s}
    BY <1>2, InsertAppends
  <2>2. {packets'[i].id : i \in {j \in DOMAIN packets' : packets'[j].stream = s}}
          = {packets[i].id : i \in {j \in DOMAIN packets : packets[j].stream = s}}
    BY <2>1, InsertAppends
  <2>3. byStream'[s] = byStream[s]
    BY <1>2, InsertStreamLists
  <2> QED BY <1>1, <2>2, <2>3
<1>3. CASE s = pkt.stream
  <2>1. {j \in DOMAIN packets' : packets'[j].stream = s}
          = {j \in DOMAIN packets : packets[j].stream = s} \cup {Len(packets) + 1}
    BY <1>3, InsertAppends
  <2>2. {packets'[i].id : i \in {j \in DOMAIN packets' : packets'[j].stream = s}}
          = {packets[i].id : i \in {j \in DOMAIN packets : packets[j].stream = s}}
              \cup {pkt.id}
    BY <2>1, InsertAppends
  <2>3. {byStream'[s][k] : k \in DOMAIN byStream'[s]}
          = {byStream[s][k] : k \in DOMAIN byStream[s]} \cup {pkt.id}
    BY <1>3, InsertStreamLists
  <2> QED BY <1>1, <2>2, <2>3
<1> QED BY <1>2, <1>3

(* The list of a stream stays in the order of arrival. *)
LEMMA InsertKeepsOrder ==
    ASSUME StoreInv, NEW pkt \in Offered, Insert(pkt)
    PROVE  StreamListsInOrder'
<1> SUFFICES ASSUME NEW s \in Streams,
                    NEW k \in DOMAIN byStream'[s], NEW l \in DOMAIN byStream'[s],
                    NEW i \in DOMAIN packets', NEW j \in DOMAIN packets',
                    k < l,
                    packets'[i].id = byStream'[s][k],
                    packets'[j].id = byStream'[s][l]
             PROVE  i < j
  BY DEF StreamListsInOrder
<1>1. /\ DOMAIN packets' = DOMAIN packets \cup {Len(packets) + 1}
      /\ \A n \in DOMAIN packets : n \in Nat /\ n < Len(packets) + 1
  <2>1. /\ Len(packets) \in Nat
        /\ DOMAIN packets = 1 .. Len(packets)
        /\ DOMAIN packets' = DOMAIN packets \cup {Len(packets) + 1}
    BY InsertAppends
  <2> QED BY <2>1
\* An ID of a list of the old state is not the new one.
<1>2. \A n \in DOMAIN byStream[s] : byStream[s][n] # pkt.id
  <2>1. ASSUME NEW n \in DOMAIN byStream[s]
        PROVE  \E m \in DOMAIN packets : byStream[s][n] = packets[m].id
    <3>1. byStream[s][n] \in {byStream[s][m] : m \in DOMAIN byStream[s]}
      OBVIOUS
    <3> QED BY <3>1 DEF StoreInv, IndexesAgree, StreamListsComplete
  <2> QED BY <2>1, InsertIsNew
<1>3. CASE k \in DOMAIN byStream[s] /\ l \in DOMAIN byStream[s]
  <2>1. byStream'[s][k] = byStream[s][k] /\ byStream'[s][l] = byStream[s][l]
    BY <1>3, InsertStreamLists
  <2>2. i \in DOMAIN packets /\ j \in DOMAIN packets
    BY <1>2, <1>3, <2>1, InsertAppends
  <2> QED BY <1>3, <2>1, <2>2, InsertAppends
         DEF StoreInv, IndexesAgree, StreamListsInOrder
<1>4. CASE k \in DOMAIN byStream[s] /\ l \notin DOMAIN byStream[s]
  <2>1. s = pkt.stream /\ l = Len(byStream[s]) + 1
    BY <1>4, InsertStreamLists
  <2>2. byStream'[s][l] = pkt.id /\ byStream'[s][k] = byStream[s][k]
    BY <1>4, <2>1, InsertStreamLists
  <2>3. i \in DOMAIN packets
    BY <1>2, <1>4, <2>2, InsertAppends
  <2>4. j = Len(packets) + 1
    BY <1>1, <2>2, InsertIsNew, InsertAppends
  <2> QED BY <1>1, <2>3, <2>4
<1>5. CASE k \notin DOMAIN byStream[s]
  BY <1>5, InsertStreamLists
<1> QED BY <1>3, <1>4, <1>5

(* Put counts itself. *)
LEMMA InsertKeepsGeneration ==
    ASSUME StoreInv, NEW pkt \in Offered, Insert(pkt)
    PROVE  GenerationCountsPackets'
BY InsertAppends DEF GenerationCountsPackets, StoreInv, Insert

(* Put fills the last chunk or starts one. *)
LEMMA InsertKeepsChunks ==
    ASSUME StoreInv, NEW pkt \in Offered, Insert(pkt)
    PROVE  ChunksFillUp'
<1> USE ChunkSizeAssumption
<1>1. Len(packets') = Len(packets) + 1 /\ Len(packets) \in Nat
  BY InsertAppends
<1>2. chunks \in Seq(1 .. ChunkSize)
  BY DEF StoreInv, StoreTypeOK
<1>3. CASE chunks = << >>
  <2>1. chunks' = <<1>> /\ Len(packets) = 0
    BY <1>3 DEF Insert, CountInChunk, StoreInv, ChunksFillUp
  <2>2. Len(chunks') = 1 /\ chunks'[1] = 1 /\ chunks' # << >>
    BY <2>1
  <2> QED BY <1>1, <2>1, <2>2 DEF ChunksFillUp
<1>4. CASE chunks # << >> /\ IsFull(chunks[Len(chunks)])
  <2> DEFINE n == Len(chunks)
  <2>1. n \in Nat \ {0} /\ chunks[n] = ChunkSize
    BY <1>2, <1>4 DEF IsFull
  <2>2. Len(packets) = (n - 1) * ChunkSize + ChunkSize
    BY <1>4, <2>1 DEF StoreInv, ChunksFillUp
  <2>3. chunks' = Append(chunks, 1)
    BY <1>4 DEF Insert, CountInChunk
  <2>4. /\ Len(chunks') = n + 1
        /\ chunks'[n + 1] = 1
        /\ chunks' # << >>
        /\ \A k \in DOMAIN chunks' : k < n + 1 => k \in DOMAIN chunks /\ chunks'[k] = chunks[k]
    BY <1>2, <2>3
  <2>5. \A k \in DOMAIN chunks : chunks[k] = ChunkSize
    BY <1>2, <2>1 DEF StoreInv, ChunksFillUp
  <2>6. (n - 1) * ChunkSize + ChunkSize = n * ChunkSize
    BY <2>1
  <2> QED BY <1>1, <2>1, <2>2, <2>4, <2>5, <2>6 DEF ChunksFillUp
<1>5. CASE chunks # << >> /\ ~ IsFull(chunks[Len(chunks)])
  <2> DEFINE n == Len(chunks)
  <2>1. n \in Nat \ {0} /\ n \in DOMAIN chunks /\ chunks[n] \in Nat
    BY <1>2, <1>5
  <2>2. chunks' = [chunks EXCEPT ![n] = chunks[n] + 1]
    BY <1>5 DEF Insert, CountInChunk
  <2>3. /\ Len(chunks') = n
        /\ DOMAIN chunks' = DOMAIN chunks
        /\ chunks'[n] = chunks[n] + 1
        /\ \A k \in DOMAIN chunks : k < n => chunks'[k] = chunks[k]
        /\ chunks' # << >>
    BY <1>2, <2>1, <2>2
  <2>4. Len(packets) = (n - 1) * ChunkSize + chunks[n]
    BY <1>5 DEF StoreInv, ChunksFillUp
  <2>5. (n - 1) * ChunkSize \in Int
    BY <2>1
  <2>6. Len(packets') = (n - 1) * ChunkSize + chunks'[n]
    BY <1>1, <2>1, <2>3, <2>4, <2>5
  <2> QED BY <2>3, <2>6 DEF StoreInv, ChunksFillUp
<1> QED BY <1>3, <1>4, <1>5

-----------------------------------------------------------------------------
(* A Put that is refused and a stuttering step leave every structure alone.*)
LEMMA UnchangedKeepsInv ==
    ASSUME StoreInv, UNCHANGED storeVars
    PROVE  StoreInv'
<1>1. StoreTypeOK'
  BY DEF storeVars, StoreInv, StoreTypeOK
<1>2. UniqueIDs' /\ LookupFaithful'
  BY DEF storeVars, StoreInv, IndexesAgree, UniqueIDs, LookupFaithful
<1>3. StreamListsComplete'
  BY DEF storeVars, StoreInv, IndexesAgree, StreamListsComplete
<1>4. StreamListsInOrder'
  BY DEF storeVars, StoreInv, IndexesAgree, StreamListsInOrder
<1>5. GenerationCountsPackets' /\ ChunksFillUp'
  BY DEF storeVars, StoreInv, GenerationCountsPackets, ChunksFillUp
<1> QED BY <1>1, <1>2, <1>3, <1>4, <1>5 DEF StoreInv, IndexesAgree

(* The empty store satisfies the invariant. *)
LEMMA StoreInvInit == StoreInit => StoreInv
<1> SUFFICES ASSUME StoreInit PROVE StoreInv
  OBVIOUS
<1>1. StoreTypeOK
  BY DEF StoreInit, StoreTypeOK
<1>2. IndexesAgree
  BY DEF StoreInit, IndexesAgree, UniqueIDs, LookupFaithful, StreamListsComplete,
         StreamListsInOrder
<1>3. GenerationCountsPackets /\ ChunksFillUp
  BY DEF StoreInit, GenerationCountsPackets, ChunksFillUp
<1> QED BY <1>1, <1>2, <1>3 DEF StoreInv

(* Every Put, refused or not, keeps the invariant. *)
LEMMA StoreInvStep == StoreInv /\ [StoreNext]_storeVars => StoreInv'
<1> SUFFICES ASSUME StoreInv, [StoreNext]_storeVars PROVE StoreInv'
  OBVIOUS
<1>1. ASSUME NEW pkt \in Offered, Insert(pkt) PROVE StoreInv'
  BY <1>1, InsertTypes, InsertKeepsUnique, InsertKeepsLookup, InsertKeepsStreamLists,
     InsertKeepsOrder, InsertKeepsGeneration, InsertKeepsChunks
     DEF StoreInv, IndexesAgree
<1>2. ASSUME NEW pkt \in Offered, Refuse(pkt) PROVE StoreInv'
  BY <1>2, UnchangedKeepsInv DEF Refuse
<1>3. CASE UNCHANGED storeVars
  BY <1>3, UnchangedKeepsInv
<1> QED BY <1>1, <1>2, <1>3 DEF StoreNext, StorePut

(* Every reachable state of the store satisfies the inductive invariant.   *)
LEMMA StoreInvHolds == StoreSpec => []StoreInv
BY StoreInvInit, StoreInvStep, PTL DEF StoreSpec

(* Put keeps the types of all five fields of Store (store.go:56).          *)
THEOREM StoreTypeCorrect == StoreSpec => []StoreTypeOK
<1>1. StoreInv => StoreTypeOK
  BY DEF StoreInv
<1> QED BY <1>1, StoreInvHolds, PTL

(* The slice, the ID map and the stream lists of the store agree after any *)
(* sequence of Puts, the refused ones included.                            *)
THEOREM StoreIndexesAgree == StoreSpec => []IndexesAgree
<1>1. StoreInv => IndexesAgree
  BY DEF StoreInv
<1> QED BY <1>1, StoreInvHolds, PTL

(* Chunks fill up in order for every chunk size (store.go:72-75).          *)
THEOREM StoreChunksFillUp == StoreSpec => []ChunksFillUp
<1>1. StoreInv => ChunksFillUp
  BY DEF StoreInv
<1> QED BY <1>1, StoreInvHolds, PTL

(* A snapshot joined with the packets since its version is the whole log,  *)
(* at whatever version it was taken (snapshot.go:27-42).                   *)
THEOREM StoreSinceExact == StoreSpec => []SinceIsExactDelta
<1>1. ASSUME StoreInv PROVE SinceIsExactDelta
  <2> SUFFICES ASSUME NEW v \in 0 .. generation
               PROVE  SubSeq(packets, 1, v) \o Since(v) = packets
    BY DEF SinceIsExactDelta
  <2>1. packets \in Seq(Offered) /\ generation = Len(packets) /\ Len(packets) \in Nat
    BY <1>1 DEF StoreInv, StoreTypeOK, GenerationCountsPackets
  <2>2. CASE v = generation
    <3>1. Since(v) = << >> /\ SubSeq(packets, 1, v) = packets
      BY <2>1, <2>2 DEF Since
    <3> QED BY <2>1, <3>1
  <2>3. CASE v < generation
    <3>1. Since(v) = SubSeq(packets, v + 1, Len(packets))
      BY <2>1, <2>3 DEF Since
    <3>2. SubSeq(packets, 1, v) \o SubSeq(packets, v + 1, Len(packets))
            = SubSeq(packets, 1, Len(packets))
      <4>1. /\ 1 \in 1 .. Len(packets) + 1
            /\ v \in 1 - 1 .. Len(packets)
            /\ Len(packets) \in v .. Len(packets)
        BY <2>1, <2>3
      <4>2. packets \in Seq(Offered)
        BY <2>1
      <4> QED BY <4>1, <4>2, ConcatAdjacentSubSeq, Zenon
    <3>3. SubSeq(packets, 1, Len(packets)) = packets
      BY <2>1
    <3> QED BY <3>1, <3>2, <3>3
  <2> QED BY <2>1, <2>2, <2>3
<1> QED BY <1>1, StoreInvHolds, PTL

-----------------------------------------------------------------------------
(* The running sum of Segments: every chunk before the k-th is full.       *)

(* The number of chunks and what each holds. *)
LEMMA ChunkNumbers ==
    ASSUME StoreInv
    PROVE  /\ Len(chunks) \in Nat /\ Len(packets) \in Nat /\ DOMAIN chunks = 1 .. Len(chunks)
           /\ ChunkSize \in Nat \ {0}
           /\ \A k \in 1 .. Len(chunks) : chunks[k] \in 1 .. ChunkSize
           /\ \A k \in 1 .. Len(chunks) : k < Len(chunks) => chunks[k] = ChunkSize
BY ChunkSizeAssumption DEF StoreInv, StoreTypeOK, ChunksFillUp

(* Multiplication is all the provers have to be told about. *)
LEMMA OneChunkMore ==
    ASSUME NEW c \in Nat, NEW k \in Nat
    PROVE  (k + 1) * c = k * c + c /\ k * c \in Nat
OBVIOUS

(* The function is the one that Segments sums up, chunk after chunk. *)
LEMMA ChunkStartIs ==
    ASSUME StoreInv
    PROVE  \A k \in 1 .. Len(chunks) : ChunkStart[k] = (k - 1) * ChunkSize
<1> DEFINE n == Len(chunks)
           Sum(f) == f = [k \in 1 .. n + 1 |-> IF k = 1 THEN 0 ELSE f[k - 1] + chunks[k - 1]]
           w == [k \in 1 .. n + 1 |-> IF k = n + 1 /\ n > 0 THEN (n - 1) * ChunkSize + chunks[n]
                                      ELSE (k - 1) * ChunkSize]
<1>1. n \in Nat /\ ChunkSize \in Nat /\ \A k \in 1 .. n : k < n => chunks[k] = ChunkSize
  BY ChunkNumbers
<1>2. Sum(w)
  <2>1. ASSUME NEW k \in 1 .. n + 1
        PROVE  w[k] = IF k = 1 THEN 0 ELSE w[k - 1] + chunks[k - 1]
    <3>1. CASE k = 1
      BY <1>1, <3>1
    <3>2. CASE k # 1 /\ k = n + 1
      <4>1. n \in 1 .. n + 1 /\ n # n + 1 /\ k - 1 = n
        BY <1>1, <3>2
      <4>2. w[n] = (n - 1) * ChunkSize
        BY <1>1, <4>1
      <4>3. w[k] = (n - 1) * ChunkSize + chunks[n]
        BY <1>1, <3>2
      <4> QED BY <3>2, <4>1, <4>2, <4>3
    <3>3. CASE k # 1 /\ k # n + 1
      <4>1. k - 1 \in 1 .. n + 1 /\ k - 1 # n + 1 /\ k - 1 \in 1 .. n /\ k - 1 < n /\ k - 2 \in Nat
        BY <1>1, <3>3
      <4>2. w[k - 1] = (k - 2) * ChunkSize /\ w[k] = (k - 1) * ChunkSize
        BY <1>1, <3>3, <4>1
      <4>3. ((k - 2) + 1) * ChunkSize = (k - 2) * ChunkSize + ChunkSize /\ (k - 2) + 1 = k - 1
        BY <1>1, <4>1, OneChunkMore
      <4> QED BY <1>1, <3>3, <4>1, <4>2, <4>3
    <3> QED BY <3>1, <3>2, <3>3
  <2> QED BY <2>1
<1>3. Sum(ChunkStart)
  <2>1. ChunkStart = CHOOSE f : Sum(f)
    BY DEF ChunkStart
  <2> HIDE DEF Sum, w
  <2> QED BY <1>2, <2>1
<1> DEFINE S == {j \in Nat : j + 1 \in 1 .. n => ChunkStart[j + 1] = j * ChunkSize}
<1>4. 0 \in S
  BY <1>1, <1>3
<1>5. ASSUME NEW j \in Nat, j \in S PROVE j + 1 \in S
  <2> SUFFICES ASSUME (j + 1) + 1 \in 1 .. n
               PROVE  ChunkStart[(j + 1) + 1] = (j + 1) * ChunkSize
    OBVIOUS
  <2>1. j + 1 \in 1 .. n /\ j + 1 < n /\ (j + 1) + 1 \in 1 .. n + 1
        /\ (j + 1) + 1 # 1 /\ ((j + 1) + 1) - 1 = j + 1
    BY <1>1
  <2>2. ChunkStart[j + 1] = j * ChunkSize /\ chunks[j + 1] = ChunkSize
    BY <1>1, <1>5, <2>1
  <2>3. ChunkStart[(j + 1) + 1] = ChunkStart[j + 1] + chunks[j + 1]
    BY <1>3, <2>1
  <2> QED BY <1>1, <2>2, <2>3, OneChunkMore
<1> HIDE DEF S
<1>6. Nat \subseteq S
  BY <1>4, <1>5, NatInductionSet
<1>7. ASSUME NEW k \in 1 .. n PROVE ChunkStart[k] = (k - 1) * ChunkSize
  <2>1. k - 1 \in S /\ (k - 1) + 1 = k /\ k - 1 \in Nat
    BY <1>1, <1>6
  <2>2. (k - 1) + 1 \in 1 .. n
    BY <2>1
  <2> QED BY <2>1, <2>2 DEF S
<1> QED BY <1>7

(* Products of neighbours are in order: nothing lies in two segments.      *)
LEMMA ProductsGrow ==
    ASSUME NEW c \in Nat, NEW a \in Nat, NEW b \in Nat, a < b
    PROVE  a * c + c <= b * c
<1>1. PICK d \in Nat : b = (a + 1) + d
  <2>1. b - (a + 1) \in Nat /\ b = (a + 1) + (b - (a + 1))
    OBVIOUS
  <2> QED BY <2>1
<1>2. b * c = (a + 1) * c + d * c
  BY <1>1
<1>3. (a + 1) * c = a * c + c /\ d * c \in Nat /\ a * c \in Nat
  BY <1>1, OneChunkMore
<1> QED BY <1>2, <1>3

(* Every number below a multiple of c lies in one of its stretches. *)
LEMMA StretchOf ==
    ASSUME NEW c \in Nat \ {0}, NEW n \in Nat, NEW i \in Nat, i < n * c
    PROVE  \E k \in 1 .. n : (k - 1) * c <= i /\ i < k * c
<1> DEFINE T == {m \in Nat : i < m * c}
<1>1. n \in T
  OBVIOUS
<1>2. PICK k \in T : \A m \in T : k <= m
  BY <1>1, LeastNat
<1>3. k # 0
  <2>1. 0 * c = 0
    OBVIOUS
  <2> QED BY <1>2, <2>1
<1>4. k \in 1 .. n /\ k - 1 \in Nat /\ k - 1 \notin T
  BY <1>1, <1>2, <1>3
<1>5. (k - 1) * c \in Nat
  BY <1>4, OneChunkMore
<1>6. (k - 1) * c <= i
  BY <1>4, <1>5
<1> QED BY <1>2, <1>4, <1>6

(* Every stored packet lies in exactly one segment, for every chunk size   *)
(* (snapshot.go:62-76).                                                    *)
THEOREM StoreSegmentsTile == StoreSpec => []SegmentsTile
<1>1. ASSUME StoreInv PROVE SegmentsTile
  <2> DEFINE n == Len(chunks)
             c == ChunkSize
             Holders(i) == {k \in DOMAIN chunks : Segments[k].start <= i /\ i < Segments[k].end}
  <2>1. /\ n \in Nat /\ DOMAIN chunks = 1 .. n /\ c \in Nat \ {0} /\ Len(packets) \in Nat
        /\ \A k \in 1 .. n : chunks[k] \in 1 .. c
        /\ \A k \in 1 .. n : k < n => chunks[k] = c
    BY <1>1, ChunkNumbers
  <2>2. ASSUME NEW k \in 1 .. n
        PROVE  /\ Segments[k].start = (k - 1) * c
               /\ Segments[k].end = (k - 1) * c + chunks[k]
               /\ (k - 1) * c \in Nat /\ k * c = (k - 1) * c + c
    <3>1. ChunkStart[k] = (k - 1) * c
      BY <1>1, ChunkStartIs
    <3>2. k - 1 \in Nat /\ (k - 1) + 1 = k
      BY <2>1
    <3>3. ((k - 1) + 1) * c = (k - 1) * c + c /\ (k - 1) * c \in Nat
      BY <2>1, <3>2, OneChunkMore
    <3> QED BY <2>1, <3>1, <3>2, <3>3 DEF Segments
  <2>3. Len(packets) = IF n = 0 THEN 0 ELSE (n - 1) * c + chunks[n]
    <3>1. chunks = << >> <=> n = 0
      BY <1>1, EmptySeq DEF StoreInv, StoreTypeOK
    <3> QED BY <1>1, <3>1 DEF StoreInv, ChunksFillUp
  <2>4. ASSUME NEW i \in 0 .. Len(packets) - 1 PROVE Cardinality(Holders(i)) = 1
    <3>1. i \in Nat /\ i < Len(packets) /\ n # 0 /\ n \in 1 .. n
      BY <2>1, <2>3
    <3>2. i < n * c
      <4>1. Len(packets) = (n - 1) * c + chunks[n] /\ chunks[n] <= c /\ chunks[n] \in Nat
        BY <2>1, <2>3, <3>1
      <4>2. n * c = (n - 1) * c + c /\ (n - 1) * c \in Nat
        BY <2>2, <3>1
      <4> QED BY <2>1, <3>1, <4>1, <4>2
    <3>3. PICK k \in 1 .. n : (k - 1) * c <= i /\ i < k * c
      BY <2>1, <3>1, <3>2, StretchOf
    <3>4. k \in Holders(i)
      <4>1. k < n \/ k = n
        <5> n \in Nat /\ k \in 1 .. n
          BY <2>1, <3>3
        <5> HIDE DEF n
        <5> QED OBVIOUS
      <4>2. CASE k < n
        <5>1. Segments[k].end = k * c
          BY <2>1, <2>2, <4>2
        <5> QED BY <2>1, <2>2, <3>3, <5>1
      <4>3. CASE k = n
        <5>1. Segments[k].end = Len(packets)
          BY <2>2, <2>3, <3>1, <4>3
        <5> QED BY <2>1, <2>2, <3>1, <3>3, <5>1
      <4> QED BY <4>1, <4>2, <4>3
    <3>5. ASSUME NEW m \in Holders(i) PROVE m = k
      <4>1. /\ m \in 1 .. n /\ (m - 1) * c <= i /\ i < m * c
            /\ (m - 1) * c \in Nat /\ m * c \in Nat /\ m * c = (m - 1) * c + c
        <5>1. m \in 1 .. n /\ Segments[m].start <= i /\ i < Segments[m].end
          BY <2>1, <3>5
        <5>2. chunks[m] \in 1 .. c
          BY <2>1, <5>1
        <5>3. /\ Segments[m].start = (m - 1) * c
              /\ Segments[m].end = (m - 1) * c + chunks[m]
              /\ (m - 1) * c \in Nat /\ m * c = (m - 1) * c + c
          BY <2>2, <5>1
        <5> HIDE DEF n, c
        <5> QED BY <2>1, <3>1, <5>1, <5>2, <5>3
      <4>2. (k - 1) * c \in Nat /\ k * c = (k - 1) * c + c
        BY <2>2
      <4>3. ~ (m < k)
        <5>1. ASSUME m < k PROVE FALSE
          <6>1. m - 1 \in Nat /\ k - 1 \in Nat /\ m - 1 < k - 1
            BY SMTT(30), <2>1, <3>3, <4>1, <5>1
          <6>2. (m - 1) * c + c <= (k - 1) * c
            BY <2>1, <6>1, ProductsGrow
          <6>3. i < (k - 1) * c
            BY SMTT(30), <2>1, <3>1, <4>1, <4>2, <6>2
          <6> QED BY <3>1, <3>3, <4>2, <6>3
        <5> QED BY <5>1
      <4>4. ~ (k < m)
        <5>1. ASSUME k < m PROVE FALSE
          <6>1. m - 1 \in Nat /\ k - 1 \in Nat /\ k - 1 < m - 1
            BY SMTT(30), <2>1, <4>1, <5>1
          <6>2. (k - 1) * c + c <= (m - 1) * c
            BY <2>1, <6>1, ProductsGrow
          <6>3. i < (m - 1) * c
            BY <2>1, <3>1, <3>3, <4>1, <4>2, <6>2
          <6> QED BY <3>1, <4>1, <6>3
        <5> QED BY <5>1
      <4> QED BY <2>1, <4>1, <4>3, <4>4
    <3>6. Holders(i) = {k}
      BY <3>4, <3>5
    <3> HIDE DEF Holders
    <3>7. Cardinality({k}) = 1
      BY FS_Singleton, Zenon
    <3> QED BY <3>6, <3>7
  <2> QED BY <2>4 DEF SegmentsTile
<1> QED BY <1>1, StoreInvHolds, PTL

-----------------------------------------------------------------------------
(* The store implements the abstract log: a successful Put appends an ID   *)
(* that the log does not hold, every other step leaves the log as it is.   *)

(* A successful Put is a step of the abstract log. *)
LEMMA InsertAppendsNew ==
    ASSUME StoreInv, NEW pkt \in Offered, Insert(pkt)
    PROVE  Log!AppendNew(pkt.id)
<1>1. ~ Log!Occurs(pkt.id)
  BY InsertIsNew DEF Log!Occurs, IDsOf
<1>2. IDsOf(packets)' = Append(IDsOf(packets), pkt.id)
  <2> DEFINE ids == IDsOf(packets)
  <2>1. /\ Len(packets) \in Nat
        /\ DOMAIN packets = 1 .. Len(packets)
        /\ DOMAIN packets' = 1 .. Len(packets) + 1
        /\ packets'[Len(packets) + 1] = pkt
        /\ \A i \in DOMAIN packets : packets'[i] = packets[i]
    BY InsertAppends
  <2>2. ids \in Seq({p.id : p \in Offered}) /\ Len(ids) = Len(packets)
    BY InsertAppends DEF IDsOf
  <2> QED BY <2>1, <2>2 DEF IDsOf
<1> QED BY <1>1, <1>2 DEF Log!AppendNew

(* The store is an append-only log of distinct IDs, whatever is offered to *)
(* it and in whatever order: every step of the store is a step of PacketLog*)
(* or leaves the log unchanged.                                            *)
THEOREM StoreImplementsLog == StoreSpec => ImplementsLog
<1>1. StoreInit => Log!LogInit
  BY DEF StoreInit, Log!LogInit, IDsOf
<1>2. StoreInv /\ [StoreNext]_storeVars => [Log!LogNext]_(IDsOf(packets))
  <2> SUFFICES ASSUME StoreInv, [StoreNext]_storeVars
               PROVE  [Log!LogNext]_(IDsOf(packets))
    OBVIOUS
  <2>1. ASSUME NEW pkt \in Offered, Insert(pkt) PROVE Log!LogNext
    BY <2>1, InsertAppendsNew DEF Log!LogNext
  <2>2. ASSUME NEW pkt \in Offered, Refuse(pkt) PROVE UNCHANGED IDsOf(packets)
    BY <2>2 DEF Refuse, storeVars, IDsOf
  <2>3. CASE UNCHANGED storeVars
    BY <2>3 DEF storeVars, IDsOf
  <2> QED BY <2>1, <2>2, <2>3 DEF StoreNext, StorePut
<1> QED BY <1>1, <1>2, StoreInvHolds, PTL DEF StoreSpec, ImplementsLog, Log!LogSpec

=============================================================================
