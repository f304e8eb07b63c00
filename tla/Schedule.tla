------------------------------ MODULE Schedule -------------------------------
(***************************************************************************)
(* How a replay cuts a list of packets into chunks (internal/replay/       *)
(* chunk.go) and orders them (internal/stamp, Store.Ordered).  Timestamps  *)
(* matter here and nowhere else, so they are a function of the packet.     *)
(***************************************************************************)
EXTENDS Store, SequencesExt

CONSTANTS
    Timestamp,      \* packet -> its Timestamp
    ReplayChunk,    \* Scheduler.chunkSize
    StableLength    \* up to this length sort.Slice keeps the order of equal
                    \* elements (12 in Go: insertion sort)

(* config.Validate refuses a chunk size below one. *)
ASSUME ScheduleAssumption ==
    /\ ReplayChunk \in Nat \ {0}
    /\ StableLength \in Nat
    /\ Timestamp \in [Offered -> Nat]

(* Mutant: the remainder makes no chunk of its own. *)
ChunkCountDown(total) == total \div ReplayChunk

ChunkCount(total) == (total + ReplayChunk - 1) \div ReplayChunk

(* The half-open intervals that cover 0 .. total - 1: one begins at every  *)
(* multiple of the chunk size below total.                                 *)
Chunks(total) ==
    [k \in 1 .. ChunkCount(total) |->
        [start |-> (k - 1) * ReplayChunk,
         end   |-> IF k * ReplayChunk > total THEN total ELSE k * ReplayChunk]]

(* stamp.Compare(a, b) > 0 *)
ComesAfter(a, b) ==
    \/ Timestamp[a] > Timestamp[b]
    \/ Timestamp[a] = Timestamp[b] /\ a.seq > b.seq

IsLater(a, b) == Timestamp[a] > Timestamp[b]

(* The same as relations, for the sorts. *)
Following == {pair \in Offered \X Offered : ComesAfter(pair[1], pair[2])}
Later     == {pair \in Offered \X Offered : IsLater(pair[1], pair[2])}

(* One round of an insertion sort: pkt goes behind the last element that   *)
(* is not after it. *)
Placed(sorted, pkt, After) ==
    InsertAt(sorted,
             Max({0} \cup {i \in DOMAIN sorted : <<sorted[i], pkt>> \notin After}) + 1,
             pkt)

Sorted(batch, After) ==
    FoldLeft(LAMBDA sorted, pkt : Placed(sorted, pkt, After), << >>, batch)

TagAndSortBatch(batch) == Sorted(batch, Following)

InTimeOrder(pkts) ==
    \A i, j \in DOMAIN pkts : i < j => ~ IsLater(pkts[i], pkts[j])

(* Mutant: the copy is not sorted. *)
OrdersByArrival == {packets}

(* The lists Store.Ordered may return. *)
Orders ==
    IF Len(packets) <= StableLength
    THEN {Sorted(packets, Later)}
    ELSE {list \in {[i \in DOMAIN packets |-> packets[p[i]]] :
                        p \in Bijection(DOMAIN packets, DOMAIN packets)} : InTimeOrder(list)}

(* The chunks of a list, each in the order in which it is put out. *)
Batches(list) ==
    [k \in DOMAIN Chunks(Len(list)) |->
        TagAndSortBatch(SubSeq(list, Chunks(Len(list))[k].start + 1,
                                     Chunks(Len(list))[k].end))]

(* Mutant: the position of the cursor is not left out. *)
IndexAfterInclusive(list, last) ==
    IF \E i \in DOMAIN list : << list[i].id >> = last
    THEN (CHOOSE i \in DOMAIN list : << list[i].id >> = last) - 1
    ELSE 0

(* indexAfter: how many packets a resumed replay leaves out.  An ID that   *)
(* the list does not hold starts it from the beginning.                    *)
IndexAfter(list, last) ==
    IF \E i \in DOMAIN list : << list[i].id >> = last
    THEN CHOOSE i \in DOMAIN list : << list[i].id >> = last
    ELSE 0

=============================================================================
