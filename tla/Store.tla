-------------------------------- MODULE Store --------------------------------
(***************************************************************************)
(* The in-process packet store (internal/store).  Every operation runs     *)
(* under Store.mu, so each is one atomic step.  The key releaser that Put  *)
(* calls before it unlocks belongs to the deduplicator: module Capture     *)
(* composes the two.                                                       *)
(***************************************************************************)
EXTENDS Packets, FiniteSets

CONSTANTS
    ChunkSize,      \* capacity of a chunk
    Offered         \* the packets callers pass to Put

(* config.Validate refuses a chunk size below one. *)
ASSUME ChunkSizeAssumption == ChunkSize \in Nat \ {0}

ASSUME OfferedAssumption == \A pkt \in Offered : pkt \in Packet({pkt.payload})

VARIABLES
    packets,        \* every stored packet, in the order of arrival
    byID,           \* packet ID -> packet
    byStream,       \* stream -> IDs of its packets, in the order of arrival;
                    \* << >> for a stream the Go map does not hold
    chunks,         \* number of packets in each chunk
    generation      \* count of successful Puts (uint64, never near its limit)

storeVars == <<packets, byID, byStream, chunks, generation>>

StoreInit ==
    /\ packets    = << >>
    /\ byID       = << >>
    /\ byStream   = [s \in Streams |-> << >>]
    /\ chunks     = << >>
    /\ generation = 0

-----------------------------------------------------------------------------
(* Put.  The result tells the three error classes of its callers apart.    *)

(* Mutant: Put does not look for the ID and stores the packet again. *)
PutResultTwice(pkt) ==
    IF ~ (Validate(pkt) /\ HasPayload(pkt)) THEN "invalid" ELSE "ok"

PutResult(pkt) ==
    IF ~ (Validate(pkt) /\ HasPayload(pkt)) THEN "invalid"
    ELSE IF pkt.id \in DOMAIN byID          THEN "exists"
    ELSE                                         "ok"

(* Mutant: a chunk takes one packet too many. *)
IsFullLate(chunk) == chunk > ChunkSize

IsFull(chunk) == chunk >= ChunkSize

CountInChunk ==
    IF chunks = << >> \/ IsFull(chunks[Len(chunks)])
    THEN Append(chunks, 1)
    ELSE [chunks EXCEPT ![Len(chunks)] = @ + 1]

Insert(pkt) ==
    /\ PutResult(pkt) = "ok"
    /\ packets'    = Append(packets, pkt)
    /\ byID'       = [id \in DOMAIN byID \cup {pkt.id} |->
                        IF id = pkt.id THEN pkt ELSE byID[id]]
    /\ byStream'   = [byStream EXCEPT ![pkt.stream] = Append(@, pkt.id)]
    /\ chunks'     = CountInChunk
    /\ generation' = generation + 1

Refuse(pkt) ==
    /\ PutResult(pkt) # "ok"
    /\ UNCHANGED storeVars

StorePut(pkt) == Insert(pkt) \/ Refuse(pkt)

StoreNext == \E pkt \in Offered : StorePut(pkt)

StoreSpec == StoreInit /\ [][StoreNext]_storeVars

-----------------------------------------------------------------------------
(* What readers see, each under Store.mu.RLock.                            *)

IDsOf(pkts) == [i \in DOMAIN pkts |-> pkts[i].id]

Snapshot == [version |-> generation, ids |-> IDsOf(packets)]

(* Mutant: the scan for the start goes one packet too far. *)
SinceSkipping(v) ==
    IF v >= generation THEN << >> ELSE SubSeq(packets, v + 2, Len(packets))

Since(v) ==
    IF v >= generation
    THEN << >>
    ELSE SubSeq(packets, 1 + (IF v < Len(packets) THEN v
                                                 ELSE Len(packets)),
                Len(packets))

GetStream(s) == [i \in DOMAIN byStream[s] |-> byID[byStream[s][i]]]

ListStreams == {s \in Streams : byStream[s] # << >>}

(* The running sum `cursor' of Segments before chunk k. *)
ChunkStart[k \in 1 .. Len(chunks) + 1] ==
    IF k = 1 THEN 0 ELSE ChunkStart[k - 1] + chunks[k - 1]

(* Mutant: the cursor is advanced before the segment is written. *)
SegmentsLate ==
    [k \in DOMAIN chunks |->
        [start |-> ChunkStart[k + 1], end |-> ChunkStart[k + 1] + chunks[k]]]

Segments ==
    [k \in DOMAIN chunks |->
        [start |-> ChunkStart[k], end |-> ChunkStart[k] + chunks[k]]]

-----------------------------------------------------------------------------
StoreTypeOK ==
    /\ packets \in Seq(Offered)
    /\ byID \in [{packets[i].id : i \in DOMAIN packets} -> Offered]
    /\ byStream \in [Streams -> Seq({pkt.id : pkt \in Offered})]
    /\ chunks \in Seq(1 .. ChunkSize)
    /\ generation \in Nat

(* An ID is stored once: neither a retried Put nor two partial results of  *)
(* one window may enter twice (store.go:66).                               *)
UniqueIDs ==
    \A i, j \in DOMAIN packets : packets[i].id = packets[j].id => i = j

(* Lookup by ID returns the packet that was stored under it. *)
LookupFaithful ==
    \A i \in DOMAIN packets : byID[packets[i].id] = packets[i]

(* The list of a stream holds exactly its packets: replaying a stream      *)
(* through GetStream shows what a scan of all packets would show.          *)
StreamListsComplete ==
    \A s \in Streams :
        {byStream[s][k] : k \in DOMAIN byStream[s]}
            = {packets[i].id : i \in {j \in DOMAIN packets : packets[j].stream = s}}

(* ... and in the order of arrival. *)
StreamListsInOrder ==
    \A s \in Streams : \A k, l \in DOMAIN byStream[s] :
        \A i, j \in DOMAIN packets :
            (/\ k < l
             /\ packets[i].id = byStream[s][k]
             /\ packets[j].id = byStream[s][l]) => i < j

(* The three structures Put keeps (packets, byID, byStream) tell one story.*)
IndexesAgree ==
    UniqueIDs /\ LookupFaithful /\ StreamListsComplete /\ StreamListsInOrder

(* The generation a snapshot carries is the number of packets it lists;    *)
(* Since(version) relies on this when it uses a generation as an index.    *)
GenerationCountsPackets == generation = Len(packets)

(* Snapshot then Since is a complete read, whenever the snapshot was taken:*)
(* the prefix seen at a version and the delta after it are the whole log.  *)
SinceIsExactDelta ==
    \A v \in 0 .. generation :
        SubSeq(packets, 1, v) \o Since(v) = packets

(* Chunks fill up one after the other: only the last one has room left.    *)
ChunksFillUp ==
    /\ \A k \in DOMAIN chunks : k < Len(chunks) => chunks[k] = ChunkSize
    /\ Len(packets) = IF chunks = << >> THEN 0
                      ELSE (Len(chunks) - 1) * ChunkSize + chunks[Len(chunks)]

(* The segments tile the stored packets: every packet lies in one segment. *)
SegmentsTile ==
    \A i \in 0 .. Len(packets) - 1 :
        Cardinality({k \in DOMAIN chunks :
                        Segments[k].start <= i /\ i < Segments[k].end}) = 1

(* Stored packets keep their place for ever: a cursor or a snapshot that   *)
(* names one stays meaningful. *)
Log == INSTANCE PacketLog WITH log <- IDsOf(packets),
                               IDs <- {pkt.id : pkt \in Offered}

ImplementsLog == Log!LogSpec

=============================================================================
