------------------------------- MODULE Packets -------------------------------
(***************************************************************************)
(* The packet values that flow through PacketReplay: capture sources make  *)
(* them, the deduplicator keys them, the reassembler combines them and the *)
(* store keeps them (internal/model).                                      *)
(*                                                                         *)
(* A stream is an abstract value: sources only hand out streams that       *)
(* ParseStreamKey accepted or that main wrote down, so StreamKey.Validate  *)
(* never fails here.  A payload is a sequence of bodies.  The text of an   *)
(* ID is abstracted to the record it is formatted from; no two records     *)
(* format to the same text.  Timestamps and protocol names take part in no *)
(* decision of the capture path and are left out.                          *)
(***************************************************************************)
EXTENDS Integers, Sequences

CONSTANTS
    Streams,    \* the five-tuples packets belong to
    Modulus     \* number of values of the uint32 fields FragOffset and
                \* FragTotal: 2^32 in the code

ASSUME PacketsAssumption ==
    /\ Streams # {}
    /\ Modulus \in Nat \ {0}

UInt32 == 0 .. Modulus - 1

(* Seq is a uint64 that the code only compares and copies. *)
PacketID == [kind   : {"datagram", "fragment", "reassembled", "partial"},
             stream : Streams,
             seq    : Nat,
             off    : UInt32]

Packet(Payload) ==
    [id : PacketID, stream : Streams, seq : Nat, isFragment : BOOLEAN,
     off : UInt32, total : UInt32, payload : Payload]

(* A whole datagram: captured, reassembled, or the partial rest of one.    *)
(* Its FragOffset and FragTotal keep their zero value.                     *)
Whole(kind, stream, seq, payload) ==
    [id         |-> [kind |-> kind, stream |-> stream, seq |-> seq, off |-> 0],
     stream     |-> stream,
     seq        |-> seq,
     isFragment |-> FALSE,
     off        |-> 0,
     total      |-> 0,
     payload    |-> payload]

NewDatagram(stream, seq, payload) == Whole("datagram", stream, seq, payload)

NewFragment(stream, seq, off, total, payload) ==
    [id         |-> [kind |-> "fragment", stream |-> stream, seq |-> seq, off |-> off],
     stream     |-> stream,
     seq        |-> seq,
     isFragment |-> TRUE,
     off        |-> off,
     total      |-> total,
     payload    |-> payload]

(* Packet.Validate, for packets whose ID and stream are well formed. *)
Validate(pkt) ==
    pkt.isFragment => /\ pkt.total # 0
                      /\ pkt.off < pkt.total

HasPayload(pkt) == pkt.payload # << >>

(* The deduplication key digests the stream and the payload, and neither   *)
(* the sequence number nor the fragment offset.  The digest is taken to be *)
(* injective: xxhash collisions are not modelled.                          *)
PacketKey(pkt) == <<pkt.stream, pkt.payload>>

=============================================================================
