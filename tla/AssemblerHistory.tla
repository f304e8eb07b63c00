--------------------------- MODULE AssemblerHistory ---------------------------
(***************************************************************************)
(* The reassembler with a history: every packet fed carries its number as  *)
(* payload, so that each piece of an output tells where it came from.      *)
(***************************************************************************)
EXTENDS Assembler

VARIABLES
    fed,            \* the packets fed, in order; the i-th has payload <<i>>
    outputs,        \* what Feed, Drain and FlushExpired returned, in order
    accepted        \* numbers of the fragments with a payload that Feed
                    \* added to a window

(* Capture sources hand out datagrams and fragments only; the other kinds  *)
(* of ID are the assembler's own.                                          *)
ASSUME ArrivalsAreCaptured ==
    \A pkt \in Arrivals : pkt.id.kind \in {"datagram", "fragment"}

historyVars == <<entries, order, pending, asmStats, fed, outputs, accepted>>

HistoryInit ==
    /\ AsmInit
    /\ fed      = << >>
    /\ outputs  = << >>
    /\ accepted = {}

(* An empty payload stays empty. *)
Tagged(pkt) ==
    [pkt EXCEPT !.payload = IF @ = << >> THEN @ ELSE << Len(fed) + 1 >>]

HistoryFeed(pkt) ==
    LET numbered == Tagged(pkt) IN
    /\ Feed(numbered)
    /\ fed'      = Append(fed, numbered)
    /\ outputs'  = outputs \o FeedResult(numbered)
    /\ accepted' = IF pkt.isFragment /\ Accepts(Target(pkt), pkt) /\ HasPayload(pkt)
                   THEN accepted \cup {Len(fed) + 1} ELSE accepted

HistoryDrain ==
    /\ Drain
    /\ outputs' = outputs \o pending
    /\ UNCHANGED <<fed, accepted>>

HistoryFlush ==
    /\ FlushExpired
    /\ outputs' = outputs \o FlushResult
    /\ UNCHANGED <<fed, accepted>>

HistoryNext ==
    \/ /\ Len(fed) < MaxFed
       /\ \E pkt \in Arrivals : HistoryFeed(pkt)
    \/ HistoryDrain
    \/ HistoryFlush

HistorySpec == HistoryInit /\ [][HistoryNext]_historyVars

-----------------------------------------------------------------------------
(* Everything the assembler put together, returned already or not. *)
Results == outputs \o pending

IsAggregate(pkt) == pkt.id.kind \in {"reassembled", "partial"}

(* The pieces of one datagram are never mixed with those of another, and   *)
(* stand in the order of their offsets.                                    *)
AggregatesAreOneDatagram ==
    \A n \in DOMAIN Results :
        LET out == Results[n] IN
        IsAggregate(out) =>
            /\ \A k \in DOMAIN out.payload :
                  LET part == fed[out.payload[k]] IN
                  /\ part.isFragment
                  /\ part.stream = out.stream
                  /\ part.seq = out.seq
            /\ \A k, l \in DOMAIN out.payload :
                  k < l => fed[out.payload[k]].off < fed[out.payload[l]].off

(* A reassembled packet is whole: for every offset below the total that one*)
(* fragment of its datagram declared, it has the payload of a fragment with*)
(* that offset, or there was a fragment with that offset and no payload. A *)
(* total of 0 counts as Modulus, as in NewWindow.                          *)
ReassembledIsWhole ==
    \A n \in DOMAIN outputs :
        LET out   == outputs[n]
            parts == {i \in DOMAIN fed : /\ fed[i].isFragment
                                         /\ fed[i].stream = out.stream
                                         /\ fed[i].seq = out.seq}
            has(off) == \E j \in parts :
                            /\ fed[j].off = off
                            /\ fed[j].payload = << >> \/ j \in Range(out.payload)
        IN  out.id.kind = "reassembled" =>
                \E i \in parts : \A off \in 0 .. (fed[i].total - 1) % Modulus : has(off)

-----------------------------------------------------------------------------
(* Where the fragment with number i is. *)

LivePlaces(i) ==
    {s \in DOMAIN entries : \E off \in DOMAIN entries[s].frags :
                                entries[s].frags[off] = << i >>}

OutPlaces(i) ==
    {n \in DOMAIN Results : \E k \in DOMAIN Results[n].payload :
                                Results[n].payload[k] = i}

Places(i) == Cardinality(LivePlaces(i)) + Cardinality(OutPlaces(i))

(* Nothing is duplicated, whatever is evicted, replaced or flushed between *)
(* the fragments of a datagram: a piece of payload leaves at most once.    *)
NoFragmentTwice == \A i \in DOMAIN fed : Places(i) <= 1

(* Nothing is lost except by a Feed that evicts the window it opens: what a*)
(* live window held stays in it until an aggregate carries it out.         *)
HeldIsNeverLost ==
    [][\A i \in DOMAIN fed : Places(i) = 1 => (Places(i) = 1)']_historyVars

-----------------------------------------------------------------------------
(* What the comments of assembler.go say. *)

(* assembler.go:16: a window that expires or is replaced puts out a partial*)
(* result, so a fragment the window accepted is still held or has left.    *)
AcceptedNeverVanishes == \A i \in accepted : Places(i) = 1

=============================================================================
