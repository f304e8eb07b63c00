------------------------------ MODULE Assembler ------------------------------
(***************************************************************************)
(* The fragment reassembler (internal/reassemble): one window per stream,  *)
(* a bounded number of windows, partial results for windows that end       *)
(* before they are complete.  Every method of Assembler runs under its     *)
(* mutex and is one atomic step.                                           *)
(*                                                                         *)
(* Window.State and Window.Received are functions of the fragments a       *)
(* window holds and are not kept.                                          *)
(***************************************************************************)
EXTENDS Packets, SequencesExt

CONSTANTS
    Limit,          \* the window limit (reassembly_limit)
    Arrivals,       \* the packets fed to the assembler
    MaxFed          \* bound on the number of Feed calls, for model checking

(* config.Validate refuses a limit below one. *)
ASSUME LimitAssumption == Limit \in Nat \ {0}

ASSUME ArrivalsAssumption == \A pkt \in Arrivals : pkt \in Packet({pkt.payload})

ASSUME MaxFedAssumption == MaxFed \in Nat

VARIABLES
    entries,        \* stream -> its live window
    order,          \* streams, one element per window opened (container/list)
    pending,        \* partial results not drained yet
    asmStats        \* counters of Stats

asmVars == <<entries, order, pending, asmStats>>

AsmInit ==
    /\ entries  = << >>
    /\ order    = << >>
    /\ pending  = << >>
    /\ asmStats = [fragments |-> 0, assembled |-> 0, expired |-> 0,
                   dropped |-> 0, passThrough |-> 0]

-----------------------------------------------------------------------------
(* Windows *)

(* A total of 0 wraps the end around to the largest offset. *)
NewWindow(pkt) ==
    [seq |-> pkt.seq, end |-> (pkt.total - 1) % Modulus, frags |-> << >>]

(* Mutant CompleteEarly: the right end of the window is taken as open.     *)
(* The loop of Window.Complete would not end for End = Modulus - 1 with    *)
(* every fragment present; no capture file has 2^32 fragments.             *)
CompleteEarly(w) == 0 .. w.end - 1 \subseteq DOMAIN w.frags

Complete(w) == 0 .. w.end \subseteq DOMAIN w.frags

(* Mutant: the offsets are sorted the wrong way round. *)
AssembleBackwards(w) ==
    FlattenSeq([i \in 1 .. w.end + 1 |->
                  IF w.end + 1 - i \in DOMAIN w.frags THEN w.frags[w.end + 1 - i] ELSE << >>])

Assemble(w) ==
    FlattenSeq([i \in 1 .. w.end + 1 |->
                  IF i - 1 \in DOMAIN w.frags THEN w.frags[i - 1] ELSE << >>])

(* Mutant: Feed and Add do not ask Window.Within. *)
AcceptsAnyOffset(w, pkt) == pkt.seq = w.seq /\ pkt.off \notin DOMAIN w.frags

(* Window.Within and the duplicate check of Window.Add, behind the test of *)
(* Feed that the fragment belongs to the window.                           *)
Accepts(w, pkt) ==
    /\ pkt.seq = w.seq
    /\ pkt.off <= w.end
    /\ pkt.off \notin DOMAIN w.frags

Add(w, pkt) ==
    [seq   |-> w.seq,
     end   |-> w.end,
     frags |-> [off \in DOMAIN w.frags \cup {pkt.off} |->
                  IF off = pkt.off THEN pkt.payload ELSE w.frags[off]]]

(* The partial result of a window that expires, if there is one. *)
Rest(stream) ==
    LET w == entries[stream]
        p == Assemble(w)
    IN  IF Complete(w) \/ p = << >>
        THEN << >>
        ELSE << Whole("partial", stream, w.seq, p) >>

(* Expiring the live windows of a list of streams, first to last. *)
IsFirst(q, i) == \A j \in 1 .. i - 1 : q[j] # q[i]

RestOf(q) ==
    FlattenSeq([i \in 1 .. Len(q) |->
                  IF q[i] \in DOMAIN entries /\ IsFirst(q, i) THEN Rest(q[i]) ELSE << >>])

-----------------------------------------------------------------------------
(* Feed *)

PassThrough(pkt) ==
    /\ ~ pkt.isFragment
    /\ asmStats' = [asmStats EXCEPT !.passThrough = @ + 1]
    /\ UNCHANGED <<entries, order, pending>>

Opens(pkt) == pkt.stream \notin DOMAIN entries

Replaces(pkt) == ~ Opens(pkt) /\ pkt.seq > entries[pkt.stream].seq

(* The window that Feed offers the fragment to. *)
Target(pkt) ==
    IF Opens(pkt) \/ Replaces(pkt) THEN NewWindow(pkt) ELSE entries[pkt.stream]

(* Mutant: the list may grow one element over the limit. *)
OverflowLate(pkt) ==
    IF Opens(pkt) /\ Len(order) > Limit
    THEN SubSeq(Append(order, pkt.stream), 1, Len(order) - Limit)
    ELSE << >>

(* The elements enforceLimitLocked removes from the front of the list when *)
(* a window opens.  It counts elements, live or not.                       *)
Overflow(pkt) ==
    IF Opens(pkt) /\ Len(order) + 1 > Limit
    THEN SubSeq(Append(order, pkt.stream), 1, Len(order) + 1 - Limit)
    ELSE << >>

(* Mutant: only the window of the first element removed is expired. *)
EvictedFirst(pkt) ==
    {s \in DOMAIN entries \cup {pkt.stream} :
        Overflow(pkt) # << >> /\ s = Head(Overflow(pkt))}

(* The streams whose window ends because of that.  The stream of the packet*)
(* is among them when the list still holds an older element of it: the     *)
(* window just opened is then out of the map before its fragment is added. *)
Evicted(pkt) ==
    {s \in DOMAIN entries \cup {pkt.stream} : s \in Range(Overflow(pkt))}

Completes(pkt) ==
    Accepts(Target(pkt), pkt) /\ Complete(Add(Target(pkt), pkt))

(* What Feed returns: a packet to store, or none. *)
FeedResult(pkt) ==
    IF ~ pkt.isFragment    THEN << pkt >>
    ELSE IF Completes(pkt) THEN << Whole("reassembled", pkt.stream, pkt.seq,
                                         Assemble(Add(Target(pkt), pkt))) >>
    ELSE                        << >>

EntriesAfter(pkt) ==
    LET kept == DOMAIN entries \ ({pkt.stream} \cup Evicted(pkt))
        w    == IF Accepts(Target(pkt), pkt) THEN Add(Target(pkt), pkt) ELSE Target(pkt)
        live == IF Completes(pkt) \/ pkt.stream \in Evicted(pkt)
                THEN kept ELSE kept \cup {pkt.stream}
    IN  [s \in live |-> IF s = pkt.stream THEN w ELSE entries[s]]

OrderAfter(pkt) ==
    IF Opens(pkt) \/ Replaces(pkt)
    THEN SubSeq(Append(order, pkt.stream), Len(Overflow(pkt)) + 1, Len(order) + 1)
    ELSE order

FeedFragment(pkt) ==
    LET ended == IF Replaces(pkt) THEN << pkt.stream >> ELSE Overflow(pkt)
        count(b) == IF b THEN 1 ELSE 0
    IN
    /\ pkt.isFragment
    /\ entries'  = EntriesAfter(pkt)
    /\ order'    = OrderAfter(pkt)
    /\ pending'  = pending \o RestOf(ended)
    /\ asmStats' = [asmStats EXCEPT
                      !.fragments = @ + 1,
                      !.expired   = @ + IF Replaces(pkt) THEN 1
                                        ELSE Cardinality(Evicted(pkt)),
                      !.dropped   = @ + count(~ Accepts(Target(pkt), pkt)),
                      !.assembled = @ + count(Completes(pkt))]

Feed(pkt) == PassThrough(pkt) \/ FeedFragment(pkt)

-----------------------------------------------------------------------------
(* Drain and FlushExpired *)

(* Mutant: the partial results that were returned are kept. *)
DrainKeeping == UNCHANGED <<entries, order, pending, asmStats>>

Drain ==
    /\ pending' = << >>
    /\ UNCHANGED <<entries, order, asmStats>>

Flushable == DOMAIN entries \cap Range(order)

(* Mutant: partial results not drained before are forgotten. *)
FlushResultOwn == IF Flushable = {} THEN << >> ELSE RestOf(order)

(* Earlier partial results leave with the first window that is flushed,    *)
(* and stay when there is none. *)
FlushResult ==
    IF Flushable = {} THEN << >> ELSE pending \o RestOf(order)

(* Each flushed stream leaves the first of its elements in the list, every *)
(* other element goes.                                                     *)
FirstElements(live) ==
    LET first(s) == CHOOSE i \in DOMAIN order : order[i] = s /\ IsFirst(order, i)
    IN  {q \in [1 .. Cardinality(live) -> live] :
            \A i, j \in 1 .. Cardinality(live) : i < j => first(q[i]) < first(q[j])}

FlushExpired ==
    /\ entries'  = Restrict(entries, DOMAIN entries \ Flushable)
    /\ order'    \in FirstElements(Flushable)
    /\ pending'  = IF Flushable = {} THEN pending ELSE << >>
    /\ asmStats' = [asmStats EXCEPT !.expired = @ + Cardinality(Flushable)]

AsmNext ==
    \/ /\ asmStats.fragments + asmStats.passThrough < MaxFed
       /\ \E pkt \in Arrivals : Feed(pkt)
    \/ Drain
    \/ FlushExpired

AsmSpec == AsmInit /\ [][AsmNext]_asmVars

-----------------------------------------------------------------------------
WindowsTypeOK ==
    /\ DOMAIN entries \subseteq Streams
    /\ \A s \in DOMAIN entries :
          /\ entries[s].seq \in Nat
          /\ entries[s].end \in UInt32
          /\ DOMAIN entries[s].frags \subseteq 0 .. entries[s].end
    /\ order \in Seq(Streams)

AsmTypeOK ==
    /\ WindowsTypeOK
    /\ \A i \in DOMAIN pending : pending[i] \in Packet({pending[i].payload})
    /\ \A c \in DOMAIN asmStats : asmStats[c] \in Nat

(* Every live window has an element in the list.  Eviction and the final   *)
(* flush find windows through the list only: a window without an element   *)
(* would keep its fragments for ever.                                      *)
NoOrphanWindow == DOMAIN entries \subseteq Range(order)

(* The limit on live windows holds, although only the opening of a window  *)
(* enforces it and a replacement (assembler.go:61-66) does not.            *)
ActiveWindowsBounded == Cardinality(DOMAIN entries) <= Limit

(* No live window is complete: Feed takes a window out of the map with the *)
(* fragment that completes it, so the branches for StateComplete in        *)
(* expireEntryLocked and FlushExpired never discard an assembled payload.  *)
LiveWindowsIncomplete == \A s \in DOMAIN entries : ~ Complete(entries[s])

(* A stream's live window belongs to the newest datagram among those that  *)
(* are open: an older fragment never replaces a newer window.              *)
WindowsNeverGoBack ==
    [][\A s \in DOMAIN entries \cap DOMAIN entries' :
          entries'[s].seq >= entries[s].seq]_asmVars

=============================================================================
