--------------------------- MODULE AssemblerProofs ---------------------------
(***************************************************************************)
(* The windows of the reassembler, for every set of streams, every limit   *)
(* and every sequence of packets.  A step on a packet is proved for every  *)
(* packet that can be fed (IsArrival), so that the capture service and the *)
(* history of the reassembler can cite it for theirs.                      *)
(***************************************************************************)
EXTENDS Assembler, FiniteSetTheorems, SequenceLemmas

(* The inductive invariant.  The limit alone is not inductive: the opening *)
(* of a window bounds the list, and the list bounds the windows only while *)
(* each live window has an element in it.                                  *)
AsmInv ==
    /\ WindowsTypeOK
    /\ NoOrphanWindow
    /\ ActiveWindowsBounded

-----------------------------------------------------------------------------
(* A set that a sequence covers is no larger than the sequence. *)
LEMMA CoveredIsSmall ==
    ASSUME NEW S, NEW q \in Seq(S), NEW T, T \subseteq Range(q)
    PROVE  IsFiniteSet(T) /\ Cardinality(T) <= Len(q) /\ Cardinality(T) \in Nat
<1>0. Len(q) \in Nat
  OBVIOUS
<1>1. q \in Surjection(1 .. Len(q), Range(q))
  BY DEF Surjection, Range
<1>2. IsFiniteSet(1 .. Len(q)) /\ Cardinality(1 .. Len(q)) = Len(q)
  BY SMTT(30), <1>0, FS_Interval
<1>3. IsFiniteSet(Range(q)) /\ Cardinality(Range(q)) <= Len(q)
  BY <1>1, <1>2, FS_Surjection
<1>4. IsFiniteSet(T) /\ Cardinality(T) <= Cardinality(Range(q))
  BY <1>3, FS_Subset
<1> QED BY <1>3, <1>4, FS_CardinalityType

-----------------------------------------------------------------------------
(* The window that takes a fragment *)

(* What the reassembler rests on in a packet: no more than its types. *)
IsArrival(pkt) ==
    /\ pkt.stream \in Streams
    /\ pkt.seq \in Nat
    /\ pkt.off \in UInt32
    /\ pkt.total \in UInt32

(* The same facts, the offsets as natural numbers. *)
LEMMA ArrivalTypes ==
    ASSUME NEW pkt, IsArrival(pkt)
    PROVE  /\ pkt.stream \in Streams
           /\ pkt.seq \in Nat
           /\ pkt.off \in Nat
           /\ pkt.total \in Nat
BY PacketsAssumption DEF IsArrival, UInt32

(* The packets fed to the reassembler are typed. *)
LEMMA ArrivalsArrive == \A pkt \in Arrivals : IsArrival(pkt)
BY ArrivalsAssumption DEF Packet, IsArrival

(* The end of a new window is a uint32, also for a total of 0. *)
LEMMA NewWindowTypes ==
    ASSUME NEW pkt, IsArrival(pkt)
    PROVE  /\ NewWindow(pkt).seq \in Nat
           /\ NewWindow(pkt).end \in UInt32
           /\ DOMAIN NewWindow(pkt).frags = {}
<1>1. (pkt.total - 1) % Modulus \in 0 .. Modulus - 1
  BY ArrivalTypes, PacketsAssumption
<1> QED BY <1>1, ArrivalTypes DEF NewWindow, UInt32

(* The window is a live one or a new one. *)
LEMMA TargetTypes ==
    ASSUME WindowsTypeOK, NEW pkt, IsArrival(pkt)
    PROVE  /\ Target(pkt).seq \in Nat
           /\ Target(pkt).end \in UInt32
           /\ DOMAIN Target(pkt).frags \subseteq 0 .. Target(pkt).end
<1>1. CASE Opens(pkt) \/ Replaces(pkt)
  BY <1>1, NewWindowTypes DEF Target
<1>2. CASE ~ (Opens(pkt) \/ Replaces(pkt))
  BY <1>2 DEF Target, Opens, WindowsTypeOK
<1> QED BY <1>1, <1>2

(* Adding a fragment that the window accepts keeps it a window. *)
LEMMA AddTypes ==
    ASSUME WindowsTypeOK, NEW pkt, IsArrival(pkt), Accepts(Target(pkt), pkt)
    PROVE  /\ Add(Target(pkt), pkt).seq \in Nat
           /\ Add(Target(pkt), pkt).end \in UInt32
           /\ DOMAIN Add(Target(pkt), pkt).frags \subseteq 0 .. Add(Target(pkt), pkt).end
<1>1. pkt.off \in 0 .. Target(pkt).end
  BY ArrivalTypes, TargetTypes DEF Accepts, UInt32
<1>2. /\ Add(Target(pkt), pkt).seq = Target(pkt).seq
      /\ Add(Target(pkt), pkt).end = Target(pkt).end
      /\ DOMAIN Add(Target(pkt), pkt).frags = DOMAIN Target(pkt).frags \cup {pkt.off}
  BY DEF Add
<1> QED BY <1>1, <1>2, TargetTypes

-----------------------------------------------------------------------------
(* The list that a fragment leaves behind.  Overflow is what eviction takes*)
(* off its front, OrderAfter what stays.                                   *)

(* The list with the element of a new window. *)
LEMMA OrderTypes ==
    ASSUME WindowsTypeOK, NEW pkt, IsArrival(pkt)
    PROVE  /\ order \in Seq(Streams)
           /\ Len(order) \in Nat
           /\ Append(order, pkt.stream) \in Seq(Streams)
           /\ Len(Append(order, pkt.stream)) = Len(order) + 1
           /\ \A i \in 1 .. Len(order) : Append(order, pkt.stream)[i] = order[i]
           /\ Append(order, pkt.stream)[Len(order) + 1] = pkt.stream
BY ArrivalTypes DEF WindowsTypeOK

(* How many elements leave the list. *)
LEMMA OverflowLength ==
    ASSUME WindowsTypeOK, NEW pkt, IsArrival(pkt)
    PROVE  /\ Len(Overflow(pkt)) = IF Opens(pkt) /\ Len(order) + 1 > Limit
                                   THEN Len(order) + 1 - Limit ELSE 0
           /\ Len(Overflow(pkt)) \in 0 .. Len(order)
           /\ \A i \in 1 .. Len(Overflow(pkt)) :
                 Overflow(pkt)[i] = Append(order, pkt.stream)[i]
<1>1. CASE Opens(pkt) /\ Len(order) + 1 > Limit
  <2>1. Overflow(pkt) = SubSeq(Append(order, pkt.stream), 1, Len(order) + 1 - Limit)
    BY <1>1 DEF Overflow
  <2>2. Len(order) + 1 - Limit \in 1 .. Len(order)
    BY <1>1, OrderTypes, LimitAssumption
  <2> QED BY <1>1, <2>1, <2>2, OrderTypes
<1>2. CASE ~ (Opens(pkt) /\ Len(order) + 1 > Limit)
  BY <1>2, OrderTypes DEF Overflow
<1> QED BY <1>1, <1>2

(* The list after the arrival, and that it is within the limit whenever the
   arrival has opened a window. *)
LEMMA OrderAfterTypes ==
    ASSUME WindowsTypeOK, NEW pkt, IsArrival(pkt)
    PROVE  /\ OrderAfter(pkt) \in Seq(Streams)
           /\ Opens(pkt) => Len(OrderAfter(pkt)) <= Limit
           /\ Opens(pkt) \/ Replaces(pkt) =>
                /\ Len(OrderAfter(pkt)) = Len(order) + 1 - Len(Overflow(pkt))
                /\ \A i \in 1 .. Len(OrderAfter(pkt)) :
                      OrderAfter(pkt)[i] = Append(order, pkt.stream)[Len(Overflow(pkt)) + i]
<1>1. CASE Opens(pkt) \/ Replaces(pkt)
  <2> DEFINE k == Len(Overflow(pkt))
             grown == Append(order, pkt.stream)
  <2>1. /\ k \in 0 .. Len(order)
        /\ grown \in Seq(Streams)
        /\ Len(grown) = Len(order) + 1
        /\ Len(order) \in Nat
    BY OrderTypes, OverflowLength
  <2>2. OrderAfter(pkt) = SubSeq(grown, k + 1, Len(order) + 1)
    BY <1>1 DEF OrderAfter
  <2> HIDE DEF k, grown
  <2>3. /\ OrderAfter(pkt) \in Seq(Streams)
        /\ Len(OrderAfter(pkt)) = Len(order) + 1 - k
        /\ \A i \in 1 .. Len(OrderAfter(pkt)) : OrderAfter(pkt)[i] = grown[k + i]
    BY <2>1, <2>2
  <2>4. Opens(pkt) => Len(order) + 1 - k <= Limit
    BY <2>1, OverflowLength, LimitAssumption DEF k
  <2> QED BY <2>3, <2>4 DEF k, grown
<1>2. CASE ~ (Opens(pkt) \/ Replaces(pkt))
  BY <1>2, OrderTypes DEF OrderAfter
<1> QED BY <1>1, <1>2

(* A stream whose window is live after the step keeps an element. *)
LEMMA KeptInOrder ==
    ASSUME AsmInv, NEW pkt, IsArrival(pkt),
           NEW s \in DOMAIN entries \cup {pkt.stream}, s \notin Evicted(pkt)
    PROVE  s \in Range(OrderAfter(pkt))
<1> DEFINE grown == Append(order, pkt.stream)
<1>0. WindowsTypeOK /\ NoOrphanWindow
  BY DEF AsmInv
<1>1. \E i \in 1 .. Len(order) + 1 : grown[i] = s
  <2>1. CASE s = pkt.stream
    BY <1>0, <2>1, OrderTypes
  <2>2. CASE s \in DOMAIN entries
    <3>1. PICK i \in 1 .. Len(order) : order[i] = s
      BY <1>0, <2>2, OrderTypes DEF NoOrphanWindow, Range
    <3> QED BY <1>0, <3>1, OrderTypes
  <2> QED BY <2>1, <2>2
<1>2. CASE Opens(pkt) \/ Replaces(pkt)
  <2>1. PICK i \in 1 .. Len(order) + 1 : grown[i] = s
    BY <1>1
  <2>2. i > Len(Overflow(pkt))
    <3>1. Overflow(pkt) = << >> \/ Overflow(pkt) \in Seq(Streams)
      BY <1>0, OrderTypes, LimitAssumption DEF Overflow
    <3>2. SUFFICES ASSUME i <= Len(Overflow(pkt)) PROVE FALSE
      BY <1>0, OverflowLength, OrderTypes
    <3>3. i \in DOMAIN Overflow(pkt) /\ Overflow(pkt)[i] = s
      BY <1>0, <2>1, <3>1, <3>2, OverflowLength, OrderTypes
    <3> QED BY <3>3 DEF Evicted, Range
  <2>3. i - Len(Overflow(pkt)) \in 1 .. Len(OrderAfter(pkt))
    BY <1>0, <1>2, <2>2, OrderAfterTypes, OverflowLength, OrderTypes
  <2>4. OrderAfter(pkt)[i - Len(Overflow(pkt))]
          = grown[Len(Overflow(pkt)) + (i - Len(Overflow(pkt)))]
    BY <1>0, <1>2, <2>3, OrderAfterTypes
  <2>5. Len(Overflow(pkt)) + (i - Len(Overflow(pkt))) = i
    BY <1>0, OverflowLength, OrderTypes
  <2> QED BY <1>0, <2>1, <2>3, <2>4, <2>5, OrderAfterTypes DEF Range
<1>3. CASE ~ (Opens(pkt) \/ Replaces(pkt))
  <2>1. s \in DOMAIN entries /\ OrderAfter(pkt) = order
    BY <1>3 DEF Opens, OrderAfter
  <2> QED BY <1>0, <2>1 DEF NoOrphanWindow
<1> QED BY <1>2, <1>3

-----------------------------------------------------------------------------
(* Preservation by a fragment *)

(* The live windows after the step: those not evicted, and the fragment's. *)
LEMMA EntriesAfterDomain ==
    ASSUME NEW pkt, IsArrival(pkt)
    PROVE  DOMAIN EntriesAfter(pkt) \subseteq
             (DOMAIN entries \cup {pkt.stream}) \ Evicted(pkt)
BY DEF EntriesAfter

(* Feed keeps the types of windows and list. *)
LEMMA FragmentKeepsTypes ==
    ASSUME AsmInv, NEW pkt, IsArrival(pkt), FeedFragment(pkt)
    PROVE  WindowsTypeOK'
<1>0. WindowsTypeOK
  BY DEF AsmInv
<1>1. entries' = EntriesAfter(pkt) /\ order' = OrderAfter(pkt)
  BY DEF FeedFragment
<1>2. DOMAIN entries' \subseteq Streams
  BY <1>0, <1>1, EntriesAfterDomain, ArrivalTypes DEF WindowsTypeOK
<1>3. ASSUME NEW s \in DOMAIN entries'
      PROVE  /\ entries'[s].seq \in Nat
             /\ entries'[s].end \in UInt32
             /\ DOMAIN entries'[s].frags \subseteq 0 .. entries'[s].end
  <2>1. CASE s = pkt.stream /\ Accepts(Target(pkt), pkt)
    <3>1. entries'[s] = Add(Target(pkt), pkt)
      BY <1>1, <1>3, <2>1 DEF EntriesAfter
    <3> QED BY <1>0, <2>1, <3>1, AddTypes
  <2>2. CASE s = pkt.stream /\ ~ Accepts(Target(pkt), pkt)
    <3>1. entries'[s] = Target(pkt)
      BY <1>1, <1>3, <2>2 DEF EntriesAfter
    <3> QED BY <1>0, <3>1, TargetTypes
  <2>3. CASE s # pkt.stream
    <3>1. s \in DOMAIN entries /\ entries'[s] = entries[s]
      BY <1>1, <1>3, <2>3 DEF EntriesAfter
    <3> QED BY <1>0, <3>1 DEF WindowsTypeOK
  <2> QED BY <2>1, <2>2, <2>3
<1>4. order' \in Seq(Streams)
  BY <1>0, <1>1, OrderAfterTypes
<1> QED BY <1>2, <1>3, <1>4 DEF WindowsTypeOK

(* Feed leaves no window without an element. *)
LEMMA FragmentKeepsOrder ==
    ASSUME AsmInv, NEW pkt, IsArrival(pkt), FeedFragment(pkt)
    PROVE  NoOrphanWindow'
BY EntriesAfterDomain, KeptInOrder DEF FeedFragment, NoOrphanWindow

(* Opening a window leaves a list no longer than the limit; any other      *)
(* fragment adds no window. *)
LEMMA FragmentKeepsBound ==
    ASSUME AsmInv, NEW pkt, IsArrival(pkt), FeedFragment(pkt)
    PROVE  ActiveWindowsBounded'
<1>0. WindowsTypeOK /\ NoOrphanWindow /\ ActiveWindowsBounded
  BY DEF AsmInv
<1>1. entries' = EntriesAfter(pkt) /\ order' = OrderAfter(pkt)
  BY DEF FeedFragment
<1>2. CASE Opens(pkt)
  <2>1. order' \in Seq(Streams) /\ Len(order') <= Limit /\ Len(order') \in Nat
    BY <1>0, <1>1, <1>2, OrderAfterTypes
  <2>2. DOMAIN entries' \subseteq Range(order')
    BY FragmentKeepsOrder DEF NoOrphanWindow
  <2>3. Cardinality(DOMAIN entries') <= Len(order') /\ Cardinality(DOMAIN entries') \in Nat
    BY <2>1, <2>2, CoveredIsSmall
  <2> QED BY <2>1, <2>3, LimitAssumption DEF ActiveWindowsBounded
<1>3. CASE ~ Opens(pkt)
  <2>1. DOMAIN entries' \subseteq DOMAIN entries
    BY <1>1, <1>3, EntriesAfterDomain DEF Opens
  <2>2. IsFiniteSet(DOMAIN entries)
    BY <1>0, CoveredIsSmall DEF WindowsTypeOK, NoOrphanWindow
  <2>3. /\ Cardinality(DOMAIN entries') <= Cardinality(DOMAIN entries)
        /\ Cardinality(DOMAIN entries') \in Nat
        /\ Cardinality(DOMAIN entries) \in Nat
    BY <2>1, <2>2, FS_Subset, FS_CardinalityType
  <2> QED BY <1>0, <2>3, LimitAssumption DEF ActiveWindowsBounded
<1> QED BY <1>2, <1>3

(* Feed keeps the invariant. *)
LEMMA FragmentKeepsInv ==
    ASSUME AsmInv, NEW pkt, IsArrival(pkt), FeedFragment(pkt)
    PROVE  AsmInv'
BY FragmentKeepsTypes, FragmentKeepsOrder, FragmentKeepsBound DEF AsmInv

-----------------------------------------------------------------------------
(* The other steps *)

(* Drain and the feeding of whole packets leave the windows alone. *)
LEMMA UnchangedWindows ==
    ASSUME AsmInv, UNCHANGED <<entries, order>>
    PROVE  AsmInv'
BY DEF AsmInv, WindowsTypeOK, NoOrphanWindow, ActiveWindowsBounded

(* Every live window has an element, so the flush takes them all. *)
LEMMA FlushKeepsInv ==
    ASSUME AsmInv, FlushExpired
    PROVE  AsmInv'
<1>0. WindowsTypeOK /\ NoOrphanWindow
  BY DEF AsmInv
<1>1. Flushable = DOMAIN entries
  BY <1>0 DEF NoOrphanWindow, Flushable
<1>2. DOMAIN entries' = {}
  BY <1>1 DEF FlushExpired, Restrict
<1>3. order' \in Seq(Streams)
  <2>1. IsFiniteSet(Flushable) /\ Flushable \subseteq Streams
    BY <1>0, <1>1, CoveredIsSmall DEF WindowsTypeOK, NoOrphanWindow
  <2>2. Cardinality(Flushable) \in Nat
    BY <2>1, FS_CardinalityType
  <2>3. order' \in [1 .. Cardinality(Flushable) -> Flushable]
    BY DEF FlushExpired, FirstElements
  <2> QED BY <2>1, <2>2, <2>3
<1>4. WindowsTypeOK' /\ NoOrphanWindow'
  BY <1>2, <1>3 DEF WindowsTypeOK, NoOrphanWindow
<1>5. ActiveWindowsBounded'
  BY <1>2, FS_EmptySet, LimitAssumption DEF ActiveWindowsBounded
<1> QED BY <1>4, <1>5 DEF AsmInv

(* The new assembler satisfies the invariant. *)
LEMMA AsmInvInit == AsmInit => AsmInv
<1> SUFFICES ASSUME AsmInit PROVE AsmInv
  OBVIOUS
<1>1. DOMAIN entries = {} /\ order = << >>
  BY DEF AsmInit
<1>2. WindowsTypeOK /\ NoOrphanWindow
  BY <1>1 DEF WindowsTypeOK, NoOrphanWindow
<1>3. ActiveWindowsBounded
  BY <1>1, FS_EmptySet, LimitAssumption DEF ActiveWindowsBounded
<1> QED BY <1>2, <1>3 DEF AsmInv

(* Every operation keeps the invariant. *)
LEMMA AsmInvStep == AsmInv /\ [AsmNext]_asmVars => AsmInv'
<1> SUFFICES ASSUME AsmInv, [AsmNext]_asmVars PROVE AsmInv'
  OBVIOUS
<1>1. ASSUME NEW pkt \in Arrivals, PassThrough(pkt) PROVE AsmInv'
  BY <1>1, UnchangedWindows DEF PassThrough
<1>2. ASSUME NEW pkt \in Arrivals, FeedFragment(pkt) PROVE AsmInv'
  BY <1>2, ArrivalsArrive, FragmentKeepsInv
<1>3. CASE Drain
  BY <1>3, UnchangedWindows DEF Drain
<1>4. CASE FlushExpired
  BY <1>4, FlushKeepsInv
<1>5. CASE UNCHANGED asmVars
  BY <1>5, UnchangedWindows DEF asmVars
<1> QED BY <1>1, <1>2, <1>3, <1>4, <1>5 DEF AsmNext, Feed

(* Every reachable state satisfies the inductive invariant. *)
LEMMA AsmInvHolds == AsmSpec => []AsmInv
BY AsmInvInit, AsmInvStep, PTL DEF AsmSpec

(* Windows and list keep their types, whatever totals and offsets the      *)
(* fragments declare: the uint32 end of a window wraps around but stays a  *)
(* uint32 (window.go:32). *)
THEOREM WindowsTypeCorrect == AsmSpec => []WindowsTypeOK
<1>1. AsmInv => WindowsTypeOK
  BY DEF AsmInv
<1> QED BY <1>1, AsmInvHolds, PTL

(* No window is ever out of reach of eviction and flush. *)
THEOREM NoWindowOrphaned == AsmSpec => []NoOrphanWindow
<1>1. AsmInv => NoOrphanWindow
  BY DEF AsmInv
<1> QED BY <1>1, AsmInvHolds, PTL

(* The window limit holds for every limit and every number of streams      *)
(* (assembler.go:94-105), although replacements bypass its enforcement.    *)
THEOREM WindowLimitHolds == AsmSpec => []ActiveWindowsBounded
<1>1. AsmInv => ActiveWindowsBounded
  BY DEF AsmInv
<1> QED BY <1>1, AsmInvHolds, PTL

-----------------------------------------------------------------------------
(* What Feed leaves in the map is what it was, or the window it offered    *)
(* the fragment to, without the fragment that would complete it.           *)
LEMMA WindowAfter ==
    ASSUME NEW pkt, IsArrival(pkt), NEW s \in DOMAIN EntriesAfter(pkt)
    PROVE  \/ s # pkt.stream /\ s \in DOMAIN entries /\ EntriesAfter(pkt)[s] = entries[s]
           \/ /\ s = pkt.stream
              /\ ~ Completes(pkt)
              /\ EntriesAfter(pkt)[s] = IF Accepts(Target(pkt), pkt)
                                        THEN Add(Target(pkt), pkt) ELSE Target(pkt)
BY DEF EntriesAfter

(* The window a fragment is offered to still misses one. *)
LEMMA TargetIncomplete ==
    ASSUME WindowsTypeOK, LiveWindowsIncomplete, NEW pkt, IsArrival(pkt)
    PROVE  ~ Complete(Target(pkt))
<1>1. CASE Opens(pkt) \/ Replaces(pkt)
  <2>1. Target(pkt) = NewWindow(pkt)
    BY <1>1 DEF Target
  <2>2. 0 \in 0 .. NewWindow(pkt).end
    BY NewWindowTypes, PacketsAssumption DEF UInt32
  <2> QED BY <2>1, <2>2, NewWindowTypes DEF Complete
<1>2. CASE ~ (Opens(pkt) \/ Replaces(pkt))
  BY <1>2 DEF Target, Opens, LiveWindowsIncomplete
<1> QED BY <1>1, <1>2

(* No window survives the flush. *)
LEMMA FlushClearsWindows ==
    ASSUME AsmInv, FlushExpired
    PROVE  DOMAIN entries' = {}
<1>1. Flushable = DOMAIN entries
  BY DEF AsmInv, NoOrphanWindow, Flushable
<1> QED BY <1>1 DEF FlushExpired, Restrict

(* Feed leaves no complete window behind. *)
LEMMA FragmentKeepsIncomplete ==
    ASSUME AsmInv, LiveWindowsIncomplete, NEW pkt, IsArrival(pkt), FeedFragment(pkt)
    PROVE  LiveWindowsIncomplete'
<1> SUFFICES ASSUME NEW s \in DOMAIN EntriesAfter(pkt)
             PROVE  ~ Complete(EntriesAfter(pkt)[s])
  BY DEF LiveWindowsIncomplete, FeedFragment, Complete
<1>1. CASE s # pkt.stream
  BY <1>1, WindowAfter DEF LiveWindowsIncomplete
<1>2. CASE s = pkt.stream /\ Accepts(Target(pkt), pkt)
  BY <1>2, WindowAfter DEF Completes
<1>3. CASE s = pkt.stream /\ ~ Accepts(Target(pkt), pkt)
  BY <1>3, WindowAfter, TargetIncomplete DEF AsmInv
<1> QED BY <1>1, <1>2, <1>3

(* The flush leaves no window at all. *)
LEMMA FlushKeepsIncomplete ==
    ASSUME AsmInv, FlushExpired
    PROVE  LiveWindowsIncomplete'
BY FlushClearsWindows DEF LiveWindowsIncomplete

(* A window leaves the map with the fragment that completes it, so eviction*)
(* and flush never meet a complete window, whose payload they would drop   *)
(* without a trace (assembler.go:76-88, 113-114, 151-152).                 *)
THEOREM LiveWindowsStayIncomplete == AsmSpec => []LiveWindowsIncomplete
<1>1. AsmInit => LiveWindowsIncomplete
  BY DEF AsmInit, LiveWindowsIncomplete
<1>2. AsmInv /\ LiveWindowsIncomplete /\ [AsmNext]_asmVars => LiveWindowsIncomplete'
  <2> SUFFICES ASSUME AsmInv, LiveWindowsIncomplete, [AsmNext]_asmVars
               PROVE  LiveWindowsIncomplete'
    OBVIOUS
  <2>1. ASSUME NEW pkt \in Arrivals, FeedFragment(pkt)
        PROVE  LiveWindowsIncomplete'
    BY <2>1, ArrivalsArrive, FragmentKeepsIncomplete
  <2>2. CASE UNCHANGED entries
    BY <2>2 DEF LiveWindowsIncomplete, Complete
  <2>3. CASE FlushExpired
    BY <2>3, FlushKeepsIncomplete
  <2> QED BY <2>1, <2>2, <2>3 DEF AsmNext, Feed, PassThrough, Drain, asmVars
<1> QED BY <1>1, <1>2, AsmInvHolds, PTL DEF AsmSpec

(* A late fragment of an older datagram never takes the place of the window*)
(* of a newer one (assembler.go:61-66): the live window of a stream moves  *)
(* on to higher sequence numbers only.                                     *)
THEOREM WindowsMoveOn == AsmSpec => WindowsNeverGoBack
<1>1. AsmInv /\ [AsmNext]_asmVars
        => [\A s \in DOMAIN entries \cap DOMAIN entries' :
               entries'[s].seq >= entries[s].seq]_asmVars
  <2> SUFFICES ASSUME AsmInv, AsmNext,
                      NEW s \in DOMAIN entries, s \in DOMAIN entries'
               PROVE  entries'[s].seq >= entries[s].seq
    OBVIOUS
  <2>0. entries[s].seq \in Nat
    BY DEF AsmInv, WindowsTypeOK
  <2>1. ASSUME NEW pkt \in Arrivals, FeedFragment(pkt)
        PROVE  entries'[s].seq >= entries[s].seq
    <3>1. entries' = EntriesAfter(pkt) /\ IsArrival(pkt)
      BY <2>1, ArrivalsArrive DEF FeedFragment
    <3>2. CASE s # pkt.stream
      BY <2>0, <3>1, <3>2, WindowAfter
    <3>3. CASE s = pkt.stream
      <4>1. entries'[s].seq = Target(pkt).seq
        <5>1. Add(Target(pkt), pkt).seq = Target(pkt).seq
          BY DEF Add
        <5>2. \/ entries'[s] = Add(Target(pkt), pkt)
              \/ entries'[s] = Target(pkt)
          BY <3>1, <3>3, WindowAfter
        <5> QED BY <5>1, <5>2
      <4>2. Target(pkt).seq >= entries[s].seq
        BY <2>0, <3>1, <3>3, ArrivalTypes DEF Target, Opens, Replaces, NewWindow
      <4> QED BY <4>1, <4>2
    <3> QED BY <3>2, <3>3
  <2>2. CASE UNCHANGED entries
    BY <2>0, <2>2
  <2>3. CASE FlushExpired
    BY <2>3, FlushClearsWindows
  <2> QED BY <2>1, <2>2, <2>3 DEF AsmNext, Feed, PassThrough, Drain
<1> QED BY <1>1, AsmInvHolds, PTL DEF AsmSpec, WindowsNeverGoBack

-----------------------------------------------------------------------------
(* The partial results *)

IsPacket(pkt) == pkt \in Packet({pkt.payload})

(* A partial result carries the window's stream and sequence number. *)
LEMMA RestTypes ==
    ASSUME WindowsTypeOK, NEW s \in DOMAIN entries
    PROVE  /\ IsSeq(Rest(s))
           /\ \A pkt \in Range(Rest(s)) : IsPacket(pkt)
<1> DEFINE p == Assemble(entries[s])
           w == Whole("partial", s, entries[s].seq, p)
<1>1. CASE Rest(s) = << >>
  BY <1>1, EmptyIsSeq
<1>2. CASE Rest(s) = << w >>
  <2>1. IsSeq(<< w >>) /\ Range(<< w >>) = {w}
    BY SingleIsSeq
  <2>2. s \in Streams /\ entries[s].seq \in Nat /\ 0 \in UInt32
    BY PacketsAssumption DEF WindowsTypeOK, UInt32
  <2>3. IsPacket(w)
    <3> HIDE DEF p
    <3> QED BY <2>2 DEF IsPacket, Whole, Packet, PacketID
  <2> HIDE DEF w
  <2> QED BY <1>2, <2>1, <2>3
<1> QED BY <1>1, <1>2 DEF Rest

(* What the windows that end in one step leave is a sequence of packets. *)
LEMMA RestOfTypes ==
    ASSUME WindowsTypeOK, NEW q, Len(q) \in Nat
    PROVE  /\ IsSeq(RestOf(q))
           /\ \A pkt \in Range(RestOf(q)) : IsPacket(pkt)
<1> DEFINE n == Len(q)
           s == [i \in 1 .. n |->
                   IF q[i] \in DOMAIN entries /\ IsFirst(q, i) THEN Rest(q[i]) ELSE << >>]
<1>1. /\ DOMAIN s = 1 .. n
      /\ Len(s) = n
      /\ s = [i \in 1 .. n |-> s[i]]
  OBVIOUS
<1>2. ASSUME NEW i \in 1 .. n
      PROVE  IsSeq(s[i]) /\ \A pkt \in Range(s[i]) : IsPacket(pkt)
  <2>1. s[i] = << >> \/ (q[i] \in DOMAIN entries /\ s[i] = Rest(q[i]))
    OBVIOUS
  <2> HIDE DEF s
  <2> QED BY <2>1, RestTypes, EmptyIsSeq
<1>3. RestOf(q) = FlattenSeq(s)
  BY DEF RestOf
<1> HIDE DEF s
<1>4. /\ IsSeq(FlattenSeq(s))
      /\ \A x \in Range(FlattenSeq(s)) : \E i \in 1 .. n : x \in Range(s[i])
  BY <1>1, <1>2, FlattenIsSeq
<1> QED BY <1>2, <1>3, <1>4

(* What a step adds to the counters is a natural number. *)
LEMMA EndedTypes ==
    ASSUME AsmInv, NEW pkt, IsArrival(pkt)
    PROVE  /\ Cardinality(Evicted(pkt)) \in Nat
           /\ Len(Overflow(pkt)) \in Nat
           /\ Cardinality(Flushable) \in Nat
           /\ Len(order) \in Nat
<1>0. WindowsTypeOK
  BY DEF AsmInv
<1>1. Overflow(pkt) \in Seq(Streams)
  BY <1>0, OrderTypes, LimitAssumption DEF Overflow
<1>2. Evicted(pkt) \subseteq Range(Overflow(pkt)) /\ Flushable \subseteq Range(order)
  BY DEF Evicted, Flushable
<1> QED BY <1>0, <1>1, <1>2, CoveredIsSmall DEF WindowsTypeOK

AsmTypeInv ==
    /\ AsmInv
    /\ IsSeq(pending)
    /\ \A pkt \in Range(pending) : IsPacket(pkt)
    /\ asmStats \in [fragments : Nat, assembled : Nat, expired : Nat,
                      dropped : Nat, passThrough : Nat]

(* Feed adds only packets to the list that Drain empties. *)
LEMMA FeedKeepsPending ==
    ASSUME WindowsTypeOK, IsSeq(pending), NEW pkt, IsArrival(pkt), FeedFragment(pkt)
    PROVE  /\ IsSeq(pending')
           /\ \A p \in Range(pending') : p \in Range(pending) \/ IsPacket(p)
<1> DEFINE ended == IF Replaces(pkt) THEN << pkt.stream >> ELSE Overflow(pkt)
<1>1. Len(ended) \in Nat
  BY OverflowLength, OrderTypes
<1>2. pending' = pending \o RestOf(ended)
  BY DEF FeedFragment
<1> HIDE DEF ended
<1> QED BY <1>1, <1>2, RestOfTypes, ConcatIsSeq

(* Every operation of the reassembler keeps the types. *)
LEMMA AsmTypeStep == AsmTypeInv /\ [AsmNext]_asmVars => AsmTypeInv'
<1> SUFFICES ASSUME AsmTypeInv, [AsmNext]_asmVars PROVE AsmTypeInv'
  OBVIOUS
<1>0. AsmInv' /\ WindowsTypeOK
  BY AsmInvStep DEF AsmTypeInv, AsmInv
<1>1. ASSUME NEW pkt \in Arrivals, PassThrough(pkt) PROVE AsmTypeInv'
  BY <1>0, <1>1 DEF PassThrough, AsmTypeInv
<1>2. ASSUME NEW pkt \in Arrivals, FeedFragment(pkt) PROVE AsmTypeInv'
  <2>1. /\ IsSeq(pending')
        /\ \A p \in Range(pending') : IsPacket(p)
    BY <1>0, <1>2, ArrivalsArrive, FeedKeepsPending DEF AsmTypeInv
  <2>2. asmStats' \in [fragments : Nat, assembled : Nat, expired : Nat,
                       dropped : Nat, passThrough : Nat]
    <3> DEFINE count(b) == IF b THEN 1 ELSE 0
               ends == IF Replaces(pkt) THEN 1 ELSE Cardinality(Evicted(pkt))
               drops == count(~ Accepts(Target(pkt), pkt))
               completes == count(Completes(pkt))
    <3>1. ends \in Nat /\ drops \in Nat /\ completes \in Nat
      BY EndedTypes, ArrivalsArrive DEF AsmTypeInv
    <3>2. asmStats' = [asmStats EXCEPT !.fragments = @ + 1, !.expired = @ + ends,
                                      !.dropped = @ + drops, !.assembled = @ + completes]
      BY <1>2 DEF FeedFragment
    <3> HIDE DEF ends, drops, completes
    <3>3. /\ asmStats.fragments + 1 \in Nat
          /\ asmStats.expired + ends \in Nat
          /\ asmStats.dropped + drops \in Nat
          /\ asmStats.assembled + completes \in Nat
      BY <3>1 DEF AsmTypeInv
    <3> QED BY <3>2, <3>3 DEF AsmTypeInv
  <2> QED BY <1>0, <2>1, <2>2 DEF AsmTypeInv
<1>3. CASE Drain
  BY <1>0, <1>3, EmptyIsSeq DEF Drain, AsmTypeInv
<1>4. CASE FlushExpired
  <2>1. IsSeq(pending') /\ \A p \in Range(pending') : IsPacket(p)
    BY <1>4, EmptyIsSeq DEF FlushExpired, AsmTypeInv
  <2>2. Cardinality(Flushable) \in Nat
    BY <1>0, CoveredIsSmall DEF Flushable, WindowsTypeOK
  <2>3. asmStats' \in [fragments : Nat, assembled : Nat, expired : Nat,
                       dropped : Nat, passThrough : Nat]
    BY <1>4, <2>2 DEF FlushExpired, AsmTypeInv
  <2> QED BY <1>0, <2>1, <2>3 DEF AsmTypeInv
<1>5. CASE UNCHANGED asmVars
  BY <1>0, <1>5 DEF asmVars, AsmTypeInv
<1> QED BY <1>1, <1>2, <1>3, <1>4, <1>5 DEF AsmNext, Feed

(* The reassembler keeps its types whatever it is fed: windows, their      *)
(* list and the pending results stay well formed, also through the         *)
(* flattening of several partial results into one list (reassembler.go,    *)
(* Feed, Drain and Flush). *)
THEOREM AssemblerTypeCorrect == AsmSpec => []AsmTypeOK
<1>1. AsmInit => AsmTypeInv
  BY AsmInvInit, EmptyIsSeq DEF AsmInit, AsmTypeInv
<1>2. AsmTypeInv => AsmTypeOK
  BY DEF AsmTypeInv, AsmInv, AsmTypeOK, IsPacket, Range
<1> QED BY <1>1, <1>2, AsmTypeStep, PTL DEF AsmSpec

=============================================================================
