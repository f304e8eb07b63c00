---------------------------- MODULE ReplayProofs -----------------------------
(***************************************************************************)
(* The replay service for every number of clients, every traffic, every    *)
(* chunk size and any number of requests and crashes.  First the cursor    *)
(* file, for any number of savers; then what the sorts, the chunks and     *)
(* Store.Ordered promise, by induction over the list; then the inductive   *)
(* invariant ReplayInv, kept by the requests, the cursor file and the      *)
(* store together, and the invariants of module Replay; at the end what    *)
(* requests that run alone put out, and where a resumed one goes on, each  *)
(* with an inductive invariant of its own on top.                          *)
(***************************************************************************)
EXTENDS Replay, StoreProofs, SequenceLemmas

-----------------------------------------------------------------------------
(* The cursor file alone.                                                  *)

(* What keeps the file whole: the temporary file that is written was       *)
(* truncated by its writer, and the one that is renamed holds a cursor.    *)
TemporaryIsOwn ==
    \A g \in Savers :
       /\ saveStep[g] # "idle" => saving[g] \in Cursors
       /\ saveStep[g] = "write" => handle[g] = "tmp" /\ files.tmp = Empty
       /\ saveStep[g] = "rename" => files.tmp = saving[g]

(* The variables of the cursor file keep their types, for any number of    *)
(* savers and however they overlap (cursor.go:33-49).                      *)
THEOREM CursorTypeCorrect == CursorSpec => []CursorTypeOK
<1>1. CursorInit => CursorTypeOK
  BY DEF CursorInit, CursorTypeOK
<1>2. CursorTypeOK /\ [CursorNext]_cursorVars => CursorTypeOK'
  <2> SUFFICES ASSUME CursorTypeOK, [CursorNext]_cursorVars
               PROVE  CursorTypeOK'
    OBVIOUS
  <2> USE DEF CursorTypeOK
  <2>1. ASSUME NEW g \in Savers, NEW cursor \in Cursors, BeginSave(g, cursor)
        PROVE  CursorTypeOK'
    BY <2>1 DEF BeginSave
  <2>2. ASSUME NEW g \in Savers, OpenTemporary(g)
        PROVE  CursorTypeOK'
    BY <2>2 DEF OpenTemporary
  <2>3. ASSUME NEW g \in Savers, WriteTemporary(g)
        PROVE  CursorTypeOK'
    <3>1. files' \in [{"tmp", "main"} -> Cursors \cup {Absent, Empty, Garbled}]
      <4>1. CASE handle[g] = "gone"
        BY <2>3, <4>1 DEF WriteTemporary
      <4>2. CASE handle[g] # "gone"
        <5>1. PICK text \in Outcomes(files[handle[g]], saving[g]) :
                 files' = [files EXCEPT ![handle[g]] = text]
          BY <2>3, <4>2 DEF WriteTemporary
        <5>2. text \in Cursors \cup {Absent, Empty, Garbled}
          BY <5>1 DEF Outcomes
        <5> QED BY <5>1, <5>2
      <4> QED BY <4>1, <4>2
    <3> QED BY <2>3, <3>1 DEF WriteTemporary
  <2>4. ASSUME NEW g \in Savers, Rename(g)
        PROVE  CursorTypeOK'
    <3>1. files' \in [{"tmp", "main"} -> Cursors \cup {Absent, Empty, Garbled}]
      BY <2>4 DEF Rename
    <3>2. handle' \in [Savers -> {"none", "tmp", "main", "gone"}]
      BY <2>4 DEF Rename, Renamed
    <3> QED BY <2>4, <3>1, <3>2 DEF Rename, EndSave
  <2>5. ASSUME NEW g \in Savers, SaveFails(g)
        PROVE  CursorTypeOK'
    BY <2>5 DEF SaveFails, EndSave
  <2>6. CASE CursorCrash
    BY <2>6 DEF CursorCrash
  <2>7. CASE UNCHANGED cursorVars
    BY <2>7 DEF cursorVars
  <2> QED
    BY <2>1, <2>2, <2>3, <2>4, <2>5, <2>6, <2>7 DEF CursorNext, SaveSucceeds
<1> QED
  BY <1>1, <1>2, PTL DEF CursorSpec

-----------------------------------------------------------------------------
(* The recursive function that FoldLeft chooses for a sort *)
IsSort(f, batch, After, n) ==
    f = [s \in SUBSET (1 .. n) |->
           IF s = {} THEN << >>
           ELSE Placed(f[s \ {Max(s)}], batch[Max(s)], After)]

(* The recursive function that FoldLeft chooses for a sort exists. *)
LEMMA SortExists ==
    ASSUME NEW batch, NEW After, NEW n \in Nat
    PROVE  \E f : IsSort(f, batch, After, n)
<1> USE DEF IsSort
<1> DEFINE Has(k) == \E f : f = [s \in SUBSET (1 .. k) |->
                                   IF s = {} THEN << >>
                                   ELSE Placed(f[s \ {Max(s)}], batch[Max(s)], After)]
           S == {k \in Nat : Has(k)}
<1>1. 0 \in S
  <2> DEFINE f == [s \in SUBSET (1 .. 0) |-> << >>]
  <2>1. f = [s \in SUBSET (1 .. 0) |-> IF s = {} THEN << >>
                                       ELSE Placed(f[s \ {Max(s)}], batch[Max(s)], After)]
    <3>1. \A s \in SUBSET (1 .. 0) : s = {}
      OBVIOUS
    <3> QED BY <3>1
  <2> HIDE DEF f
  <2>2. Has(0)
    BY <2>1
  <2> HIDE DEF Has
  <2> QED BY <2>2
<1>2. ASSUME NEW k \in Nat, k \in S PROVE k + 1 \in S
  <2>1. PICK f : f = [s \in SUBSET (1 .. k) |->
                         IF s = {} THEN << >>
                         ELSE Placed(f[s \ {Max(s)}], batch[Max(s)], After)]
    BY <1>2
  <2> DEFINE g == [s \in SUBSET (1 .. k + 1) |->
                     IF k + 1 \in s THEN Placed(f[s \ {k + 1}], batch[k + 1], After) ELSE f[s]]
             h == [s \in SUBSET (1 .. k + 1) |->
                     IF s = {} THEN << >>
                     ELSE Placed(g[s \ {Max(s)}], batch[Max(s)], After)]
  <2>2. ASSUME NEW s \in SUBSET (1 .. k + 1) PROVE g[s] = h[s]
    <3>1. CASE k + 1 \in s
      <4>1. Max(s) = k + 1
        <5>1. k + 1 \in Nat /\ k + 1 \in 1 .. k + 1
          OBVIOUS
        <5> QED BY <3>1, <5>1, MaxOfInterval
      <4>2. s \ {k + 1} \in SUBSET (1 .. k + 1) /\ k + 1 \notin s \ {k + 1}
        OBVIOUS
      <4>3. g[s \ {k + 1}] = f[s \ {k + 1}]
        BY <4>2
      <4> QED BY <3>1, <4>1, <4>3
    <3>2. CASE k + 1 \notin s
      <4>1. s \in SUBSET (1 .. k)
        BY <3>2
      <4>2. CASE s = {}
        BY <2>1, <4>1, <4>2
      <4>3. CASE s # {}
        <5>1. Max(s) \in s
          <6>1. s \subseteq 0 .. k
            BY <4>1
          <6> QED BY <4>3, <6>1, MaxOfSubset
        <5>2. s \ {Max(s)} \in SUBSET (1 .. k + 1) /\ k + 1 \notin s \ {Max(s)}
          BY <3>2
        <5>3. g[s \ {Max(s)}] = f[s \ {Max(s)}]
          BY <5>2
        <5>4. f[s] = Placed(f[s \ {Max(s)}], batch[Max(s)], After)
          BY <2>1, <4>1, <4>3
        <5>5. g[s] = f[s]
          BY <3>2
        <5>6. h[s] = Placed(g[s \ {Max(s)}], batch[Max(s)], After)
          BY <4>3
        <5> HIDE DEF g, h
        <5> QED BY <5>3, <5>4, <5>5, <5>6
      <4> QED BY <4>2, <4>3
    <3> QED BY <3>1, <3>2
  <2>3. g = [s \in SUBSET (1 .. k + 1) |-> g[s]] /\ h = [s \in SUBSET (1 .. k + 1) |-> h[s]]
    OBVIOUS
  <2>4. g = h
    <3> HIDE DEF g, h
    <3> QED BY <2>2, <2>3
  <2>5. Has(k + 1)
    <3> HIDE DEF g
    <3> QED BY <2>4, Zenon
  <2> HIDE DEF Has
  <2> QED BY <2>5
<1>3. Nat \subseteq S
  <2> HIDE DEF S
  <2> QED BY <1>1, <1>2, NatInductionSet
<1> QED BY <1>3

(* That function in steps: the sort places one packet after the other. *)
InSteps(f, batch, After, n) ==
    /\ f[0] = << >>
    /\ \A i \in 1 .. n : f[i] = Placed(f[i - 1], batch[i], After)
    /\ Sorted(batch, After) = f[n]

(* That function in steps: it places one packet after the other, and the   *)
(* sort is its last value. *)
LEMMA SortSteps ==
    ASSUME NEW batch, NEW After, NEW n \in Nat, DOMAIN batch = 1 .. n
    PROVE  \E f : InSteps(f, batch, After, n)
<1> DEFINE iter == CHOOSE f : IsSort(f, batch, After, n)
<1>1. iter = [s \in SUBSET (1 .. n) |->
                         IF s = {} THEN << >>
                         ELSE Placed(iter[s \ {Max(s)}], batch[Max(s)], After)]
  <2>1. \E f : IsSort(f, batch, After, n)
    BY SortExists
  <2>2. IsSort(iter, batch, After, n)
    BY <2>1, Zenon
  <2> HIDE DEF iter
  <2> QED BY <2>2 DEF IsSort
<1>2. Sorted(batch, After) = iter[1 .. n]
  BY DEF Sorted, FoldLeft, MapThenFoldSet, IsSort
<1> HIDE DEF iter
<1> DEFINE f == [i \in 0 .. n |-> iter[1 .. i]]
<1>3. f[0] = << >>
  <2>1. {} \in SUBSET (1 .. n) /\ 1 .. 0 = {}
    OBVIOUS
  <2>2. iter[{}] = << >>
    BY <1>1, <2>1
  <2> QED BY <2>1, <2>2
<1>4. ASSUME NEW i \in 1 .. n PROVE f[i] = Placed(f[i - 1], batch[i], After)
  <2>1. 1 .. i \in SUBSET (1 .. n) /\ 1 .. i # {} /\ (1 .. i) \ {i} = 1 .. i - 1
    <3>1. \A j \in Int : j \in (1 .. i) \ {i} <=> j \in 1 .. i - 1
      OBVIOUS
    <3>2. (1 .. i) \ {i} = 1 .. i - 1
      BY <3>1
    <3>3. i \in 1 .. i
      OBVIOUS
    <3> QED BY <3>2, <3>3
  <2>2. Max(1 .. i) = i
    BY MaxOfInterval
  <2>3. iter[1 .. i] = Placed(iter[1 .. i - 1], batch[i], After)
    BY <1>1, <2>1, <2>2
  <2> QED BY <2>3
<1>5. f[n] = iter[1 .. n]
  OBVIOUS
<1> HIDE DEF f
<1>6. InSteps(f, batch, After, n)
  BY <1>2, <1>3, <1>4, <1>5 DEF InSteps
<1> QED BY <1>6

(* Where Placed puts a packet: behind the elements up to one that is not   *)
(* after it, and before elements that all are. *)
IsPlaced(r, q, pkt, After, p) ==
    /\ r \in Seq(Offered)
    /\ Len(r) = Len(q) + 1
    /\ \A i \in 1 .. p : r[i] = q[i]
    /\ r[p + 1] = pkt
    /\ \A i \in p + 1 .. Len(q) : r[i + 1] = q[i]
    /\ p # 0 => <<q[p], pkt>> \notin After
    /\ \A i \in p + 1 .. Len(q) : <<q[i], pkt>> \in After

(* Where Placed puts a packet: what was there stays in order around it. *)
LEMMA PlacedProperties ==
    ASSUME NEW q \in Seq(Offered), NEW pkt \in Offered, NEW After
    PROVE  \E p \in 0 .. Len(q) : IsPlaced(Placed(q, pkt, After), q, pkt, After, p)
<1> DEFINE S == Offered
<1> DEFINE T == {0} \cup {i \in DOMAIN q : <<q[i], pkt>> \notin After}
           p == Max(T)
           a == SubSeq(q, 1, p)
           b == SubSeq(q, p + 1, Len(q))
<1>0. Len(q) \in Nat /\ DOMAIN q = 1 .. Len(q) /\ \A i \in 1 .. Len(q) : q[i] \in S
  OBVIOUS
<1>1. T \subseteq 0 .. Len(q) /\ T # {}
  BY <1>0
<1>2. p \in T /\ \A i \in T : i <= p
  <2> HIDE DEF T
  <2> QED BY <1>0, <1>1, MaxOfSubset
<1>3. /\ p \in 0 .. Len(q)
      /\ p # 0 => <<q[p], pkt>> \notin After
      /\ \A i \in p + 1 .. Len(q) : <<q[i], pkt>> \in After
  <2> HIDE DEF p
  <2>1. p \in 0 .. Len(q) /\ (p # 0 => <<q[p], pkt>> \notin After)
    BY <1>0, <1>2
  <2>2. ASSUME NEW i \in p + 1 .. Len(q), <<q[i], pkt>> \notin After PROVE FALSE
    <3>1. i \in 1 .. Len(q)
      BY <2>1
    <3>2. i \in T
      BY <1>0, <2>2, <3>1
    <3> QED BY <1>0, <1>2, <2>1, <2>2, <3>2
  <2> QED BY <2>1, <2>2
<1>4. Placed(q, pkt, After) = a \o << pkt >> \o b
  <2>1. (p + 1) - 1 = p
    BY <1>3
  <2> QED BY <2>1 DEF Placed, InsertAt
<1> HIDE DEF T, p
<1>5. /\ a \in Seq(S) /\ Len(a) = p /\ \A i \in 1 .. p : a[i] = q[i]
      /\ b \in Seq(S) /\ Len(b) = Len(q) - p /\ \A i \in 1 .. Len(q) - p : b[i] = q[p + i]
  <2>1. \A i \in 1 .. p : q[i] \in S /\ i \in 1 .. Len(q)
    BY <1>0, <1>3
  <2>2. a \in Seq(S) /\ Len(a) = p /\ \A i \in 1 .. p : a[i] = q[i]
    BY <1>0, <1>3, <2>1, SubSeqProperties
  <2>3. b \in Seq(S) /\ Len(b) = Len(q) - p
    <3>1. \A i \in p + 1 .. Len(q) : q[i] \in S
      BY <1>0, <1>3
    <3>2. p + 1 \in Int /\ Len(q) \in Int
      BY <1>0, <1>3
    <3>3. b \in Seq(S) /\ Len(b) = IF p + 1 <= Len(q) THEN Len(q) - (p + 1) + 1 ELSE 0
      BY <3>1, <3>2, SubSeqProperties
    <3>4. Len(q) \in Nat /\ p \in Nat /\ p <= Len(q)
      BY <1>0, <1>3
    <3> HIDE DEF b, S
    <3> QED BY <3>3, <3>4
  <2>4. ASSUME NEW i \in 1 .. Len(q) - p PROVE b[i] = q[p + i]
    <3>1. i \in 1 .. Len(q) - (p + 1) + 1 /\ (p + 1) + i - 1 = p + i
      BY <1>0, <1>3
    <3> QED BY <1>0, <1>3, <3>1, SubSeqProperties
  <2> QED BY <2>2, <2>3, <2>4
<1> HIDE DEF a, b
<1> DEFINE r == a \o << pkt >> \o b
<1>6. /\ r \in Seq(S) /\ Len(r) = Len(q) + 1
      /\ \A i \in 1 .. p : r[i] = q[i]
      /\ r[p + 1] = pkt
      /\ \A i \in p + 1 .. Len(q) : r[i + 1] = q[i]
  <2> DEFINE c == a \o << pkt >>
  <2>1. /\ c \in Seq(S) /\ Len(c) = p + 1 /\ c[p + 1] = pkt
        /\ \A i \in 1 .. p : c[i] = q[i]
    BY <1>0, <1>3, <1>5
  <2> HIDE DEF c
  <2>2. c \o b \in Seq(S) /\ Len(c \o b) = Len(q) + 1
    <3>1. c \o b \in Seq(S) /\ Len(c \o b) = Len(c) + Len(b)
      BY <1>5, <2>1, ConcatProperties
    <3> QED BY <1>0, <1>3, <1>5, <2>1, <3>1
  <2>3. \A i \in 1 .. p + 1 : (c \o b)[i] = c[i]
    BY <1>0, <1>3, <1>5, <2>1
  <2>4. ASSUME NEW i \in p + 1 .. Len(q) PROVE (c \o b)[i + 1] = q[i]
    <3>1. i - p \in 1 .. Len(b) /\ (p + 1) + (i - p) = i + 1 /\ p + (i - p) = i
      BY <1>0, <1>3, <1>5
    <3>2. (c \o b)[(p + 1) + (i - p)] = b[i - p]
      BY <1>0, <1>3, <1>5, <2>1, <3>1
    <3> QED BY <1>5, <3>1, <3>2
  <2>5. \A i \in 1 .. p : i \in 1 .. p + 1
    BY <1>3
  <2>6. p + 1 \in 1 .. p + 1
    BY <1>3
  <2> QED BY <2>1, <2>2, <2>3, <2>4, <2>5, <2>6 DEF c
<1> HIDE DEF r
<1>7. Placed(q, pkt, After) = r
  BY <1>4 DEF r
<1> QED BY <1>3, <1>6, <1>7 DEF IsPlaced

(* Both sorts take Compare or Before for it, so that an element that is    *)
(* after another is not before it in time, and one that is later is after. *)
LEMMA SortRelations ==
    ASSUME NEW After \in {Following, Later}, NEW a \in Offered, NEW b \in Offered
    PROVE  /\ Timestamp[a] \in Nat /\ Timestamp[b] \in Nat
           /\ <<a, b>> \in After => ~ IsLater(b, a)
           /\ IsLater(a, b) => <<a, b>> \in After
<1>1. Timestamp[a] \in Nat /\ Timestamp[b] \in Nat
  BY ScheduleAssumption
<1>2. <<a, b>> \in Following <=> ComesAfter(a, b)
  BY DEF Following
<1>3. <<a, b>> \in Later <=> IsLater(a, b)
  BY DEF Later
<1> QED BY <1>1, <1>2, <1>3 DEF ComesAfter, IsLater

(* What is at positions lo to hi of list is somewhere in a. *)
Holds(a, list, lo, hi) ==
    \A j \in lo .. hi : \E i \in 1 .. Len(a) : a[i] = list[j]

(* A sort returns the packets of the list, as many as it has, in time      *)
(* order. *)
LEMMA SortProperties ==
    ASSUME NEW After \in {Following, Later}, NEW batch \in Seq(Offered)
    PROVE  /\ Sorted(batch, After) \in Seq(Offered)
           /\ Len(Sorted(batch, After)) = Len(batch)
           /\ \A i \in 1 .. Len(batch) : \E j \in 1 .. Len(batch) :
                 Sorted(batch, After)[i] = batch[j]
           /\ Holds(Sorted(batch, After), batch, 1, Len(batch))
           /\ InTimeOrder(Sorted(batch, After))
<1> DEFINE n == Len(batch)
           Good(q, k) == /\ q \in Seq(Offered)
                         /\ Len(q) = k
                         /\ \A i \in 1 .. k : \E j \in 1 .. n : q[i] = batch[j]
                         /\ Holds(q, batch, 1, k)
                         /\ InTimeOrder(q)
<1>0. n \in Nat /\ DOMAIN batch = 1 .. n /\ \A i \in 1 .. n : batch[i] \in Offered
  OBVIOUS
<1>s. PICK f : InSteps(f, batch, After, n)
  <2> HIDE DEF n
  <2> QED BY <1>0, SortSteps
<1>1. /\ f[0] = << >>
      /\ \A i \in 1 .. n : f[i] = Placed(f[i - 1], batch[i], After)
      /\ Sorted(batch, After) = f[n]
  BY <1>s DEF InSteps
<1> HIDE DEF n
<1>2. ASSUME NEW q, NEW k \in 1 .. n, Good(q, k - 1)
      PROVE  Good(Placed(q, batch[k], After), k)
  <2> DEFINE pkt == batch[k]
             r == Placed(q, pkt, After)
  <2>0. /\ k - 1 \in Nat /\ Len(q) = k - 1 /\ q \in Seq(Offered)
        /\ \A i \in 1 .. k - 1 : q[i] \in Offered
        /\ pkt \in Offered
    BY <1>0, <1>2
  <2>1. PICK p \in 0 .. k - 1 :
              /\ r \in Seq(Offered)
              /\ Len(r) = k
              /\ \A i \in 1 .. p : r[i] = q[i]
              /\ r[p + 1] = pkt
              /\ \A i \in p + 1 .. k - 1 : r[i + 1] = q[i]
              /\ p # 0 => <<q[p], pkt>> \notin After
              /\ \A i \in p + 1 .. k - 1 : <<q[i], pkt>> \in After
    <3> HIDE DEF pkt
    <3>1. PICK p \in 0 .. Len(q) : IsPlaced(r, q, pkt, After, p)
      BY <2>0, PlacedProperties
    <3>2. Len(q) + 1 = k
      BY <2>0
    <3> HIDE DEF r
    <3> QED BY <2>0, <3>1, <3>2 DEF IsPlaced
  <2> HIDE DEF r
  <2>2. \A i, j \in 1 .. k - 1 : i < j => ~ IsLater(q[i], q[j])
    <3>1. InTimeOrder(q)
      BY <1>2
    <3>2. DOMAIN q = 1 .. k - 1
      BY <2>0
    <3> QED BY <3>1, <3>2 DEF InTimeOrder
  <2>3. ASSUME NEW i \in 1 .. p PROVE ~ IsLater(q[i], pkt)
    <3>1. ~ IsLater(q[p], pkt)
      <4>1. q[p] \in Offered
        BY <2>0, <2>1
      <4> QED BY <2>0, <2>1, <4>1, SortRelations
    <3>2. i = p \/ ~ IsLater(q[i], q[p])
      BY <2>1, <2>2
    <3>3. q[i] \in Offered /\ q[p] \in Offered
      BY <2>0, <2>1
    <3>4. Timestamp[q[i]] \in Nat /\ Timestamp[q[p]] \in Nat /\ Timestamp[pkt] \in Nat
      BY <2>0, <3>3, SortRelations
    <3> QED BY <3>1, <3>2, <3>4 DEF IsLater
  <2>4. ASSUME NEW i \in p + 1 .. k - 1 PROVE ~ IsLater(pkt, q[i])
    <3>1. q[i] \in Offered
      BY <2>0, <2>1
    <3> QED BY <2>0, <2>1, <3>1, SortRelations
  <2>5. ASSUME NEW i \in 1 .. k, NEW j \in 1 .. k, i < j PROVE ~ IsLater(r[i], r[j])
    <3>1. CASE j <= p
      <4>1. i \in 1 .. p /\ j \in 1 .. p /\ i \in 1 .. k - 1 /\ j \in 1 .. k - 1
        BY <2>1, <2>5, <3>1
      <4> QED BY <2>1, <2>2, <2>5, <4>1
    <3>2. CASE j = p + 1
      <4>1. i \in 1 .. p
        BY <2>1, <2>5, <3>2
      <4> QED BY <2>1, <2>3, <3>2, <4>1
    <3>3. CASE j > p + 1
      <4>1. j - 1 \in p + 1 .. k - 1 /\ (j - 1) + 1 = j /\ j - 1 \in 1 .. k - 1
        BY <2>1, <2>5, <3>3
      <4>2. r[j] = q[j - 1]
        BY <2>1, <4>1
      <4>3. CASE i <= p
        <5>1. i \in 1 .. p /\ i \in 1 .. k - 1 /\ i < j - 1
          BY <2>1, <3>3, <4>3
        <5> QED BY <2>1, <2>2, <4>1, <4>2, <5>1
      <4>4. CASE i = p + 1
        BY <2>1, <2>4, <4>1, <4>2, <4>4
      <4>5. CASE i > p + 1
        <5>1. i - 1 \in p + 1 .. k - 1 /\ (i - 1) + 1 = i /\ i - 1 \in 1 .. k - 1 /\ i - 1 < j - 1
          BY <2>1, <2>5, <4>5
        <5>2. r[i] = q[i - 1]
          BY <2>1, <5>1
        <5> QED BY <2>2, <4>1, <4>2, <5>1, <5>2
      <4> QED BY <2>1, <4>3, <4>4, <4>5
    <3> QED BY <2>1, <3>1, <3>2, <3>3
  <2>6. InTimeOrder(r)
    <3>1. DOMAIN r = 1 .. k
      BY <2>1
    <3> QED BY <2>5, <3>1 DEF InTimeOrder
  <2>7. ASSUME NEW i \in 1 .. k PROVE \E j \in 1 .. n : r[i] = batch[j]
    <3>1. CASE i <= p
      <4>1. i \in 1 .. p /\ i \in 1 .. k - 1
        BY <2>1, <3>1
      <4> QED BY <1>2, <2>1, <4>1
    <3>2. CASE i = p + 1
      BY <2>1, <3>2
    <3>3. CASE i > p + 1
      <4>1. i - 1 \in p + 1 .. k - 1 /\ (i - 1) + 1 = i /\ i - 1 \in 1 .. k - 1
        BY <2>1, <3>3
      <4>2. r[i] = q[i - 1]
        BY <2>1, <4>1
      <4> QED BY <1>2, <4>1, <4>2
    <3> QED BY <2>1, <3>1, <3>2, <3>3
  <2>8. ASSUME NEW j \in 1 .. k PROVE \E i \in 1 .. Len(r) : r[i] = batch[j]
    <3>0. Len(r) = k /\ p + 1 \in 1 .. k
      BY <2>1
    <3>1. CASE j = k
      BY <2>1, <3>0, <3>1
    <3>2. CASE j # k
      <4>1. j \in 1 .. k - 1
        BY <2>8, <3>2
      <4>2. PICK i \in 1 .. k - 1 : q[i] = batch[j]
        BY <1>2, <2>0, <4>1 DEF Holds
      <4>3. CASE i <= p
        <5>1. i \in 1 .. p /\ i \in 1 .. k
          BY <2>1, <4>3
        <5> QED BY <2>1, <3>0, <4>2, <5>1
      <4>4. CASE i > p
        <5>1. i \in p + 1 .. k - 1 /\ i + 1 \in 1 .. k
          BY <2>1, <4>4
        <5> QED BY <2>1, <3>0, <4>2, <5>1
      <4> QED BY <2>1, <4>3, <4>4
    <3> QED BY <3>1, <3>2
  <2>9. Holds(r, batch, 1, k)
    BY <2>8 DEF Holds
  <2> QED BY <2>1, <2>6, <2>7, <2>9 DEF r
<1>3. Good(f[0], 0)
  BY <1>1 DEF InTimeOrder, Holds
<1> DEFINE S == {k \in Nat : k \in 0 .. n => Good(f[k], k)}
<1> HIDE DEF Good
<1>4. 0 \in S
  BY <1>3
<1>5. ASSUME NEW k \in Nat, k \in S PROVE k + 1 \in S
  <2> SUFFICES ASSUME k + 1 \in 0 .. n PROVE Good(f[k + 1], k + 1)
    OBVIOUS
  <2>1. k + 1 \in 1 .. n /\ (k + 1) - 1 = k /\ k \in 0 .. n
    BY <1>0
  <2>2. Good(f[k], k)
    BY <1>5, <2>1
  <2>3. f[k + 1] = Placed(f[k], batch[k + 1], After)
    BY <1>1, <2>1
  <2> QED BY <1>2, <2>1, <2>2, <2>3
<1>6. Nat \subseteq S
  <2> HIDE DEF S
  <2> QED BY <1>4, <1>5, NatInductionSet
<1>7. Good(f[n], n)
  BY <1>0, <1>6
<1> QED BY <1>1, <1>7 DEF Good, n

(* A list without equal timestamps that is in order stays as it is. *)
LEMMA SortKeepsStrictOrder ==
    ASSUME NEW After \in {Following, Later}, NEW batch \in Seq(Offered),
           \A i, j \in 1 .. Len(batch) : i < j => IsLater(batch[j], batch[i])
    PROVE  Sorted(batch, After) = batch
<1> DEFINE n == Len(batch)
           Good(q, k) == /\ q \in Seq(Offered)
                         /\ Len(q) = k
                         /\ \A i \in 1 .. k : q[i] = batch[i]
<1>0. n \in Nat /\ DOMAIN batch = 1 .. n /\ \A i \in 1 .. n : batch[i] \in Offered
  OBVIOUS
<1>s. PICK f : InSteps(f, batch, After, n)
  <2> HIDE DEF n
  <2> QED BY <1>0, SortSteps
<1>1. /\ f[0] = << >>
      /\ \A i \in 1 .. n : f[i] = Placed(f[i - 1], batch[i], After)
      /\ Sorted(batch, After) = f[n]
  BY <1>s DEF InSteps
<1>t. \A i, j \in 1 .. n : i < j => IsLater(batch[j], batch[i])
  OBVIOUS
<1> HIDE DEF n
<1>2. ASSUME NEW q, NEW k \in 1 .. n, Good(q, k - 1)
      PROVE  Good(Placed(q, batch[k], After), k)
  <2> DEFINE pkt == batch[k]
             r == Placed(q, pkt, After)
  <2>0. /\ k - 1 \in Nat /\ Len(q) = k - 1 /\ q \in Seq(Offered)
        /\ \A i \in 1 .. k - 1 : q[i] \in Offered
        /\ pkt \in Offered
    BY <1>0, <1>2
  <2>1. PICK p \in 0 .. k - 1 :
              /\ r \in Seq(Offered)
              /\ Len(r) = k
              /\ \A i \in 1 .. p : r[i] = q[i]
              /\ r[p + 1] = pkt
              /\ \A i \in p + 1 .. k - 1 : <<q[i], pkt>> \in After
    <3> HIDE DEF pkt
    <3>1. PICK p \in 0 .. Len(q) : IsPlaced(r, q, pkt, After, p)
      BY <2>0, PlacedProperties
    <3>2. Len(q) + 1 = k
      BY <2>0
    <3> HIDE DEF r
    <3> QED BY <2>0, <3>1, <3>2 DEF IsPlaced
  <2> HIDE DEF r
  <2>2. p = k - 1
    <3> SUFFICES ASSUME p # k - 1 PROVE FALSE
      OBVIOUS
    <3>1. k - 1 \in p + 1 .. k - 1 /\ k - 1 \in 1 .. k - 1 /\ k - 1 \in 1 .. n /\ k - 1 < k
      BY <1>0, <2>0, <2>1
    <3>2. <<q[k - 1], pkt>> \in After /\ q[k - 1] = batch[k - 1] /\ q[k - 1] \in Offered
      BY <1>2, <2>0, <2>1, <3>1
    <3>3. IsLater(pkt, q[k - 1])
      BY <1>t, <3>1, <3>2
    <3> QED BY <2>0, <3>2, <3>3, SortRelations
  <2> QED BY <1>2, <2>0, <2>1, <2>2 DEF r
<1>3. Good(f[0], 0)
  BY <1>1
<1> DEFINE S == {k \in Nat : k \in 0 .. n => Good(f[k], k)}
<1> HIDE DEF Good
<1>4. 0 \in S
  BY <1>3
<1>5. ASSUME NEW k \in Nat, k \in S PROVE k + 1 \in S
  <2> SUFFICES ASSUME k + 1 \in 0 .. n PROVE Good(f[k + 1], k + 1)
    OBVIOUS
  <2>1. k + 1 \in 1 .. n /\ (k + 1) - 1 = k /\ k \in 0 .. n
    BY <1>0
  <2>2. Good(f[k], k)
    BY <1>5, <2>1
  <2>3. f[k + 1] = Placed(f[k], batch[k + 1], After)
    BY <1>1, <2>1
  <2> QED BY <1>2, <2>1, <2>2, <2>3
<1>6. Nat \subseteq S
  <2> HIDE DEF S
  <2> QED BY <1>4, <1>5, NatInductionSet
<1>7. Good(f[n], n)
  BY <1>0, <1>6
<1>8. Len(Sorted(batch, After)) = Len(batch) /\ Sorted(batch, After) \in Seq(Offered)
      /\ \A i \in 1 .. Len(batch) : Sorted(batch, After)[i] = batch[i]
  BY <1>1, <1>7 DEF Good, n
<1> QED BY <1>8, SeqEqual

-----------------------------------------------------------------------------
(* Chunks *)

(* The chunks end where the list ends, and none of them is empty. *)
LEMMA ChunkLimits ==
    ASSUME NEW total \in Nat
    PROVE  /\ ChunkCount(total) \in Nat
           /\ total <= ChunkCount(total) * ReplayChunk
           /\ \A k \in 1 .. ChunkCount(total) :
                 (k - 1) * ReplayChunk \in Nat /\ (k - 1) * ReplayChunk < total
<1> DEFINE r == ReplayChunk
           c == ChunkCount(total)
<1>1. r \in Nat /\ r >= 1
  BY ScheduleAssumption
<1>2. c \in Nat /\ r * c <= total + r - 1 /\ total + r - 1 < r * c + r
  BY <1>1 DEF ChunkCount
<1> HIDE DEF r, c
<1>3. total <= c * r
  <2>1. c * r = r * c /\ r * c \in Nat
    BY <1>1, <1>2
  <2> QED BY <1>1, <1>2, <2>1
<1>4. ASSUME NEW k \in 1 .. c PROVE (k - 1) * r \in Nat /\ (k - 1) * r < total
  <2>1. (k - 1) * r <= (c - 1) * r /\ (k - 1) * r \in Nat /\ (c - 1) * r \in Nat
    BY <1>1, <1>2
  <2>2. (c - 1) * r = r * c - r
    BY <1>1, <1>2
  <2>3. r * c \in Nat
    BY <1>1, <1>2
  <2> QED BY <1>1, <1>2, <2>1, <2>2, <2>3
<1> QED BY <1>2, <1>3, <1>4 DEF r, c

(* A list of chunks and where in a list each of them ends. *)
Cut(b, e) ==
    /\ b \in Seq(Seq(Offered))
    /\ e \in [0 .. Len(b) -> Nat]
    /\ \A k \in 1 .. Len(b) : e[k] = e[k - 1] + Len(b[k])

CutsList(b, e, list) ==
    /\ Cut(b, e)
    /\ e[0] = 0
    /\ e[Len(b)] = Len(list)
    /\ \A k \in 1 .. Len(b) :
          /\ InTimeOrder(b[k])
          /\ \A i \in 1 .. Len(b[k]) : \E j \in e[k - 1] + 1 .. e[k] : b[k][i] = list[j]
          /\ Holds(b[k], list, e[k - 1] + 1, e[k])
    /\ \A k, l \in 1 .. Len(b) : k < l => e[k] <= e[l - 1]

InStrictOrder(list) == \A i, j \in 1 .. Len(list) : i < j => IsLater(list[j], list[i])

(* Each packet of a list is in one chunk; the sort moves it only there, and*)
(* not at all when the list has no equal timestamps. *)
LEMMA BatchesProperties ==
    ASSUME NEW list \in Seq(Offered)
    PROVE  \E e : /\ CutsList(Batches(list), e, list)
                  /\ InStrictOrder(list) =>
                       \A k \in 1 .. Len(Batches(list)) :
                          \A i \in 1 .. Len(Batches(list)[k]) :
                             Batches(list)[k][i] = list[e[k - 1] + i]
<1> DEFINE n == Len(list)
           c == ChunkCount(n)
           b == Batches(list)
           e == [k \in 0 .. c |-> IF k * ReplayChunk > n THEN n ELSE k * ReplayChunk]
           part(k) == SubSeq(list, e[k - 1] + 1, e[k])
<1>0. /\ n \in Nat /\ DOMAIN list = 1 .. n /\ \A i \in 1 .. n : list[i] \in Offered
      /\ ReplayChunk \in Nat /\ ReplayChunk >= 1
  BY ScheduleAssumption
<1>1. /\ c \in Nat
      /\ n <= c * ReplayChunk
      /\ \A k \in 1 .. c : (k - 1) * ReplayChunk \in Nat /\ (k - 1) * ReplayChunk < n
  <2> HIDE DEF n
  <2> QED BY <1>0, ChunkLimits
<1>2. /\ e \in [0 .. c -> Nat]
      /\ \A k \in 0 .. c : e[k] <= n
      /\ e[0] = 0 /\ e[c] = n
  <2>1. \A k \in 0 .. c : k * ReplayChunk \in Nat
    BY <1>0, <1>1
  <2> HIDE DEF n, c
  <2>2. \A k \in 0 .. c : e[k] \in Nat /\ e[k] <= n
    BY <1>0, <1>1, <2>1
  <2>3. 0 * ReplayChunk = 0
    BY <1>0
  <2>4. e[0] = 0
    BY <1>0, <1>1, <2>3
  <2>5. e[c] = n
    BY <1>0, <1>1, <2>1
  <2> QED BY <2>2, <2>4, <2>5
<1>3. ASSUME NEW k \in 1 .. c
      PROVE  /\ e[k - 1] = (k - 1) * ReplayChunk
             /\ e[k - 1] <= e[k]
             /\ b[k] = TagAndSortBatch(part(k))
  <2>0. k - 1 \in 0 .. c /\ k \in 0 .. c
    BY <1>1
  <2>1. e[k - 1] = (k - 1) * ReplayChunk
    BY <1>0, <1>1, <2>0
  <2>2. (k - 1) * ReplayChunk <= k * ReplayChunk /\ k * ReplayChunk \in Nat
    BY <1>0, <1>1
  <2>3. e[k - 1] <= e[k]
    BY <1>0, <1>1, <2>0, <2>1, <2>2
  <2>4. /\ DOMAIN Chunks(n) = 1 .. c
        /\ Chunks(n)[k].start = e[k - 1]
        /\ Chunks(n)[k].end = e[k]
    BY <2>0, <2>1 DEF Chunks
  <2>5. b[k] = TagAndSortBatch(SubSeq(list, Chunks(n)[k].start + 1, Chunks(n)[k].end))
    BY <2>4 DEF Batches
  <2> QED BY <2>1, <2>3, <2>4, <2>5
<1>4. DOMAIN b = 1 .. c
  BY DEF Batches, Chunks
<1>b. b = [k \in 1 .. c |-> b[k]]
  <2>1. \E F : b = [k \in DOMAIN Chunks(n) |-> F[k]]
    <3> DEFINE F == [k \in DOMAIN Chunks(n) |-> TagAndSortBatch(SubSeq(list, Chunks(Len(list))[k].start + 1,
                                     Chunks(Len(list))[k].end))]
    <3>1. b = [k \in DOMAIN Chunks(n) |-> F[k]]
      BY DEF Batches
    <3> QED BY <3>1
  <2> QED BY <1>4, <2>1
<1> HIDE DEF b, e, c
<1>5. ASSUME NEW k \in 1 .. c
      PROVE  /\ b[k] \in Seq(Offered)
             /\ Len(b[k]) = e[k] - e[k - 1]
             /\ InTimeOrder(b[k])
             /\ \A i \in 1 .. Len(b[k]) : \E j \in e[k - 1] + 1 .. e[k] : b[k][i] = list[j]
             /\ Holds(b[k], list, e[k - 1] + 1, e[k])
             /\ InStrictOrder(list) => \A i \in 1 .. Len(b[k]) : b[k][i] = list[e[k - 1] + i]
  <2>0. /\ e[k - 1] \in Nat /\ e[k] \in Nat /\ e[k - 1] <= e[k] /\ e[k] <= n
    BY <1>1, <1>2, <1>3
  <2>1. /\ part(k) \in Seq(Offered)
        /\ Len(part(k)) = e[k] - e[k - 1]
        /\ \A i \in 1 .. e[k] - e[k - 1] : part(k)[i] = list[e[k - 1] + i]
    <3>1. \A i \in e[k - 1] + 1 .. e[k] : list[i] \in Offered
      BY <1>0, <2>0
    <3>2. e[k - 1] + 1 \in Int /\ e[k] \in Int
      BY <2>0
    <3>3. part(k) \in Seq(Offered)
      BY <3>1, <3>2, SubSeqProperties
    <3>4. Len(part(k)) = IF e[k - 1] + 1 <= e[k] THEN e[k] - (e[k - 1] + 1) + 1 ELSE 0
      BY <3>1, <3>2, SubSeqProperties
    <3>5. \A i \in 1 .. e[k] - (e[k - 1] + 1) + 1 : part(k)[i] = list[(e[k - 1] + 1) + i - 1]
      BY <3>1, <3>2, SubSeqProperties
    <3> HIDE DEF part
    <3>6. Len(part(k)) = e[k] - e[k - 1]
      BY <2>0, <3>4
    <3>7. ASSUME NEW i \in 1 .. e[k] - e[k - 1] PROVE part(k)[i] = list[e[k - 1] + i]
      <4>1. i \in 1 .. e[k] - (e[k - 1] + 1) + 1 /\ (e[k - 1] + 1) + i - 1 = e[k - 1] + i
        BY <2>0
      <4> QED BY <3>5, <4>1
    <3> QED BY <3>3, <3>6, <3>7
  <2> HIDE DEF part
  <2>2. /\ b[k] \in Seq(Offered)
        /\ Len(b[k]) = e[k] - e[k - 1]
        /\ \A i \in 1 .. Len(b[k]) : \E j \in 1 .. Len(b[k]) : b[k][i] = part(k)[j]
        /\ Holds(b[k], part(k), 1, Len(b[k]))
        /\ InTimeOrder(b[k])
    <3>1. b[k] = Sorted(part(k), Following)
      BY <1>3 DEF TagAndSortBatch
    <3> QED BY <2>1, <3>1, SortProperties
  <2>3. ASSUME NEW i \in 1 .. Len(b[k]) PROVE \E j \in e[k - 1] + 1 .. e[k] : b[k][i] = list[j]
    <3>1. PICK j \in 1 .. Len(b[k]) : b[k][i] = part(k)[j]
      BY <2>2
    <3>2. e[k - 1] + j \in e[k - 1] + 1 .. e[k]
      <4>1. Len(b[k]) = e[k] - e[k - 1] /\ j \in 1 .. Len(b[k])
        BY <2>2
      <4>2. j \in Nat /\ j >= 1 /\ j <= e[k] - e[k - 1]
        BY <2>0, <4>1
      <4> QED BY <2>0, <4>2
    <3> QED BY <2>1, <2>2, <3>1, <3>2
  <2>5. ASSUME NEW j \in e[k - 1] + 1 .. e[k] PROVE \E i \in 1 .. Len(b[k]) : b[k][i] = list[j]
    <3> DEFINE lo == e[k - 1]
               hi == e[k]
               m  == j - lo
    <3>1. lo \in Nat /\ hi \in Nat /\ j \in lo + 1 .. hi
      BY <2>0
    <3> HIDE DEF lo, hi
    <3>2. m \in 1 .. hi - lo /\ lo + m = j
      BY <3>1
    <3>3. m \in 1 .. Len(b[k]) /\ m \in 1 .. e[k] - e[k - 1] /\ e[k - 1] + m = j
      BY <2>2, <3>2 DEF lo, hi
    <3> HIDE DEF m
    <3>4. PICK i \in 1 .. Len(b[k]) : b[k][i] = part(k)[m]
      BY <2>2, <3>3 DEF Holds
    <3> QED BY <2>1, <3>3, <3>4
  <2>6. Holds(b[k], list, e[k - 1] + 1, e[k])
    BY <2>5 DEF Holds
  <2>4. ASSUME InStrictOrder(list), NEW i \in 1 .. Len(b[k]) PROVE b[k][i] = list[e[k - 1] + i]
    <3>1. ASSUME NEW i1 \in 1 .. Len(part(k)), NEW j1 \in 1 .. Len(part(k)), i1 < j1
          PROVE  IsLater(part(k)[j1], part(k)[i1])
      <4>1. /\ e[k - 1] + i1 \in 1 .. n /\ e[k - 1] + j1 \in 1 .. n
            /\ e[k - 1] + i1 < e[k - 1] + j1
        <5>1. Len(part(k)) = e[k] - e[k - 1] /\ i1 \in 1 .. Len(part(k)) /\ j1 \in 1 .. Len(part(k))
          BY <2>1
        <5>2. /\ i1 \in Nat /\ i1 >= 1 /\ i1 <= e[k] - e[k - 1]
              /\ j1 \in Nat /\ j1 >= 1 /\ j1 <= e[k] - e[k - 1]
          BY <2>0, <5>1
        <5>3. n \in Nat /\ i1 < j1
          BY <1>0, <3>1
        <5> DEFINE lo == e[k - 1]
                   hi == e[k]
        <5>4. /\ lo \in Nat /\ hi \in Nat /\ hi <= n
              /\ i1 <= hi - lo /\ j1 <= hi - lo
          BY <2>0, <5>2
        <5> HIDE DEF n, lo, hi
        <5>5. lo + i1 \in 1 .. n /\ lo + j1 \in 1 .. n /\ lo + i1 < lo + j1
          BY <5>2, <5>3, <5>4
        <5> QED BY <5>5 DEF lo
      <4>2. IsLater(list[e[k - 1] + j1], list[e[k - 1] + i1])
        BY <2>4, <4>1 DEF InStrictOrder
      <4> QED BY <2>1, <4>2
    <3>2. Sorted(part(k), Following) = part(k)
      BY <2>1, <3>1, SortKeepsStrictOrder
    <3>3. b[k] = part(k)
      BY <1>3, <3>2 DEF TagAndSortBatch
    <3> QED BY <2>1, <2>2, <3>3
  <2> QED BY <2>2, <2>3, <2>4, <2>6
<1>6. ASSUME NEW k \in 1 .. c, NEW l \in 1 .. c, k < l PROVE e[k] <= e[l - 1]
  <2>0. k \in 0 .. c /\ l - 1 \in 1 .. c /\ k <= l - 1
    BY <1>1, <1>6
  <2>1. e[l - 1] = (l - 1) * ReplayChunk
    BY <1>3
  <2>2. k * ReplayChunk <= (l - 1) * ReplayChunk /\ k * ReplayChunk \in Nat
    BY <1>0, <1>1, <2>0
  <2>3. e[k] <= k * ReplayChunk
    BY <1>0, <2>0, <2>2 DEF e
  <2>4. e[k] \in Nat /\ (l - 1) * ReplayChunk \in Nat
    BY <1>1, <1>2, <2>0
  <2> QED BY <2>1, <2>2, <2>3, <2>4
<1>7. Len(b) = c /\ b \in Seq(Seq(Offered))
  <2>1. \A k \in 1 .. c : b[k] \in Seq(Offered)
    BY <1>5
  <2>2. c \in Nat
    BY <1>1
  <2> DEFINE S == Seq(Offered)
  <2>3. \A k \in 1 .. c : b[k] \in S
    BY <2>1
  <2> HIDE DEF S
  <2>4. b \in [1 .. c -> S]
    BY <1>b, <2>3
  <2>5. b \in Seq(S) /\ Len(b) = c
    BY <2>2, <2>4
  <2> QED BY <2>5 DEF S
<1>8. \A k \in 1 .. c : e[k] = e[k - 1] + Len(b[k])
  <2> TAKE k \in 1 .. c
  <2>1. e[k] \in Nat /\ e[k - 1] \in Nat
    BY <1>1, <1>2
  <2> QED BY <1>5, <2>1
<1>9. CutsList(b, e, list)
  <2>1. Cut(b, e)
    BY <1>2, <1>7, <1>8 DEF Cut
  <2> QED BY <1>2, <1>5, <1>6, <1>7, <2>1 DEF CutsList, n
<1>10. InStrictOrder(list) => \A k \in 1 .. Len(b) : \A i \in 1 .. Len(b[k]) : b[k][i] = list[e[k - 1] + i]
  BY <1>5, <1>7
<1> QED BY <1>9, <1>10 DEF b

(* Every position of a list is in one of its chunks. *)
LEMMA ChunkOfPosition ==
    ASSUME NEW b, NEW e, NEW list, CutsList(b, e, list), NEW j \in 1 .. Len(list)
    PROVE  \E k \in 1 .. Len(b) : j \in e[k - 1] + 1 .. e[k]
<1>1. /\ Len(b) \in Nat /\ e \in [0 .. Len(b) -> Nat]
      /\ e[0] = 0 /\ e[Len(b)] = Len(list)
  BY DEF CutsList, Cut
<1> DEFINE T == {k \in 0 .. Len(b) : j <= e[k]}
<1>2. T \subseteq Nat /\ Len(b) \in T
  BY <1>1
<1>3. PICK k \in T : \A l \in T : k <= l
  BY <1>2, LeastNat
<1>4. k \in 0 .. Len(b) /\ j <= e[k] /\ j >= 1 /\ j \in Int
  BY <1>1, <1>3
<1>5. k # 0
  BY <1>1, <1>4
<1>6. k - 1 \in 0 .. Len(b) /\ k \in 1 .. Len(b) /\ k - 1 < k
  BY <1>1, <1>4, <1>5
<1>7. ~ (j <= e[k - 1])
  BY <1>3, <1>6
<1>8. e[k] \in Nat /\ e[k - 1] \in Nat
  BY <1>1, <1>4, <1>6
<1> QED BY <1>4, <1>6, <1>7, <1>8

-----------------------------------------------------------------------------
(* Store.Ordered *)

(* A rearrangement that keeps every two elements in order moves none. *)
LEMMA IncreasingIsIdentity ==
    ASSUME NEW n \in Nat, NEW p \in [1 .. n -> 1 .. n],
           \A i, j \in 1 .. n : i < j => p[i] < p[j]
    PROVE  \A i \in 1 .. n : p[i] = i
<1> DEFINE Up   == {k \in Nat : k \in 1 .. n => p[k] >= k}
           Down == {k \in Nat : n - k \in 1 .. n => p[n - k] <= n - k}
<1>1. 0 \in Up /\ 0 \in Down
  OBVIOUS
<1>2. ASSUME NEW k \in Nat, k \in Up PROVE k + 1 \in Up
  <2> SUFFICES ASSUME k + 1 \in 1 .. n PROVE p[k + 1] >= k + 1
    OBVIOUS
  <2>1. p[k + 1] \in Nat /\ p[k + 1] >= 1
    OBVIOUS
  <2>2. CASE k = 0
    BY <2>1, <2>2
  <2>3. CASE k # 0
    <3>1. k \in 1 .. n /\ k < k + 1
      BY <2>3
    <3>2. p[k] < p[k + 1] /\ p[k] \in Nat
      BY <3>1
    <3>3. p[k] >= k
      BY <1>2, <3>1
    <3> QED BY <2>1, <3>2, <3>3
  <2> QED BY <2>2, <2>3
<1>3. ASSUME NEW k \in Nat, k \in Down PROVE k + 1 \in Down
  <2> SUFFICES ASSUME n - (k + 1) \in 1 .. n PROVE p[n - (k + 1)] <= n - (k + 1)
    OBVIOUS
  <2>1. n - k \in 1 .. n /\ n - (k + 1) < n - k
    OBVIOUS
  <2>2. p[n - (k + 1)] < p[n - k] /\ p[n - (k + 1)] \in Nat /\ p[n - k] \in Nat
    BY <2>1
  <2>3. p[n - k] <= n - k
    BY <1>3, <2>1
  <2> QED BY <2>2, <2>3
<1>4. Nat \subseteq Up /\ Nat \subseteq Down
  <2> HIDE DEF Up, Down
  <2>1. Nat \subseteq Up
    BY <1>1, <1>2, NatInductionSet
  <2>2. Nat \subseteq Down
    BY <1>1, <1>3, NatInductionSet
  <2> QED BY <2>1, <2>2
<1> SUFFICES ASSUME NEW i \in 1 .. n PROVE p[i] = i
  OBVIOUS
<1>5. p[i] >= i
  BY <1>4
<1>6. p[i] <= i
  <2>1. n - i \in Nat /\ n - (n - i) = i
    OBVIOUS
  <2>2. n - i \in Down
    BY <1>4, <2>1
  <2> QED BY <2>1, <2>2
<1>7. p[i] \in Nat
  OBVIOUS
<1> QED BY <1>5, <1>6, <1>7

(* Ordered returns the packets of the store, as many as it holds, in time  *)
(* order; when they arrived in time order it returns them as they are.     *)
LEMMA OrdersProperties ==
    ASSUME packets \in Seq(Offered), NEW list \in Orders
    PROVE  /\ list \in Seq(Offered)
           /\ Len(list) = Len(packets)
           /\ \A i \in 1 .. Len(list) : \E j \in 1 .. Len(packets) : list[i] = packets[j]
           /\ Holds(list, packets, 1, Len(packets))
           /\ InTimeOrder(list)
           /\ InStrictOrder(packets) => list = packets
<1> DEFINE n == Len(packets)
<1>0. n \in Nat /\ DOMAIN packets = 1 .. n /\ \A i \in 1 .. n : packets[i] \in Offered
  OBVIOUS
<1>1. CASE list = Sorted(packets, Later)
  <2>1. InStrictOrder(packets) => list = packets
    BY <1>1, SortKeepsStrictOrder DEF InStrictOrder
  <2> QED BY <1>1, <2>1, SortProperties
<1>2. ASSUME NEW p \in Bijection(DOMAIN packets, DOMAIN packets),
             list = [i \in DOMAIN packets |-> packets[p[i]]], InTimeOrder(list)
      PROVE  /\ list \in Seq(Offered)
             /\ Len(list) = Len(packets)
             /\ \A i \in 1 .. Len(list) : \E j \in 1 .. Len(packets) : list[i] = packets[j]
             /\ Holds(list, packets, 1, Len(packets))
             /\ InStrictOrder(packets) => list = packets
  <2>1. p \in [1 .. n -> 1 .. n] /\ \A i, j \in 1 .. n : p[i] = p[j] => i = j
    BY <1>0 DEF Bijection, Injection, IsInjective
  <2>2. /\ list = [i \in 1 .. n |-> packets[p[i]]]
        /\ \A i \in 1 .. n : list[i] \in Offered
    BY <1>0, <1>2, <2>1
  <2> HIDE DEF n
  <2>3. list \in Seq(Offered) /\ Len(list) = n
    BY <1>0, <2>2
  <2>4. ASSUME InStrictOrder(packets) PROVE list = packets
    <3>1. ASSUME NEW i \in 1 .. n, NEW j \in 1 .. n, i < j PROVE p[i] < p[j]
      <4>1. p[i] \in 1 .. n /\ p[j] \in 1 .. n /\ p[i] # p[j]
        BY <2>1, <3>1
      <4>2. ~ IsLater(packets[p[i]], packets[p[j]])
        BY <1>2, <2>2, <2>3, <3>1 DEF InTimeOrder
      <4>3. ~ (p[j] < p[i])
        BY <2>4, <4>1, <4>2 DEF InStrictOrder, n
      <4> QED BY <4>1, <4>3
    <3>2. \A i \in 1 .. n : p[i] = i
      BY <1>0, <2>1, <3>1, IncreasingIsIdentity
    <3>3. \A i \in 1 .. n : list[i] = packets[i]
      BY <2>2, <3>2
    <3>4. Len(list) = Len(packets)
      BY <2>3 DEF n
    <3> QED BY <2>3, <3>3, <3>4, SeqEqual DEF n
  <2>5. \A i \in 1 .. n : \E j \in 1 .. n : list[i] = packets[j]
    BY <2>1, <2>2
  <2>6. Holds(list, packets, 1, n)
    <3>1. \A j \in 1 .. n : \E i \in 1 .. n : p[i] = j
      BY <1>0 DEF Bijection, Surjection, n
    <3>2. ASSUME NEW j \in 1 .. n PROVE \E i \in 1 .. Len(list) : list[i] = packets[j]
      <4>1. PICK i \in 1 .. n : p[i] = j
        BY <3>1
      <4> QED BY <2>2, <2>3, <4>1
    <3> QED BY <3>2 DEF Holds
  <2> QED BY <2>3, <2>4, <2>5, <2>6 DEF n
<1>3. \/ list = Sorted(packets, Later)
      \/ /\ InTimeOrder(list)
         /\ \E p \in Bijection(DOMAIN packets, DOMAIN packets) :
               list = [i \in DOMAIN packets |-> packets[p[i]]]
  BY DEF Orders
<1> QED BY <1>1, <1>2, <1>3

-----------------------------------------------------------------------------
(* The inductive invariant                                                 *)

LastIDs == {<< >>} \cup {<< traffic[i].id >> : i \in DOMAIN traffic}

OurCursors == {Cursor(last, v) : last \in LastIDs, v \in 0 .. Len(traffic)}

(* The store holds the first packets of the traffic. *)
StoredInv ==
    /\ traffic \in TrafficChoices
    /\ StoreInv
    /\ Len(packets) <= Len(traffic)
    /\ \A i \in 1 .. Len(packets) : packets[i] = traffic[i]
    /\ \A s \in Streams : Len(byStream[s]) <= Len(packets)
    /\ version \in 0 .. Len(traffic)

(* What is in the files, or on the way to them, is a cursor of a packet    *)
(* that exists. *)
FilesInv ==
    /\ files \in [{"tmp", "main"} -> OurCursors \cup {Absent, Empty, Garbled}]
    /\ handle \in [Savers -> {"none", "tmp", "main", "gone"}]
    /\ saving \in [Savers -> OurCursors \cup {Absent}]
    /\ saveStep \in [Savers -> {"idle", "open", "write", "rename"}]
    /\ \A g \in Savers : saveStep[g] # "idle" => saving[g] \in OurCursors

JobFields == {"kind", "step", "task", "batches", "from", "last", "version", "count", "sent",
              "size"}

JobOK(j) ==
    /\ DOMAIN j = JobFields
    /\ j.step \in Steps
    /\ j.step \in {"version", "refresh", "tail"} => j.kind \in {"all", "resume"}
    /\ j.step = "idle" => j.kind = "none"
    /\ j.last \in LastIDs
    /\ j.from \in LastIDs
    /\ j.version \in 0 .. Len(traffic)
    /\ j.count \in Nat
    /\ j.count <= Len(traffic)
    /\ j.step \in {"refresh", "tail"} => j.count = 0

JobInv(g) == JobOK(job[g]) /\ (job[g].step = "save" <=> saveStep[g] # "idle")

(* What a request has still to put out are packets of the traffic, no more *)
(* of them than there are.                                                 *)
FromTraffic(b) ==
    \A k \in 1 .. Len(b) : \A i \in 1 .. Len(b[k]) : \E j \in 1 .. Len(traffic) : b[k][i] = traffic[j]

(* Requests that save cursors go through the traffic in order, and what    *)
(* lies before their next packet has been put out. *)
GoesOn(b, e) ==
    /\ \A i \in 1 .. e[0] : traffic[i].id \in emitted
    /\ \A k \in 1 .. Len(b) : \A i \in 1 .. Len(b[k]) : b[k][i] = traffic[e[k - 1] + i]

Remaining(b, e, count, inOrder) ==
    /\ Cut(b, e)
    /\ \A k \in 0 .. Len(b) : e[k] <= Len(traffic)
    /\ count <= e[0]
    /\ inOrder => GoesOn(b, e)

BatchesOK(b, count, inOrder) ==
    /\ FromTraffic(b)
    /\ \E e : Remaining(b, e, count, inOrder)

SavesInOrder(j) == StrictlyInOrder /\ j.kind \in {"all", "resume"}

BatchInv(g) ==
    job[g].step \in {"version", "emit", "save"} =>
        /\ BatchesOK(job[g].batches, job[g].count, SavesInOrder(job[g]))
        /\ job[g].step = "save" => job[g].batches # << >> /\ Head(job[g].batches) = << >>

(* A cursor names a packet up to which all were put out. *)
SeenUpTo(last) ==
    last # << >> => \E i \in 1 .. Len(traffic) : /\ last = << traffic[i].id >>
                                                 /\ \A j \in 1 .. i : traffic[j].id \in emitted

SeenBy(g) ==
    StrictlyInOrder =>
        /\ saving[g] \in OurCursors => SeenUpTo(saving[g][2])
        /\ job[g].kind \in {"all", "resume"} => SeenUpTo(job[g].last) /\ SeenUpTo(job[g].from)

FilesSeen ==
    StrictlyInOrder =>
        \A name \in {"tmp", "main"} : files[name] \in OurCursors => SeenUpTo(files[name][2])

ClientsInv ==
    /\ DOMAIN job = Savers
    /\ \A g \in Savers : JobInv(g) /\ BatchInv(g) /\ SeenBy(g)

TasksOK(known) ==
    \A id \in DOMAIN known :
       /\ DOMAIN known[id] = {"state", "count", "listed"}
       /\ known[id].state \in {"running", "resumed", "complete"}

TasksInv == TasksOK(tasks)

(* A request that met no other is the only one under way, and the list of  *)
(* outputs is whole once the request has reset it.  Until two requests     *)
(* met, that holds of each, and the temporary file is its own.             *)
AloneInv ==
    /\ outputs \in Seq(Offered) \cup {Torn}
    /\ overlapped \in BOOLEAN
    /\ \A g \in Savers :
          g \in solo /\ job[g].step # "idle" =>
             \A h \in Savers \ {g} : job[h].step = "idle"
    /\ \A g \in Savers :
          g \in solo /\ job[g].step \in {"emit", "save", "complete"} => outputs # Torn
    /\ ~ overlapped =>
          /\ \A g \in Savers : job[g].step # "idle" => g \in solo
          /\ outputs # Torn
          /\ TemporaryIsOwn
          /\ Loadable

(* What a request alone has put out comes before what it has still to put  *)
(* out.                                                                    *)
InTimeBefore(a, b) == \A i \in 1 .. Len(a) : \A j \in 1 .. Len(b) : ~ IsLater(a[i], b[j])

AllInTime(b) ==
    /\ \A k \in 1 .. Len(b) : InTimeOrder(b[k])
    /\ \A k, l \in 1 .. Len(b) : k < l => InTimeBefore(b[k], b[l])

TimeInv(g) ==
    g \in solo /\ (job[g].kind = "stream" => InTimeOrder(traffic)) =>
       /\ job[g].step \in {"version", "emit", "save"} => AllInTime(job[g].batches)
       /\ job[g].step \in {"emit", "save"} =>
             \A k \in 1 .. Len(job[g].batches) : InTimeBefore(outputs, job[g].batches[k])
       /\ job[g].step \in {"emit", "save", "complete"} => InTimeOrder(outputs)

ReplayInv ==
    /\ StoredInv
    /\ FilesInv
    /\ FilesSeen
    /\ ClientsInv
    /\ TasksInv
    /\ AloneInv
    /\ \A g \in Savers : TimeInv(g)

-----------------------------------------------------------------------------
(* A traffic is a sequence of packets with distinct IDs, and its cursors   *)
(* are cursors. *)
LEMMA TrafficFacts ==
    ASSUME StoredInv
    PROVE  /\ traffic \in Seq(Offered)
           /\ Len(traffic) \in Nat
           /\ DOMAIN traffic = 1 .. Len(traffic)
           /\ \A i, j \in 1 .. Len(traffic) : traffic[i].id = traffic[j].id => i = j
           /\ \A i \in 1 .. Len(traffic) : traffic[i] \in Offered
           /\ OurCursors \subseteq Cursors
           /\ packets \in Seq(Offered)
           /\ Len(packets) \in Nat
           /\ DOMAIN packets = 1 .. Len(packets)
<1>1. traffic \in TrafficChoices /\ traffic \in Seq(Offered)
  BY ReplayAssumption DEF StoredInv
<1>2. Len(traffic) \in Nat /\ DOMAIN traffic = 1 .. Len(traffic) /\ \A i \in 1 .. Len(traffic) : traffic[i] \in Offered
  BY <1>1
<1>3. \A i, j \in 1 .. Len(traffic) : traffic[i].id = traffic[j].id => i = j
  BY <1>1, <1>2, ReplayAssumption
<1>4. OurCursors \subseteq Cursors
  BY <1>1, ReplayAssumption DEF OurCursors, LastIDs
<1>5. packets \in Seq(Offered)
  BY DEF StoredInv, StoreInv, StoreTypeOK
<1> QED BY <1>1, <1>2, <1>3, <1>4, <1>5

(* A cursor is none of the three states of a file without one, and its     *)
(* fields are what it was made of. *)
LEMMA CursorFacts ==
    ASSUME StoredInv
    PROVE  /\ Absent \notin OurCursors /\ Empty \notin OurCursors /\ Garbled \notin OurCursors
           /\ Absent \notin Cursors /\ Empty \notin Cursors /\ Garbled \notin Cursors
           /\ Absent # Empty /\ Empty # Garbled /\ Absent # Garbled
           /\ \A last \in LastIDs, v \in 0 .. Len(traffic) :
                 Cursor(last, v) \in OurCursors /\ Cursor(last, v)[2] = last
           /\ \A c \in OurCursors : c[2] \in LastIDs
<1>1. Absent \notin Cursors /\ Empty \notin Cursors /\ Garbled \notin Cursors
  BY CursorsAssumption
<1>2. Absent # Empty /\ Empty # Garbled /\ Absent # Garbled
  BY DEF Absent, Empty, Garbled
<1>3. \A last \in LastIDs, v \in 0 .. Len(traffic) :
                 Cursor(last, v) \in OurCursors /\ Cursor(last, v)[2] = last
  BY DEF Cursor, OurCursors
<1>4. \A c \in OurCursors : c[2] \in LastIDs
  BY DEF OurCursors, Cursor
<1> QED BY <1>1, <1>2, <1>3, <1>4, TrafficFacts

(* A client whose own part of the state does not change keeps what the     *)
(* invariant says of it, whatever else is put out.                         *)
LEMMA OtherClients ==
    ASSUME ClientsInv, NEW h \in Savers, job'[h] = job[h], saveStep'[h] = saveStep[h],
           saving'[h] = saving[h], traffic' = traffic, emitted \subseteq emitted'
    PROVE  JobInv(h)' /\ BatchInv(h)' /\ SeenBy(h)'
<1>1. JobInv(h)'
  BY DEF ClientsInv, JobInv, JobOK, LastIDs
<1>2. SeenBy(h)'
  <2>1. StrictlyInOrder' = StrictlyInOrder /\ OurCursors' = OurCursors
    BY DEF StrictlyInOrder, OurCursors, LastIDs
  <2> QED BY <2>1 DEF ClientsInv, SeenBy, SeenUpTo
<1>3. BatchInv(h)'
  <2> SUFFICES ASSUME job[h].step \in {"version", "emit", "save"} PROVE BatchInv(h)'
    BY DEF BatchInv
  <2>1. /\ FromTraffic(job[h].batches)
        /\ job[h].step = "save" => job[h].batches # << >> /\ Head(job[h].batches) = << >>
    BY DEF ClientsInv, BatchInv, BatchesOK
  <2>2. PICK e : Remaining(job[h].batches, e, job[h].count, SavesInOrder(job[h]))
    BY DEF ClientsInv, BatchInv, BatchesOK
  <2>3. SavesInOrder(job[h])' <=> SavesInOrder(job[h])
    BY DEF SavesInOrder, StrictlyInOrder
  <2>4. Remaining(job[h].batches, e, job[h].count, SavesInOrder(job[h]))'
    BY <2>2, <2>3 DEF Remaining, GoesOn
  <2>5. FromTraffic(job[h].batches)'
    BY SMTT(30), <2>1 DEF FromTraffic
  <2> QED BY <2>1, <2>4, <2>5 DEF BatchInv, BatchesOK
<1> QED BY <1>1, <1>2, <1>3

-----------------------------------------------------------------------------
(* What the steps of a client have in common.                              *)

(* The client that takes a step leaves the jobs of the others alone. *)
LEMMA ClientFrame ==
    ASSUME StoredInv, FilesInv, ClientsInv, NEW g \in Savers, Begin(g) \/ Proceed(g)
    PROVE  /\ UNCHANGED <<storeVars, traffic>>
           /\ version' = version \/ version' = Len(packets)
           /\ emitted \subseteq emitted'
           /\ DOMAIN job' = Savers
           /\ \A h \in Savers \ {g} : /\ job'[h] = job[h]
                                      /\ saveStep'[h] = saveStep[h]
                                      /\ saving'[h] = saving[h]
<1> DEFINE Frame == /\ UNCHANGED <<storeVars, traffic>>
                    /\ version' = version \/ version' = Len(packets)
                    /\ emitted \subseteq emitted'
                    /\ DOMAIN job' = Savers
                    /\ \A h \in Savers \ {g} : /\ job'[h] = job[h]
                                               /\ saveStep'[h] = saveStep[h]
                                               /\ saving'[h] = saving[h]
<1>0. DOMAIN job = Savers /\ DOMAIN saveStep = Savers /\ DOMAIN saving = Savers
  BY DEF ClientsInv, FilesInv
<1> USE DEF ghostVars, cursorVars, serviceVars
<1>1. CASE BeginAll(g)
  BY <1>0, <1>1 DEF BeginAll, Enter
<1>2. CASE BeginBatch(g)
  BY <1>0, <1>2 DEF BeginBatch, Enter
<1>3. CASE BeginStream(g)
  BY <1>0, <1>3 DEF BeginStream, Enter
<1>4. CASE BeginResume(g)
  BY <1>0, <1>4 DEF BeginResume, Enter
<1>5. CASE ReadVersion(g)
  BY <1>0, <1>5 DEF ReadVersion
<1>6. CASE Refresh(g)
  BY <1>0, <1>6 DEF Refresh
<1>7. CASE ReadTail(g)
  BY <1>0, <1>7 DEF ReadTail
<1>8. CASE Emit(g)
  BY <1>0, <1>8 DEF Emit
<1>9. CASE OutputFails(g)
  BY <1>0, <1>9 DEF OutputFails
<1>10. CASE EndBatch(g)
  <2>1. UNCHANGED <<storeVars, traffic, version, emitted>> /\ DOMAIN job' = Savers /\ \A h \in Savers \ {g} : job'[h] = job[h]
    BY <1>0, <1>10 DEF EndBatch
  <2>2. \A h \in Savers \ {g} : saveStep'[h] = saveStep[h] /\ saving'[h] = saving[h]
    BY <1>0, <1>10 DEF EndBatch, BeginSave
  <2> QED BY <2>1, <2>2
<1>11. CASE Save(g)
  <2>1. UNCHANGED <<storeVars, traffic, version, emitted>> /\ DOMAIN job' = Savers /\ \A h \in Savers \ {g} : job'[h] = job[h]
    BY <1>0, <1>11 DEF Save
  <2>2. \A h \in Savers \ {g} : saveStep'[h] = saveStep[h] /\ saving'[h] = saving[h]
    BY <1>0, <1>11 DEF Save, OpenTemporary, WriteTemporary, Rename, EndSave
  <2> QED BY <2>1, <2>2
<1>12. CASE SaveError(g)
  <2>1. UNCHANGED <<storeVars, traffic, version, emitted>> /\ DOMAIN job' = Savers /\ \A h \in Savers \ {g} : job'[h] = job[h]
    BY <1>0, <1>12 DEF SaveError
  <2>2. \A h \in Savers \ {g} : saveStep'[h] = saveStep[h] /\ saving'[h] = saving[h]
    BY <1>0, <1>12 DEF SaveError, SaveFails, EndSave
  <2> QED BY <2>1, <2>2
<1>13. CASE FinishInner(g)
  BY <1>0, <1>13 DEF FinishInner
<1>14. CASE Finish(g)
  BY <1>0, <1>14 DEF Finish
<1> QED BY <1>1, <1>2, <1>3, <1>4, <1>5, <1>6, <1>7, <1>8, <1>9, <1>10, <1>11, <1>12, <1>13,
           <1>14 DEF Begin, Proceed

(* A request that meets no other leaves the others idle, and keeps meeting *)
(* none; a request that begins beside another ends that for both.          *)
LEMMA SoloAtWork ==
    ASSUME ClientsInv, AloneInv, NEW g \in Savers, Begin(g) \/ Proceed(g)
    PROVE  /\ g \in solo' => Alone(g) /\ \A h \in Savers \ {g} : job[h].step = "idle"
           /\ g \in solo' /\ Proceed(g) => g \in solo
           /\ \A h \in Savers \ {g} : h \in solo' => job[h].step = "idle"
           /\ Begin(g) => overlapped' = (overlapped \/ ~ Alone(g))
                          /\ solo' = IF Alone(g) THEN {g} ELSE {}
           /\ Proceed(g) => UNCHANGED <<overlapped, solo>> /\ job[g].step # "idle"
<1> USE DEF ghostVars
<1>1. CASE Begin(g)
  <2>1. /\ overlapped' = (overlapped \/ ~ Alone(g))
        /\ solo' = IF Alone(g) THEN {g} ELSE {}
        /\ job[g].step = "idle"
    BY <1>1 DEF Begin, BeginAll, BeginBatch, BeginStream, BeginResume, Enter
  <2>2. ~ Proceed(g)
    BY <2>1 DEF Proceed, ReadVersion, Refresh, ReadTail, Emit, OutputFails, EndBatch, Save, SaveError,
                FinishInner, Finish, Finished, Pending
  <2> QED BY <2>1, <2>2 DEF Alone
<1>2. CASE Proceed(g)
  <2>1. job[g].step # "idle"
    BY <1>2 DEF Proceed, ReadVersion, Refresh, ReadTail, Emit, OutputFails, EndBatch, Save, SaveError,
                FinishInner, Finish, Finished, Pending
  <2>2. UNCHANGED <<overlapped, solo>>
    BY <1>2 DEF Proceed, ReadVersion, Refresh, ReadTail, Emit, OutputFails, EndBatch, Save, SaveError,
                FinishInner, Finish
  <2>3. ~ Begin(g)
    BY <2>1 DEF Begin, BeginAll, BeginBatch, BeginStream, BeginResume, Enter
  <2> QED BY <2>1, <2>2, <2>3 DEF Alone, AloneInv
<1> QED BY <1>1, <1>2

(* Until requests met, a client that takes a step is the only one at work. *)
LEMMA OneAtWork ==
    ASSUME ClientsInv, AloneInv, NEW g \in Savers, Begin(g) \/ Proceed(g), ~ overlapped'
    PROVE  /\ ~ overlapped
           /\ g \in solo'
           /\ Alone(g)
           /\ \A h \in Savers \ {g} : job[h].step = "idle"
           /\ overlapped' = overlapped
<1>1. CASE Begin(g)
  BY <1>1, SoloAtWork DEF AloneInv
<1>2. CASE Proceed(g)
  <2>1. g \in solo'
    BY <1>2, SoloAtWork DEF AloneInv
  <2> QED BY <1>2, <2>1, SoloAtWork
<1> QED BY <1>1, <1>2

(* A store that was just made keeps its invariant. *)
LEMMA StoreInvBegins ==
    ASSUME StoreInit' PROVE StoreInv'
BY StoreInvInit, PTL

(* The packets that are stored are the first of the traffic, ...           *)
LEMMA StoredStep ==
    ASSUME ReplayInv, [ReplayNext]_replayVars
    PROVE  StoredInv'
<1> USE DEF ReplayInv
<1>1. ASSUME NEW g \in Savers, Begin(g) \/ Proceed(g) PROVE StoredInv'
  <2>1. /\ UNCHANGED <<storeVars, traffic>>
        /\ version' = version \/ version' = Len(packets)
    BY <1>1, ClientFrame
  <2>2. StoreInv'
    BY <2>1, UnchangedKeepsInv DEF StoredInv
  <2>3. version' \in 0 .. Len(traffic)
    BY <2>1, TrafficFacts DEF StoredInv
  <2> QED BY <2>1, <2>2, <2>3 DEF StoredInv, storeVars
<1>2. CASE Arrive
  <2> DEFINE pkt == traffic[Len(packets) + 1]
  <2>1. pkt \in Offered /\ Insert(pkt) /\ Len(packets) < Len(traffic) /\ UNCHANGED <<traffic, version>>
    BY <1>2, TrafficFacts DEF Arrive, serviceVars, ghostVars
  <2> HIDE DEF pkt
  <2>2. StoreInv'
    BY <2>1, StoreInvStep DEF StoredInv, StoreNext, StorePut
  <2>3. /\ packets' = Append(packets, pkt) /\ packets' \in Seq(Offered)
        /\ Len(packets') = Len(packets) + 1 /\ Len(packets) \in Nat
    BY <2>1, InsertAppends DEF StoredInv
  <2>4. Len(packets') <= Len(traffic)
    BY <2>1, <2>3, TrafficFacts
  <2>5. \A i \in 1 .. Len(packets') : packets'[i] = traffic'[i]
    BY <2>1, <2>3, TrafficFacts DEF StoredInv, pkt
  <2>6. \A s \in Streams : Len(byStream'[s]) <= Len(packets')
    <3> TAKE s \in Streams
    <3>1. byStream' = [byStream EXCEPT ![pkt.stream] = Append(@, pkt.id)]
      BY <2>1 DEF Insert
    <3>2. byStream \in [Streams -> Seq({p.id : p \in Offered})] /\ pkt.id \in {p.id : p \in Offered}
      BY <2>1 DEF StoredInv, StoreInv, StoreTypeOK
    <3>3. Len(byStream'[s]) <= Len(byStream[s]) + 1
      BY <3>1, <3>2
    <3>4. Len(byStream[s]) <= Len(packets) /\ Len(byStream[s]) \in Nat
      BY <3>2 DEF StoredInv
    <3>5. Len(byStream'[s]) \in Nat
      BY <3>1, <3>2
    <3> QED BY <2>3, <3>3, <3>4, <3>5
  <2> QED BY <2>1, <2>2, <2>4, <2>5, <2>6 DEF StoredInv
<1>3. CASE Crash
  <2>1. StoreInit' /\ traffic' = traffic /\ version' = 0
    BY <1>3 DEF Crash, StoreInit
  <2>2. StoreInv'
    BY <2>1, StoreInvBegins
  <2> QED BY <2>1, <2>2, TrafficFacts DEF StoredInv, StoreInit
<1>4. CASE UNCHANGED replayVars
  BY <1>4, UnchangedKeepsInv DEF StoredInv, replayVars, storeVars, serviceVars, ghostVars
<1> QED BY <1>1, <1>2, <1>3, <1>4 DEF ReplayNext

(* ... and the files hold cursors of the traffic, or what a save left of   *)
(* them: only packets of the traffic are ever named.                       *)
LEMMA FilesStep ==
    ASSUME ReplayInv, [ReplayNext]_replayVars
    PROVE  FilesInv'
<1> USE DEF ReplayInv, FilesInv
<1>0. /\ \A g \in Savers : job[g].step = "save" <=> saveStep[g] # "idle"
      /\ \A g \in Savers : saveStep[g] # "idle" => saving[g] \in OurCursors
  BY DEF ClientsInv, JobInv
<1>1. CASE UNCHANGED <<cursorVars, traffic>>
  <2>1. OurCursors' = OurCursors
    BY <1>1 DEF OurCursors, LastIDs
  <2> QED BY <1>1, <2>1 DEF cursorVars
<1>2. ASSUME NEW g \in Savers, EndBatch(g) PROVE FilesInv'
  <2>1. OurCursors' = OurCursors
    BY <1>2 DEF EndBatch, ghostVars, OurCursors, LastIDs
  <2>2. CASE UNCHANGED cursorVars
    BY <2>1, <2>2 DEF cursorVars
  <2>3. CASE BeginSave(g, Cursor(job[g].last, IF job[g].kind = "all" THEN job[g].version ELSE version))
    <3>1. Cursor(job[g].last, IF job[g].kind = "all" THEN job[g].version ELSE version) \in OurCursors
      BY CursorFacts DEF ClientsInv, JobInv, JobOK, StoredInv
    <3> QED BY <2>1, <2>3, <3>1 DEF BeginSave
  <2> QED BY <1>2, <2>2, <2>3 DEF EndBatch
<1>3. ASSUME NEW g \in Savers, Save(g) PROVE FilesInv'
  <2>1. OurCursors' = OurCursors
    BY <1>3 DEF Save, OurCursors, LastIDs
  <2>2. CASE OpenTemporary(g)
    BY <2>1, <2>2 DEF OpenTemporary
  <2>3. CASE WriteTemporary(g)
    <3>1. saving[g] \in OurCursors
      BY <2>3 DEF WriteTemporary
    <3>2. files' \in [{"tmp", "main"} -> OurCursors \cup {Absent, Empty, Garbled}]
      BY <2>3, <3>1 DEF WriteTemporary, Outcomes
    <3> QED BY <2>1, <2>3, <3>2 DEF WriteTemporary
  <2>4. CASE Rename(g)
    <3>1. files' \in [{"tmp", "main"} -> OurCursors \cup {Absent, Empty, Garbled}]
      BY <2>4 DEF Rename
    <3>2. handle' \in [Savers -> {"none", "tmp", "main", "gone"}]
      BY <2>4 DEF Rename, Renamed
    <3> QED BY <2>1, <2>4, <3>1, <3>2 DEF Rename, EndSave
  <2> QED BY <1>3, <2>2, <2>3, <2>4 DEF Save
<1>4. ASSUME NEW g \in Savers, SaveError(g) PROVE FilesInv'
  <2>1. OurCursors' = OurCursors
    BY <1>4 DEF SaveError, ghostVars, OurCursors, LastIDs
  <2>2. SaveFails(g)
    BY <1>4 DEF SaveError
  <2> QED BY <2>1, <2>2 DEF SaveFails, EndSave
<1>5. CASE Crash
  <2>1. OurCursors' = OurCursors
    BY <1>5 DEF Crash, OurCursors, LastIDs
  <2> QED BY <1>5, <2>1 DEF Crash, CursorCrash
<1>6. ASSUME NEW g \in Savers, Begin(g) \/ Proceed(g)
      PROVE  \/ EndBatch(g) \/ Save(g) \/ SaveError(g)
             \/ UNCHANGED <<cursorVars, traffic>>
  BY <1>6 DEF Begin, BeginAll, BeginBatch, BeginStream, BeginResume, Enter, Proceed, ReadVersion,
              Refresh, ReadTail, Emit, OutputFails, FinishInner, Finish, ghostVars
<1>7. CASE Arrive \/ UNCHANGED replayVars
  <2>1. UNCHANGED <<cursorVars, traffic>>
    BY <1>7 DEF Arrive, replayVars, ghostVars
  <2> HIDE DEF FilesInv
  <2> QED BY <1>1, <2>1
<1>8. ASSUME NEW g \in Savers, Begin(g) \/ Proceed(g) PROVE FilesInv'
  <2> HIDE DEF FilesInv
  <2> QED BY <1>1, <1>2, <1>3, <1>4, <1>6, <1>8
<1> HIDE DEF FilesInv
<1> QED BY <1>1, <1>5, <1>7, <1>8 DEF ReplayNext

(* A cursor that names packets that were put out keeps naming them. *)
LEMMA SeenStays ==
    ASSUME StrictlyInOrder', traffic' = traffic, emitted \subseteq emitted'
    PROVE  /\ StrictlyInOrder
           /\ OurCursors' = OurCursors
           /\ \A last : SeenUpTo(last) => SeenUpTo(last)'
BY DEF StrictlyInOrder, OurCursors, LastIDs, SeenUpTo

(* Every step keeps it that a file names only a cursor whose packets were  *)
(* put out. *)
LEMMA FilesSeenStep ==
    ASSUME ReplayInv, [ReplayNext]_replayVars
    PROVE  FilesSeen'
<1> USE DEF ReplayInv
<1> SUFFICES ASSUME StrictlyInOrder',
                    NEW name \in {"tmp", "main"}, files'[name] \in OurCursors'
             PROVE  SeenUpTo(files[name][2])'
  BY DEF FilesSeen
<1>1. traffic' = traffic /\ emitted \subseteq emitted'
  BY ClientFrame DEF ReplayNext, Arrive, Crash, replayVars, ghostVars
<1> DEFINE Known(text) ==
              \/ \E n \in {"tmp", "main"} : text = files[n]
              \/ \E g \in Savers : saveStep[g] # "idle" /\ text = saving[g]
              \/ text \in {Absent, Empty, Garbled}
<1>2. Known(files'[name])
  <2>1. CASE UNCHANGED files
    BY <2>1
  <2>2. ASSUME NEW g \in Savers, OpenTemporary(g) \/ WriteTemporary(g) \/ Rename(g) \/ SaveFails(g)
        PROVE  Known(files'[name])
    <3>1. CASE OpenTemporary(g)
      BY <3>1 DEF OpenTemporary, FilesInv
    <3>2. CASE WriteTemporary(g)
      BY <3>2 DEF WriteTemporary, Outcomes, FilesInv
    <3>3. CASE Rename(g)
      BY <3>3 DEF Rename, FilesInv
    <3>4. CASE SaveFails(g)
      BY <3>4 DEF SaveFails, FilesInv
    <3> QED BY <2>2, <3>1, <3>2, <3>3, <3>4
  <2>3. ASSUME NEW g \in Savers, Begin(g) \/ Proceed(g)
        PROVE  UNCHANGED files \/ OpenTemporary(g) \/ WriteTemporary(g) \/ Rename(g) \/ SaveFails(g)
    BY <2>3 DEF Begin, BeginAll, BeginBatch, BeginStream, BeginResume, Enter, Proceed, ReadVersion,
              Refresh, ReadTail, Emit, OutputFails, EndBatch, BeginSave, Save, SaveError, FinishInner,
              Finish, cursorVars
  <2>4. CASE Arrive \/ Crash \/ UNCHANGED replayVars
    BY <2>1, <2>4 DEF Arrive, Crash, CursorCrash, replayVars, cursorVars
  <2> HIDE DEF Known
  <2> QED BY <2>1, <2>2, <2>3, <2>4 DEF ReplayNext
<1>3. \A n \in {"tmp", "main"} : files[n] \in OurCursors => SeenUpTo(files[n][2])
  BY <1>1, SeenStays DEF FilesSeen
<1>4. \A g \in Savers : saveStep[g] # "idle" => saving[g] \in OurCursors /\ SeenUpTo(saving[g][2])
  BY <1>1, SeenStays DEF FilesInv, ClientsInv, SeenBy
<1>5. SeenUpTo(files'[name][2])
  <2>1. OurCursors' = OurCursors
    BY <1>1, SeenStays
  <2>2. Absent \notin OurCursors /\ Empty \notin OurCursors /\ Garbled \notin OurCursors
    BY CursorFacts
  <2> QED BY <1>2, <1>3, <1>4, <2>1, <2>2
<1> QED BY <1>1, <1>5 DEF SeenUpTo

-----------------------------------------------------------------------------
(* What is left of a request                                               *)

(* What a request has still to do stays in order when the traffic stays    *)
(* and more is put out. *)
LEMMA BatchesStay ==
    ASSUME NEW b, NEW count, NEW inOrder, BatchesOK(b, count, inOrder),
           traffic' = traffic, emitted \subseteq emitted'
    PROVE  BatchesOK(b, count, inOrder)'
<1>1. PICK e : Remaining(b, e, count, inOrder)
  BY DEF BatchesOK
<1>2. Remaining(b, e, count, inOrder)'
  BY <1>1 DEF Remaining, GoesOn
<1>3. FromTraffic(b)'
  BY DEF BatchesOK, FromTraffic
<1> QED BY <1>2, <1>3 DEF BatchesOK

(* The chunks of a list of stored packets.                                 *)
LEMMA NewBatches ==
    ASSUME StoredInv, NEW list \in Seq(Offered), NEW inOrder \in BOOLEAN,
           Len(list) <= Len(traffic),
           \A i \in 1 .. Len(list) : \E j \in 1 .. Len(traffic) : list[i] = traffic[j],
           inOrder => /\ InStrictOrder(list)
                      /\ \A i \in 1 .. Len(list) : list[i] = traffic[i]
    PROVE  /\ BatchesOK(Batches(list), 0, inOrder)
           /\ InTimeOrder(list) => AllInTime(Batches(list))
<1> DEFINE b == Batches(list)
           n == Len(list)
<1>1. PICK e : /\ CutsList(Batches(list), e, list)
               /\ InStrictOrder(list) =>
                    \A k \in 1 .. Len(Batches(list)) : \A i \in 1 .. Len(Batches(list)[k]) :
                       Batches(list)[k][i] = list[e[k - 1] + i]
  BY BatchesProperties
<1> HIDE DEF b
<1>2. /\ Cut(b, e) /\ e[0] = 0 /\ e[Len(b)] = n
      /\ \A k \in 1 .. Len(b) :
            /\ InTimeOrder(b[k])
            /\ \A i \in 1 .. Len(b[k]) : \E j \in e[k - 1] + 1 .. e[k] : b[k][i] = list[j]
      /\ \A k, l \in 1 .. Len(b) : k < l => e[k] <= e[l - 1]
      /\ InStrictOrder(list) =>
           \A k \in 1 .. Len(b) : \A i \in 1 .. Len(b[k]) : b[k][i] = list[e[k - 1] + i]
  BY <1>1 DEF CutsList, b
<1>3. /\ Len(b) \in Nat
      /\ e \in [0 .. Len(b) -> Nat]
      /\ \A k \in 1 .. Len(b) : e[k] = e[k - 1] + Len(b[k]) /\ Len(b[k]) \in Nat
      /\ n \in Nat /\ Len(traffic) \in Nat /\ n <= Len(traffic)
  BY <1>2, TrafficFacts DEF Cut
<1> HIDE DEF n
<1>4. \A k \in 0 .. Len(b) : e[k] <= n
  <2> TAKE k \in 0 .. Len(b)
  <2>1. CASE k = Len(b)
    BY <1>2, <1>3, <2>1
  <2>2. CASE k = 0
    BY <1>2, <1>3, <2>2
  <2>3. CASE k # Len(b) /\ k # 0
    <3> DEFINE m == Len(b)
    <3>1. k \in 1 .. m /\ m \in 1 .. m /\ k < m /\ m - 1 \in 0 .. m /\ m \in 0 .. m /\ k \in 0 .. m
      BY <1>3, <2>3
    <3>2. e[k] <= e[m - 1] /\ e[m] = e[m - 1] + Len(b[m]) /\ Len(b[m]) \in Nat
      BY <1>2, <1>3, <3>1
    <3>3. e[k] \in Nat /\ e[m - 1] \in Nat /\ e[m] = n
      BY <1>2, <1>3, <3>1
    <3> HIDE DEF m
    <3> QED BY <3>2, <3>3
  <2> QED BY <2>1, <2>2, <2>3
<1>5. \A k \in 1 .. Len(b) : \A j \in e[k - 1] + 1 .. e[k] : j \in 1 .. n
  <2> TAKE k \in 1 .. Len(b)
  <2>1. k - 1 \in 0 .. Len(b) /\ k \in 0 .. Len(b)
    BY <1>3
  <2>2. e[k - 1] \in Nat /\ e[k] \in Nat /\ e[k] <= n
    BY <1>3, <1>4, <2>1
  <2> QED BY <1>3, <2>2
<1>6. FromTraffic(b)
  BY <1>2, <1>5 DEF FromTraffic, n
<1>7. ASSUME inOrder PROVE GoesOn(b, e)
  <2>1. \A k \in 1 .. Len(b) : \A i \in 1 .. Len(b[k]) : e[k - 1] + i \in 1 .. n
    <3> TAKE k \in 1 .. Len(b)
    <3> TAKE i \in 1 .. Len(b[k])
    <3>1. k - 1 \in 0 .. Len(b) /\ k \in 0 .. Len(b)
      BY <1>3
    <3>2. e[k - 1] \in Nat /\ e[k] \in Nat /\ e[k] <= n /\ e[k] = e[k - 1] + Len(b[k]) /\ Len(b[k]) \in Nat
      BY <1>3, <1>4, <3>1
    <3> DEFINE lo == e[k - 1]
               hi == e[k]
               m  == Len(b[k])
    <3>3. lo \in Nat /\ hi \in Nat /\ hi <= n /\ hi = lo + m /\ m \in Nat /\ i \in 1 .. m
      BY <3>2
    <3> HIDE DEF lo, hi, m
    <3>4. lo + i \in 1 .. n
      BY <1>3, <3>3
    <3> QED BY <3>4 DEF lo
  <2>2. \A k \in 1 .. Len(b) : \A i \in 1 .. Len(b[k]) : b[k][i] = traffic[e[k - 1] + i]
    BY <1>2, <1>7, <2>1 DEF n
  <2> QED BY <1>2, <2>2 DEF GoesOn
<1>8. Remaining(b, e, 0, inOrder)
  <2>1. ASSUME NEW k \in 0 .. Len(b) PROVE e[k] <= Len(traffic)
    <3>1. e[k] \in Nat /\ e[k] <= n
      BY <1>3, <1>4
    <3> QED BY <1>3, <3>1
  <2> QED BY <1>2, <1>7, <2>1 DEF Remaining
<1>9. ASSUME InTimeOrder(list), NEW k \in 1 .. Len(b), NEW l \in 1 .. Len(b), k < l
      PROVE  InTimeBefore(b[k], b[l])
  <2> SUFFICES ASSUME NEW i \in 1 .. Len(b[k]), NEW j \in 1 .. Len(b[l])
               PROVE  ~ IsLater(b[k][i], b[l][j])
    BY DEF InTimeBefore
  <2>1. PICK x \in e[k - 1] + 1 .. e[k] : b[k][i] = list[x]
    BY <1>2
  <2>2. PICK y \in e[l - 1] + 1 .. e[l] : b[l][j] = list[y]
    BY <1>2
  <2>3. x \in 1 .. n /\ y \in 1 .. n
    BY <1>5
  <2>4. e[k] <= e[l - 1] /\ e[k] \in Nat /\ e[l - 1] \in Nat /\ e[l] \in Nat /\ e[k - 1] \in Nat
    <3>1. k \in 0 .. Len(b) /\ k - 1 \in 0 .. Len(b) /\ l \in 0 .. Len(b) /\ l - 1 \in 0 .. Len(b)
      BY <1>3
    <3> QED BY <1>2, <1>3, <1>9, <3>1
  <2>5. x < y
    <3> DEFINE p == e[k]
               q == e[l - 1]
    <3>1. p \in Nat /\ q \in Nat /\ p <= q
      BY <2>4
    <3>2. x <= p /\ y >= q + 1
      BY <2>1, <2>2, <2>4
    <3> HIDE DEF p, q
    <3> QED BY <2>3, <3>1, <3>2
  <2>6. DOMAIN list = 1 .. n /\ InTimeOrder(list)
    BY <1>9 DEF n
  <2>7. ~ IsLater(list[x], list[y])
    BY <2>3, <2>5, <2>6 DEF InTimeOrder
  <2> QED BY <2>1, <2>2, <2>7
<1>10. BatchesOK(b, 0, inOrder)
  BY <1>6, <1>8 DEF BatchesOK
<1>11. InTimeOrder(list) => AllInTime(b)
  BY <1>2, <1>9 DEF AllInTime
<1> QED BY <1>10, <1>11 DEF b

(* Where the chunks end when the first, which is empty, is left out. *)
LEMMA TailCut ==
    ASSUME NEW b, NEW e, Cut(b, e), b # << >>, Head(b) = << >>
    PROVE  /\ Cut(Tail(b), [k \in 0 .. Len(b) - 1 |-> e[k + 1]])
           /\ Len(Tail(b)) + 1 = Len(b)
           /\ \A k \in 1 .. Len(Tail(b)) : Tail(b)[k] = b[k + 1] /\ k + 1 \in 1 .. Len(b)
           /\ \A k \in 0 .. Len(Tail(b)) :
                 [l \in 0 .. Len(b) - 1 |-> e[l + 1]][k] = e[k + 1] /\ k + 1 \in 0 .. Len(b)
           /\ e[1] = e[0]
<1>2. /\ b \in Seq(Seq(Offered)) /\ Len(b) \in Nat /\ Len(b) # 0
      /\ e \in [0 .. Len(b) -> Nat]
      /\ \A k \in 1 .. Len(b) : e[k] = e[k - 1] + Len(b[k])
      /\ Len(b[1]) = 0
  BY DEF Cut
<1> DEFINE t == Tail(b)
           f == [k \in 0 .. Len(b) - 1 |-> e[k + 1]]
<1>3. /\ t \in Seq(Seq(Offered)) /\ Len(t) = Len(b) - 1
      /\ \A k \in 1 .. Len(t) : t[k] = b[k + 1] /\ k + 1 \in 1 .. Len(b)
  BY <1>2
<1> HIDE DEF t
<1>4. \A k \in 0 .. Len(t) : f[k] = e[k + 1] /\ k + 1 \in 0 .. Len(b)
  BY <1>2, <1>3
<1>5. e[1] = e[0]
  <2>1. 1 \in 1 .. Len(b) /\ 1 - 1 = 0 /\ 0 \in 0 .. Len(b) /\ 1 \in 0 .. Len(b)
    BY <1>2
  <2>2. e[1] = e[0] + Len(b[1])
    BY <1>2, <2>1
  <2>3. e[0] \in Nat /\ Len(b[1]) = 0
    BY <1>2, <2>1
  <2> QED BY <2>2, <2>3
<1>6. f \in [0 .. Len(t) -> Nat]
  <2>1. f = [k \in 0 .. Len(t) |-> e[k + 1]]
    BY <1>3
  <2>2. \A k \in 0 .. Len(t) : e[k + 1] \in Nat
    BY <1>2, <1>4
  <2> HIDE DEF f
  <2> QED BY <2>1, <2>2
<1> HIDE DEF f
<1>7. Cut(t, f)
  <2>1. ASSUME NEW k \in 1 .. Len(t) PROVE f[k] = f[k - 1] + Len(t[k])
    <3>0. /\ k - 1 \in 0 .. Len(t) /\ k \in 0 .. Len(t) /\ k + 1 \in 1 .. Len(b)
          /\ (k - 1) + 1 = k /\ (k + 1) - 1 = k
      BY <1>2, <1>3
    <3>1. f[k] = e[k + 1] /\ f[k - 1] = e[k]
      BY <1>4, <3>0
    <3>2. e[k + 1] = e[k] + Len(b[k + 1])
      BY <1>2, <3>0
    <3> QED BY <1>3, <3>1, <3>2
  <2> QED BY <1>3, <1>6, <2>1 DEF Cut
<1> QED BY <1>2, <1>3, <1>4, <1>5, <1>7 DEF t, f

(* A request that goes on to the next chunk. *)
LEMMA TailBatches ==
    ASSUME StoredInv, NEW b, NEW count \in Nat, NEW inOrder, BatchesOK(b, count, inOrder),
           b # << >>, Head(b) = << >>
    PROVE  /\ BatchesOK(Tail(b), count, inOrder)
           /\ AllInTime(b) => AllInTime(Tail(b))
           /\ Len(Tail(b)) + 1 = Len(b)
           /\ \A k \in 1 .. Len(Tail(b)) : Tail(b)[k] = b[k + 1] /\ k + 1 \in 1 .. Len(b)
<1>1. PICK e : Remaining(b, e, count, inOrder)
  BY DEF BatchesOK
<1>2. /\ b \in Seq(Seq(Offered)) /\ Len(b) \in Nat /\ Len(b) # 0
      /\ e \in [0 .. Len(b) -> Nat]
      /\ \A k \in 1 .. Len(b) : e[k] = e[k - 1] + Len(b[k])
      /\ \A k \in 0 .. Len(b) : e[k] <= Len(traffic)
      /\ count <= e[0]
      /\ Len(b[1]) = 0
  BY <1>1 DEF Remaining, Cut
<1> DEFINE t == Tail(b)
           f == [k \in 0 .. Len(b) - 1 |-> e[k + 1]]
<1>3. /\ Cut(t, f) /\ Len(t) + 1 = Len(b) /\ e[1] = e[0]
      /\ \A k \in 1 .. Len(t) : t[k] = b[k + 1] /\ k + 1 \in 1 .. Len(b)
      /\ \A k \in 0 .. Len(t) : f[k] = e[k + 1] /\ k + 1 \in 0 .. Len(b)
  BY <1>1, TailCut DEF Remaining
<1>4. f[0] = e[0] /\ Len(t) \in Nat
  BY <1>2, <1>3
<1> HIDE DEF t, f
<1>7. \A k \in 0 .. Len(t) : f[k] <= Len(traffic)
  BY <1>2, <1>3
<1>8. ASSUME inOrder PROVE GoesOn(t, f)
  <2>1. GoesOn(b, e)
    BY <1>1, <1>8 DEF Remaining
  <2>2. ASSUME NEW k \in 1 .. Len(t), NEW i \in 1 .. Len(t[k]) PROVE t[k][i] = traffic[f[k - 1] + i]
    <3>1. f[k - 1] = e[(k + 1) - 1]
      <4>1. k - 1 \in 0 .. Len(t) /\ (k - 1) + 1 = (k + 1) - 1
        BY <1>2, <1>3
      <4> QED BY <1>3, <4>1
    <3>2. b[k + 1][i] = traffic[e[(k + 1) - 1] + i]
      BY <1>3, <2>1 DEF GoesOn
    <3> QED BY <1>3, <3>1, <3>2
  <2> QED BY <1>4, <2>1, <2>2 DEF GoesOn
<1>9. FromTraffic(t)
  <2> SUFFICES ASSUME NEW k \in 1 .. Len(t), NEW i \in 1 .. Len(t[k])
               PROVE  \E j \in 1 .. Len(traffic) : t[k][i] = traffic[j]
    BY DEF FromTraffic
  <2>1. t[k] = b[k + 1] /\ k + 1 \in 1 .. Len(b)
    BY <1>3
  <2> QED BY <2>1 DEF BatchesOK, FromTraffic
<1>10. Remaining(t, f, count, inOrder)
  BY <1>2, <1>3, <1>4, <1>7, <1>8 DEF Remaining
<1>11. BatchesOK(t, count, inOrder)
  BY <1>9, <1>10 DEF BatchesOK
<1>12. AllInTime(b) => AllInTime(t)
  <2> SUFFICES ASSUME AllInTime(b) PROVE AllInTime(t)
    OBVIOUS
  <2>1. \A k \in 1 .. Len(t) : InTimeOrder(t[k])
    BY <1>3 DEF AllInTime
  <2>2. ASSUME NEW k \in 1 .. Len(t), NEW l \in 1 .. Len(t), k < l PROVE InTimeBefore(t[k], t[l])
    <3>1. k + 1 < l + 1
      BY <1>3, <2>2
    <3> QED BY <1>3, <3>1 DEF AllInTime
  <2> QED BY <2>1, <2>2 DEF AllInTime
<1> QED BY <1>2, <1>3, <1>11, <1>12 DEF t

(* Where the chunks end when the first packet is taken from the first. *)
LEMMA EmitCut ==
    ASSUME NEW b, NEW e, Cut(b, e), b # << >>, Head(b) # << >>
    PROVE  /\ Cut([b EXCEPT ![1] = Tail(@)], [e EXCEPT ![0] = @ + 1])
           /\ Len([b EXCEPT ![1] = Tail(@)]) = Len(b)
           /\ Len([b EXCEPT ![1] = Tail(@)][1]) = Len(b[1]) - 1
           /\ \A i \in 1 .. Len([b EXCEPT ![1] = Tail(@)][1]) :
                 [b EXCEPT ![1] = Tail(@)][1][i] = b[1][i + 1] /\ i + 1 \in 1 .. Len(b[1])
           /\ \A k \in 1 .. Len(b) : k # 1 => [b EXCEPT ![1] = Tail(@)][k] = b[k]
           /\ [e EXCEPT ![0] = @ + 1][0] = e[0] + 1
           /\ \A k \in 1 .. Len(b) : [e EXCEPT ![0] = @ + 1][k] = e[k]
           /\ e[0] \in Nat /\ e[1] \in Nat /\ e[1] = e[0] + Len(b[1])
<1>2. /\ b \in Seq(Seq(Offered)) /\ Len(b) \in Nat /\ Len(b) # 0
      /\ e \in [0 .. Len(b) -> Nat]
      /\ \A k \in 1 .. Len(b) : e[k] = e[k - 1] + Len(b[k])
      /\ b[1] \in Seq(Offered) /\ Len(b[1]) \in Nat /\ Len(b[1]) # 0 /\ Head(b) = b[1]
  BY DEF Cut
<1> DEFINE t == [b EXCEPT ![1] = Tail(@)]
           f == [e EXCEPT ![0] = @ + 1]
<1>3. /\ t \in Seq(Seq(Offered)) /\ Len(t) = Len(b)
      /\ Len(t[1]) = Len(b[1]) - 1
      /\ \A i \in 1 .. Len(t[1]) : t[1][i] = b[1][i + 1] /\ i + 1 \in 1 .. Len(b[1])
      /\ \A k \in 1 .. Len(b) : k # 1 => t[k] = b[k]
  BY <1>2
<1>4. /\ f \in [0 .. Len(b) -> Nat] /\ f[0] = e[0] + 1
      /\ \A k \in 1 .. Len(b) : f[k] = e[k]
  <2> HIDE DEF t
  <2>1. 0 \in 0 .. Len(b)
    BY <1>2
  <2>2. e[0] \in Nat
    BY <1>2, <2>1
  <2> QED BY <1>2, <2>1, <2>2
<1>5. e[0] \in Nat /\ e[1] \in Nat /\ e[1] = e[0] + Len(b[1])
  <2>1. 1 \in 1 .. Len(b) /\ 1 - 1 = 0 /\ 0 \in 0 .. Len(b) /\ 1 \in 0 .. Len(b)
    BY <1>2
  <2>2. e[1] = e[0] + Len(b[1])
    BY <1>2, <2>1
  <2> QED BY <1>2, <2>1, <2>2
<1> HIDE DEF t, f
<1>6. Cut(t, f)
  <2>1. ASSUME NEW k \in 1 .. Len(t) PROVE f[k] = f[k - 1] + Len(t[k])
    <3>1. CASE k = 1
      <4>1. f[1] = e[1] /\ f[0] = e[0] + 1 /\ Len(t[1]) = Len(b[1]) - 1
        BY <1>2, <1>3, <1>4
      <4> QED BY <1>2, <1>5, <3>1, <4>1
    <3>2. CASE k # 1
      <4>1. k \in 1 .. Len(b) /\ k - 1 \in 1 .. Len(b)
        BY <1>2, <1>3, <3>2
      <4>2. f[k] = e[k] /\ f[k - 1] = e[k - 1] /\ t[k] = b[k]
        BY <1>3, <1>4, <3>2, <4>1
      <4> QED BY <1>2, <4>1, <4>2
    <3> QED BY <3>1, <3>2
  <2> QED BY <1>3, <1>4, <2>1 DEF Cut
<1> QED BY <1>3, <1>4, <1>5, <1>6 DEF t, f

(* A request that puts the next packet out. *)
LEMMA EmitBatches ==
    ASSUME StoredInv, NEW b, NEW count \in Nat, NEW inOrder, BatchesOK(b, count, inOrder),
           b # << >>, Head(b) # << >>, traffic' = traffic,
           emitted' = emitted \cup {Head(b)[1].id}
    PROVE  /\ BatchesOK([b EXCEPT ![1] = Tail(@)], count + 1, inOrder)'
           /\ count + 1 <= Len(traffic)
           /\ \E i \in 1 .. Len(traffic) :
                 /\ Head(b)[1] = traffic[i]
                 /\ inOrder => \A j \in 1 .. i : traffic[j].id \in emitted'
<1>1. PICK e : Remaining(b, e, count, inOrder)
  BY DEF BatchesOK
<1>2. /\ b \in Seq(Seq(Offered)) /\ Len(b) \in Nat /\ Len(b) # 0
      /\ e \in [0 .. Len(b) -> Nat]
      /\ \A k \in 1 .. Len(b) : e[k] = e[k - 1] + Len(b[k])
      /\ \A k \in 0 .. Len(b) : e[k] <= Len(traffic)
      /\ count <= e[0]
      /\ b[1] \in Seq(Offered) /\ Len(b[1]) \in Nat /\ Len(b[1]) # 0 /\ Head(b) = b[1]
  BY <1>1 DEF Remaining, Cut
<1> DEFINE t == [b EXCEPT ![1] = Tail(@)]
           f == [e EXCEPT ![0] = @ + 1]
           pkt == Head(b)[1]
<1>3. /\ Cut(t, f) /\ Len(t) = Len(b)
      /\ Len(t[1]) = Len(b[1]) - 1
      /\ \A i \in 1 .. Len(t[1]) : t[1][i] = b[1][i + 1] /\ i + 1 \in 1 .. Len(b[1])
      /\ \A k \in 1 .. Len(b) : k # 1 => t[k] = b[k]
  BY <1>1, EmitCut DEF Remaining
<1>4. /\ f[0] = e[0] + 1 /\ \A k \in 1 .. Len(b) : f[k] = e[k]
      /\ e[0] \in Nat /\ e[1] \in Nat /\ e[1] = e[0] + Len(b[1])
  BY <1>1, EmitCut DEF Remaining
<1>5. /\ e[0] \in Nat /\ e[1] \in Nat /\ e[1] = e[0] + Len(b[1]) /\ e[1] <= Len(traffic)
      /\ Len(traffic) \in Nat /\ 1 \in 1 .. Len(b) /\ 1 \in 1 .. Len(b[1])
  <2>1. 1 \in 1 .. Len(b) /\ 1 \in 0 .. Len(b) /\ 1 \in 1 .. Len(b[1])
    BY <1>2
  <2> QED BY <1>2, <1>4, <2>1, TrafficFacts
<1>6. e[0] + 1 <= e[1] /\ e[0] + 1 \in 1 .. Len(traffic)
  BY <1>2, <1>5
<1> HIDE DEF t, f
<1>8. ASSUME NEW k \in 0 .. Len(t) PROVE f[k] <= Len(traffic)
  <2>1. CASE k = 0
    BY <1>4, <1>6, <2>1
  <2>2. CASE k # 0
    <3>1. k \in 1 .. Len(b) /\ k \in 0 .. Len(b)
      BY <1>2, <1>3, <2>2
    <3> QED BY <1>2, <1>4, <3>1
  <2> QED BY <2>1, <2>2
<1>9. ASSUME inOrder
      PROVE  /\ pkt = traffic[e[0] + 1]
             /\ \A j \in 1 .. e[0] + 1 : traffic[j].id \in emitted'
             /\ \A k \in 1 .. Len(t) : \A i \in 1 .. Len(t[k]) : t[k][i] = traffic[f[k - 1] + i]
  <2>1. GoesOn(b, e)
    BY <1>1, <1>9 DEF Remaining
  <2>2. b[1][1] = traffic[e[1 - 1] + 1]
    BY <1>5, <2>1 DEF GoesOn
  <2>3. pkt = traffic[e[0] + 1]
    BY <1>2, <2>2
  <2>4. ASSUME NEW j \in 1 .. e[0] + 1 PROVE traffic[j].id \in emitted'
    <3>1. CASE j = e[0] + 1
      BY <2>3, <3>1
    <3>2. CASE j # e[0] + 1
      <4>1. j \in 1 .. e[0]
        BY <1>5, <3>2
      <4> QED BY <2>1, <4>1 DEF GoesOn
    <3> QED BY <3>1, <3>2
  <2>5. ASSUME NEW k \in 1 .. Len(t), NEW i \in 1 .. Len(t[k]) PROVE t[k][i] = traffic[f[k - 1] + i]
    <3>1. CASE k = 1
      <4>1. t[1][i] = b[1][i + 1] /\ i + 1 \in 1 .. Len(b[1])
        BY <1>3, <3>1
      <4>2. b[1][i + 1] = traffic[e[1 - 1] + (i + 1)]
        BY <1>5, <2>1, <4>1 DEF GoesOn
      <4>3. 1 - 1 = 0 /\ i \in Int /\ k - 1 = 0
        BY <3>1
      <4>4. e[0] + (i + 1) = (e[0] + 1) + i
        BY SMTT(30), <1>5, <4>3
      <4> QED BY <1>4, <3>1, <4>1, <4>2, <4>3, <4>4
    <3>2. CASE k # 1
      <4>1. k \in 1 .. Len(b) /\ k - 1 \in 1 .. Len(b)
        BY <1>2, <1>3, <3>2
      <4>2. f[k - 1] = e[k - 1] /\ t[k] = b[k]
        BY <1>3, <1>4, <3>2, <4>1
      <4> QED BY <2>1, <4>1, <4>2 DEF GoesOn
    <3> QED BY <3>1, <3>2
  <2> QED BY <2>3, <2>4, <2>5
<1>10. Remaining(t, f, count + 1, inOrder)'
  <2>1. count + 1 <= f[0]
    BY <1>2, <1>4, <1>5
  <2>2. inOrder => GoesOn(t, f)'
    BY <1>4, <1>9 DEF GoesOn
  <2> QED BY <1>3, <1>8, <2>1, <2>2 DEF Remaining
<1>11. FromTraffic(t)'
  <2> SUFFICES ASSUME NEW k \in 1 .. Len(t), NEW i \in 1 .. Len(t[k])
               PROVE  \E j \in 1 .. Len(traffic) : t[k][i] = traffic[j]
    BY DEF FromTraffic
  <2>1. \A l \in 1 .. Len(b) : \A m \in 1 .. Len(b[l]) : \E j \in 1 .. Len(traffic) : b[l][m] = traffic[j]
    BY DEF BatchesOK, FromTraffic
  <2>2. CASE k = 1
    <3>1. t[1][i] = b[1][i + 1] /\ i + 1 \in 1 .. Len(b[1])
      BY <1>3, <2>2
    <3> QED BY <1>5, <2>1, <2>2, <3>1
  <2>3. CASE k # 1
    <3>1. t[k] = b[k] /\ k \in 1 .. Len(b)
      BY <1>3, <2>3
    <3> QED BY <2>1, <3>1
  <2> QED BY <2>2, <2>3
<1>12. BatchesOK(t, count + 1, inOrder)'
  BY <1>10, <1>11 DEF BatchesOK
<1>13. count + 1 <= Len(traffic)
  BY <1>2, <1>5, <1>6
<1>14. \E i \in 1 .. Len(traffic) : /\ pkt = traffic[i]
                                    /\ inOrder => \A j \in 1 .. i : traffic[j].id \in emitted'
  <2>1. CASE inOrder
    BY <1>6, <1>9, <2>1
  <2>2. CASE ~ inOrder
    <3>1. \E j \in 1 .. Len(traffic) : b[1][1] = traffic[j]
      BY <1>5 DEF BatchesOK, FromTraffic
    <3> QED BY <1>2, <2>2, <3>1
  <2> QED BY <2>1, <2>2
<1> QED BY <1>12, <1>13, <1>14 DEF t

(* ... and what it puts out comes before the rest. *)
LEMMA EmitInTime ==
    ASSUME NEW b \in Seq(Seq(Offered)), b # << >>, Head(b) # << >>, AllInTime(b),
           NEW out \in Seq(Offered), InTimeOrder(out),
           \A k \in 1 .. Len(b) : InTimeBefore(out, b[k])
    PROVE  /\ AllInTime([b EXCEPT ![1] = Tail(@)])
           /\ Append(out, Head(b)[1]) \in Seq(Offered)
           /\ InTimeOrder(Append(out, Head(b)[1]))
           /\ \A k \in 1 .. Len([b EXCEPT ![1] = Tail(@)]) :
                 InTimeBefore(Append(out, Head(b)[1]), [b EXCEPT ![1] = Tail(@)][k])
<1> DEFINE t == [b EXCEPT ![1] = Tail(@)]
           pkt == Head(b)[1]
           o == Append(out, pkt)
<1>1. /\ Len(b) \in Nat /\ 1 \in 1 .. Len(b)
      /\ b[1] \in Seq(Offered) /\ Len(b[1]) \in Nat /\ 1 \in 1 .. Len(b[1])
      /\ pkt = b[1][1] /\ pkt \in Offered
      /\ Len(out) \in Nat /\ \A i \in 1 .. Len(out) : out[i] \in Offered
  OBVIOUS
<1>2. /\ Len(t) = Len(b)
      /\ Len(t[1]) = Len(b[1]) - 1
      /\ \A i \in 1 .. Len(t[1]) : t[1][i] = b[1][i + 1] /\ i + 1 \in 1 .. Len(b[1])
      /\ \A k \in 1 .. Len(b) : k # 1 => t[k] = b[k]
  BY <1>1
<1>3. /\ o \in Seq(Offered) /\ Len(o) = Len(out) + 1 /\ o[Len(out) + 1] = pkt
      /\ \A i \in 1 .. Len(out) : o[i] = out[i]
      /\ DOMAIN o = 1 .. Len(out) + 1
  BY <1>1
<1>4. \A k \in 1 .. Len(b) : DOMAIN b[k] = 1 .. Len(b[k]) /\ Len(b[k]) \in Nat
  OBVIOUS
<1>5. DOMAIN t[1] = 1 .. Len(t[1])
  BY <1>1
<1> HIDE DEF t, o, pkt
<1>6. ASSUME NEW j \in 1 .. Len(t[1]) PROVE ~ IsLater(pkt, t[1][j])
  <2>1. t[1][j] = b[1][j + 1] /\ j + 1 \in 1 .. Len(b[1]) /\ 1 < j + 1
    BY <1>1, <1>2
  <2>2. InTimeOrder(b[1])
    BY <1>1 DEF AllInTime
  <2> QED BY <1>1, <1>4, <2>1, <2>2 DEF InTimeOrder
<1>7. AllInTime(t)
  <2>1. ASSUME NEW k \in 1 .. Len(t) PROVE InTimeOrder(t[k])
    <3>1. CASE k = 1
      <4> SUFFICES ASSUME NEW i \in 1 .. Len(t[1]), NEW j \in 1 .. Len(t[1]), i < j
                   PROVE  ~ IsLater(t[1][i], t[1][j])
        BY <1>5, <3>1 DEF InTimeOrder
      <4>1. i + 1 < j + 1
        BY <1>1, <1>2
      <4>2. InTimeOrder(b[1])
        BY <1>1 DEF AllInTime
      <4> QED BY ZenonT(30), <1>1, <1>2, <1>4, <4>1, <4>2 DEF InTimeOrder
    <3>2. CASE k # 1
      BY <1>2, <3>2 DEF AllInTime
    <3> QED BY <3>1, <3>2
  <2>2. ASSUME NEW k \in 1 .. Len(t), NEW l \in 1 .. Len(t), k < l PROVE InTimeBefore(t[k], t[l])
    <3>1. InTimeBefore(b[k], b[l]) /\ t[l] = b[l]
      BY <1>1, <1>2, <2>2 DEF AllInTime
    <3>2. CASE k = 1
      BY <1>2, <3>1, <3>2 DEF InTimeBefore
    <3>3. CASE k # 1
      BY <1>2, <3>1, <3>3
    <3> QED BY <3>2, <3>3
  <2> QED BY <2>1, <2>2 DEF AllInTime
<1>8. InTimeOrder(o)
  <2> SUFFICES ASSUME NEW i \in 1 .. Len(out) + 1, NEW j \in 1 .. Len(out) + 1, i < j
               PROVE  ~ IsLater(o[i], o[j])
    BY <1>3 DEF InTimeOrder
  <2>1. i \in 1 .. Len(out) /\ DOMAIN out = 1 .. Len(out)
    BY <1>1
  <2>2. CASE j = Len(out) + 1
    <3>1. InTimeBefore(out, b[1])
      BY <1>1
    <3> QED BY <1>1, <1>3, <2>1, <2>2, <3>1 DEF InTimeBefore
  <2>3. CASE j # Len(out) + 1
    <3>1. j \in 1 .. Len(out)
      BY SMTT(30), <1>1, <2>3
    <3> QED BY <1>3, <2>1, <3>1 DEF InTimeOrder
  <2> QED BY <2>2, <2>3
<1>9. ASSUME NEW k \in 1 .. Len(t) PROVE InTimeBefore(o, t[k])
  <2> SUFFICES ASSUME NEW i \in 1 .. Len(out) + 1, NEW j \in 1 .. Len(t[k])
               PROVE  ~ IsLater(o[i], t[k][j])
    BY <1>3 DEF InTimeBefore
  <2>1. CASE i = Len(out) + 1
    <3>1. CASE k = 1
      BY <1>3, <1>6, <2>1, <3>1
    <3>2. CASE k # 1
      <4>1. InTimeBefore(b[1], b[k]) /\ t[k] = b[k]
        BY <1>1, <1>2, <3>2 DEF AllInTime
      <4> QED BY <1>1, <1>3, <2>1, <4>1 DEF InTimeBefore
    <3> QED BY <3>1, <3>2
  <2>2. CASE i # Len(out) + 1
    <3>1. i \in 1 .. Len(out) /\ InTimeBefore(out, b[k])
      BY <1>1, <1>2, <2>2
    <3>2. CASE k = 1
      BY <1>2, <1>3, <3>1, <3>2 DEF InTimeBefore
    <3>3. CASE k # 1
      BY <1>2, <1>3, <3>1, <3>3 DEF InTimeBefore
    <3> QED BY <3>2, <3>3
  <2> QED BY <2>1, <2>2
<1> QED BY <1>3, <1>7, <1>8, <1>9 DEF t, o, pkt

-----------------------------------------------------------------------------
(* The lists that requests begin with                                      *)

(* A resumed replay leaves out at most the whole list. *)
LEMMA IndexAfterRange ==
    ASSUME NEW list, NEW n \in Nat, DOMAIN list = 1 .. n, NEW last
    PROVE  /\ IndexAfter(list, last) \in 0 .. n
           /\ IndexAfter(list, last) # 0 => << list[IndexAfter(list, last)].id >> = last
<1>1. CASE \E i \in DOMAIN list : << list[i].id >> = last
  <2> DEFINE p == CHOOSE i \in DOMAIN list : << list[i].id >> = last
  <2>1. p \in DOMAIN list /\ << list[p].id >> = last
    BY <1>1
  <2> HIDE DEF p
  <2>2. IndexAfter(list, last) = p
    BY <1>1 DEF IndexAfter, p
  <2> QED BY <2>1, <2>2
<1>2. CASE ~ \E i \in DOMAIN list : << list[i].id >> = last
  BY <1>2 DEF IndexAfter
<1> QED BY <1>1, <1>2

(* What Ordered returns are packets of the traffic; while packets arrive   *)
(* in time order it is the beginning of the traffic. *)
LEMMA OrderedList ==
    ASSUME StoredInv, NEW list \in Orders
    PROVE  /\ list \in Seq(Offered)
           /\ Len(list) <= Len(traffic)
           /\ \A i \in 1 .. Len(list) : \E j \in 1 .. Len(traffic) : list[i] = traffic[j]
           /\ InTimeOrder(list)
           /\ StrictlyInOrder => /\ InStrictOrder(list)
                                 /\ \A i \in 1 .. Len(list) : list[i] = traffic[i]
<1>1. /\ list \in Seq(Offered) /\ Len(list) = Len(packets)
      /\ \A i \in 1 .. Len(list) : \E j \in 1 .. Len(packets) : list[i] = packets[j]
      /\ InTimeOrder(list)
      /\ InStrictOrder(packets) => list = packets
  BY OrdersProperties, TrafficFacts
<1>2. /\ Len(packets) <= Len(traffic) /\ Len(packets) \in Nat /\ Len(traffic) \in Nat
      /\ \A i \in 1 .. Len(packets) : packets[i] = traffic[i] /\ i \in 1 .. Len(traffic)
      /\ DOMAIN traffic = 1 .. Len(traffic)
  BY TrafficFacts DEF StoredInv
<1>3. \A i \in 1 .. Len(list) : \E j \in 1 .. Len(traffic) : list[i] = traffic[j]
  BY <1>1, <1>2
<1>4. ASSUME StrictlyInOrder PROVE InStrictOrder(list) /\ \A i \in 1 .. Len(list) : list[i] = traffic[i]
  <2>1. InStrictOrder(packets)
    BY <1>2, <1>4 DEF StrictlyInOrder, InStrictOrder
  <2> QED BY <1>1, <1>2, <2>1
<1> QED BY <1>1, <1>2, <1>3, <1>4

(* What a resumed request has left: what lies behind its cursor. *)
LEMMA ResumedBatches ==
    ASSUME StoredInv, NEW list \in Orders, NEW from, StrictlyInOrder => SeenUpTo(from)
    PROVE  LET b == << SubSeq(list, IndexAfter(list, from) + 1, Len(list)) >> IN
           BatchesOK(b, 0, StrictlyInOrder) /\ AllInTime(b)
<1> DEFINE n == Len(list)
           p == IndexAfter(list, from)
           q == SubSeq(list, p + 1, n)
           b == << q >>
           e == [k \in 0 .. 1 |-> IF k = 0 THEN p ELSE n]
<1>1. /\ list \in Seq(Offered) /\ n \in Nat /\ n <= Len(traffic) /\ Len(traffic) \in Nat
      /\ DOMAIN list = 1 .. n /\ \A i \in 1 .. n : list[i] \in Offered
      /\ \A i \in 1 .. n : \E j \in 1 .. Len(traffic) : list[i] = traffic[j]
      /\ InTimeOrder(list)
      /\ StrictlyInOrder => \A i \in 1 .. n : list[i] = traffic[i]
  BY OrderedList, TrafficFacts
<1>2. p \in 0 .. n /\ (p # 0 => << list[p].id >> = from)
  BY <1>1, IndexAfterRange
<1> HIDE DEF n, p
<1>3. q \in Seq(Offered) /\ Len(q) = n - p /\ \A i \in 1 .. n - p : q[i] = list[p + i] /\ p + i \in 1 .. n
  <2>1. \A i \in p + 1 .. n : list[i] \in Offered
    BY <1>1, <1>2
  <2>2. p + 1 \in Int /\ n \in Int
    BY <1>1, <1>2
  <2>3. /\ q \in Seq(Offered)
        /\ Len(q) = IF p + 1 <= n THEN n - (p + 1) + 1 ELSE 0
        /\ \A i \in 1 .. n - (p + 1) + 1 : q[i] = list[(p + 1) + i - 1]
    BY <2>1, <2>2, SubSeqProperties
  <2> HIDE DEF q
  <2>4. Len(q) = n - p
    BY <1>1, <1>2, <2>3
  <2>5. ASSUME NEW i \in 1 .. n - p PROVE q[i] = list[p + i] /\ p + i \in 1 .. n
    <3>1. i \in 1 .. n - (p + 1) + 1 /\ (p + 1) + i - 1 = p + i
      BY <1>1, <1>2
    <3> QED BY <1>1, <1>2, <2>3, <3>1
  <2> QED BY <2>3, <2>4, <2>5
<1> HIDE DEF q
<1>4. /\ b \in Seq(Seq(Offered)) /\ Len(b) = 1 /\ b[1] = q
  BY <1>3
<1>5. e \in [0 .. 1 -> Nat] /\ e[0] = p /\ e[1] = n
  BY <1>1, <1>2
<1> HIDE DEF b, e
<1>6. Cut(b, e)
  BY <1>1, <1>2, <1>3, <1>4, <1>5 DEF Cut
<1>7. \A k \in 0 .. Len(b) : e[k] <= Len(traffic)
  BY <1>1, <1>2, <1>4, <1>5
<1>8. ASSUME StrictlyInOrder PROVE GoesOn(b, e)
  <2>1. ASSUME NEW i \in 1 .. p PROVE traffic[i].id \in emitted
    <3>1. p \in 1 .. n /\ << list[p].id >> = from /\ list[p] = traffic[p] /\ p \in 1 .. Len(traffic)
      BY <1>1, <1>2, <1>8
    <3>2. from # << >>
      BY <3>1
    <3>3. PICK m \in 1 .. Len(traffic) : from = << traffic[m].id >> /\ \A j \in 1 .. m : traffic[j].id \in emitted
      BY <1>8, <3>2 DEF SeenUpTo
    <3>4. traffic[m].id = traffic[p].id
      BY <3>1, <3>3
    <3>5. m = p
      BY <3>1, <3>3, <3>4, TrafficFacts
    <3> QED BY <3>3, <3>5
  <2>2. ASSUME NEW k \in 1 .. Len(b), NEW i \in 1 .. Len(b[k]) PROVE b[k][i] = traffic[e[k - 1] + i]
    <3>1. k = 1 /\ 1 - 1 = 0
      BY <1>4
    <3>2. i \in 1 .. n - p /\ b[k][i] = list[p + i] /\ p + i \in 1 .. n
      BY <1>3, <1>4, <3>1
    <3> QED BY <1>1, <1>5, <1>8, <3>1, <3>2
  <2> QED BY <1>5, <2>1, <2>2 DEF GoesOn
<1>9. FromTraffic(b)
  <2> SUFFICES ASSUME NEW k \in 1 .. Len(b), NEW i \in 1 .. Len(b[k])
               PROVE  \E j \in 1 .. Len(traffic) : b[k][i] = traffic[j]
    BY DEF FromTraffic
  <2>1. k = 1 /\ i \in 1 .. n - p /\ b[k][i] = list[p + i] /\ p + i \in 1 .. n
    BY <1>3, <1>4
  <2> QED BY <1>1, <2>1
<1>10. BatchesOK(b, 0, StrictlyInOrder)
  <2>1. Remaining(b, e, 0, StrictlyInOrder)
    BY <1>2, <1>5, <1>6, <1>7, <1>8 DEF Remaining
  <2> QED BY <1>9, <2>1 DEF BatchesOK
<1>11. AllInTime(b)
  <2>1. InTimeOrder(q)
    <3> SUFFICES ASSUME NEW i \in 1 .. n - p, NEW j \in 1 .. n - p, i < j PROVE ~ IsLater(q[i], q[j])
      BY <1>3 DEF InTimeOrder
    <3>1. p + i < p + j
      BY <1>2
    <3> QED BY <1>1, <1>3, <3>1 DEF InTimeOrder
  <2> QED BY <1>4, <2>1 DEF AllInTime
<1> QED BY <1>10, <1>11 DEF b, q, p, n

(* The list of a stream: its packets in the order of arrival. *)
LEMMA StreamList ==
    ASSUME StoredInv, NEW s \in Streams, NEW list, list = GetStream(s)
    PROVE  /\ list \in Seq(Offered)
           /\ Len(list) <= Len(traffic)
           /\ \A i \in 1 .. Len(list) : \E j \in 1 .. Len(traffic) : list[i] = traffic[j]
           /\ InTimeOrder(traffic) => InTimeOrder(list)
<1> DEFINE ids == byStream[s]
           n == Len(ids)
<1>1. /\ ids \in Seq({pkt.id : pkt \in Offered}) /\ n \in Nat /\ DOMAIN ids = 1 .. n
      /\ n <= Len(packets) /\ Len(packets) <= Len(traffic) /\ Len(packets) \in Nat /\ Len(traffic) \in Nat
      /\ \A i \in 1 .. Len(packets) : packets[i] = traffic[i] /\ i \in 1 .. Len(traffic)
      /\ DOMAIN packets = 1 .. Len(packets) /\ DOMAIN traffic = 1 .. Len(traffic)
  BY TrafficFacts DEF StoredInv, StoreInv, StoreTypeOK
<1>2. \A k \in 1 .. n : \E i \in 1 .. Len(packets) : packets[i].id = ids[k]
  <2>1. {ids[k] : k \in DOMAIN ids} = {packets[i].id : i \in {j \in DOMAIN packets : packets[j].stream = s}}
    BY DEF StoredInv, StoreInv, IndexesAgree, StreamListsComplete
  <2> QED BY ZenonT(30), <1>1, <2>1
<1>3. list = [k \in 1 .. n |-> byID[ids[k]]]
  BY <1>1 DEF GetStream
<1>4. ASSUME NEW k \in 1 .. n, NEW i \in 1 .. Len(packets), packets[i].id = ids[k]
      PROVE  list[k] = packets[i] /\ list[k] = traffic[i] /\ list[k] \in Offered
  <2>1. byID[packets[i].id] = packets[i]
    BY <1>1 DEF StoredInv, StoreInv, IndexesAgree, LookupFaithful
  <2>2. list[k] = byID[packets[i].id]
    BY <1>3, <1>4
  <2>3. packets[i] \in Offered
    BY TrafficFacts
  <2> QED BY <1>1, <2>1, <2>2, <2>3
<1>5. \A k, l \in 1 .. n : \A i, j \in 1 .. Len(packets) :
         k < l /\ packets[i].id = ids[k] /\ packets[j].id = ids[l] => i < j
  BY <1>1 DEF StoredInv, StoreInv, IndexesAgree, StreamListsInOrder
<1> HIDE DEF ids, n
<1>6. list \in Seq(Offered) /\ Len(list) = n /\ DOMAIN list = 1 .. n
  <2>1. \A k \in 1 .. n : list[k] \in Offered
    BY <1>2, <1>4
  <2>2. list \in [1 .. n -> Offered]
    BY <1>3, <2>1
  <2> QED BY <1>1, <2>2
<1>7. \A i \in 1 .. n : \E j \in 1 .. Len(traffic) : list[i] = traffic[j]
  BY <1>1, <1>2, <1>4
<1>8. ASSUME InTimeOrder(traffic) PROVE InTimeOrder(list)
  <2> SUFFICES ASSUME NEW k \in 1 .. n, NEW l \in 1 .. n, k < l PROVE ~ IsLater(list[k], list[l])
    BY <1>6 DEF InTimeOrder
  <2>1. PICK i \in 1 .. Len(packets) : packets[i].id = ids[k]
    BY <1>2
  <2>2. PICK j \in 1 .. Len(packets) : packets[j].id = ids[l]
    BY <1>2
  <2>3. i < j
    BY <1>5, <2>1, <2>2
  <2>4. list[k] = traffic[i] /\ list[l] = traffic[j]
    BY <1>4, <2>1, <2>2
  <2> QED BY <1>1, <1>8, <2>3, <2>4 DEF InTimeOrder
<1> QED BY <1>1, <1>6, <1>7, <1>8

-----------------------------------------------------------------------------
(* The steps of a client                                                   *)

(* A request that begins with the chunks of a list. *)
LEMMA TakeBatches ==
    ASSUME NEW g \in Savers, NEW b, NEW count, NEW inOrder, BatchesOK(b, count, inOrder)',
           job'[g].batches = b, job'[g].count = count,
           SavesInOrder(job[g])' => inOrder,
           job'[g].step = "save" => b # << >> /\ Head(b) = << >>
    PROVE  BatchInv(g)'
<1>1. PICK e : Remaining(b, e, count, inOrder)'
  BY DEF BatchesOK
<1>2. Remaining(b, e, count, SavesInOrder(job[g]))'
  BY <1>1 DEF Remaining
<1>3. BatchesOK(job[g].batches, job[g].count, SavesInOrder(job[g]))'
  BY <1>2 DEF BatchesOK
<1> QED BY <1>3 DEF BatchInv

(* A request that begins with the cursor of the file. *)
LEMMA TakeCursor ==
    ASSUME StoredInv, ClientsInv, NEW g \in Savers, traffic' = traffic, emitted \subseteq emitted',
           saving'[g] = saving[g] \/ saving'[g] = Absent,
           StrictlyInOrder /\ job'[g].kind \in {"all", "resume"} =>
              SeenUpTo(job[g].last)' /\ SeenUpTo(job[g].from)'
    PROVE  SeenBy(g)'
<1> SUFFICES ASSUME StrictlyInOrder' PROVE SeenBy(g)'
  BY DEF SeenBy
<1>1. StrictlyInOrder /\ OurCursors' = OurCursors
  BY SeenStays
<1>2. ASSUME saving'[g] \in OurCursors PROVE SeenUpTo(saving[g][2])'
  <2>1. saving'[g] = saving[g] /\ saving[g] \in OurCursors
    BY <1>2, CursorFacts
  <2>2. SeenUpTo(saving[g][2])
    BY <1>1, <2>1 DEF ClientsInv, SeenBy
  <2> QED BY <2>1, <2>2 DEF SeenUpTo
<1> QED BY <1>1, <1>2 DEF SeenBy

(* The fields of a request that begins. *)
LEMMA TakeJob ==
    ASSUME StoredInv, NEW g \in Savers, traffic' = traffic, JobOK(job'[g]),
           job'[g].step = "save" <=> saveStep'[g] # "idle"
    PROVE  JobInv(g)'
BY DEF JobInv, JobOK, LastIDs

(* A client without a request. *)
LEMMA IdleIsOK ==
    ASSUME StoredInv
    PROVE  JobOK(Idle) /\ Idle.step = "idle" /\ Idle.kind = "none" /\ << >> \in LastIDs
BY TrafficFacts DEF JobOK, Idle, JobFields, Steps, LastIDs

(* A client that begins a request keeps its invariant. *)
LEMMA BeginClient ==
    ASSUME StoredInv, FilesInv, FilesSeen, ClientsInv, NEW g \in Savers, Begin(g)
    PROVE  JobInv(g)' /\ BatchInv(g)' /\ SeenBy(g)'
<1>0. /\ DOMAIN job = Savers /\ job[g].step = "idle" /\ saveStep[g] = "idle"
      /\ UNCHANGED <<storeVars, cursorVars, traffic, emitted>>
      /\ saveStep'[g] = saveStep[g] /\ saving'[g] = saving[g]
      /\ << >> \in LastIDs /\ Len(traffic) \in Nat
      /\ emitted \subseteq emitted'
  BY IdleIsOK, TrafficFacts DEF Begin, BeginAll, BeginBatch, BeginStream, BeginResume, Enter, ClientsInv, JobInv,
        cursorVars
<1>1. SeenUpTo(<< >>)'
  BY DEF SeenUpTo
<1> DEFINE Started(kind, step, list) ==
              /\ job'[g].kind = kind /\ job'[g].step = step /\ job'[g].batches = Batches(list)
              /\ job'[g].count = 0 /\ job'[g].version = 0
              /\ job'[g].last = << >> /\ job'[g].from = << >>
              /\ DOMAIN job'[g] = JobFields
<1>2. ASSUME NEW list \in Seq(Offered), NEW inOrder \in BOOLEAN, NEW kind, NEW step,
             Len(list) <= Len(traffic),
             \A i \in 1 .. Len(list) : \E j \in 1 .. Len(traffic) : list[i] = traffic[j],
             inOrder => InStrictOrder(list) /\ \A i \in 1 .. Len(list) : list[i] = traffic[i],
             StrictlyInOrder /\ kind \in {"all", "resume"} => inOrder,
             step \in {"version", "emit"}, step = "version" => kind \in {"all", "resume"},
             Started(kind, step, list)
      PROVE  JobInv(g)' /\ BatchInv(g)' /\ SeenBy(g)'
  <2>2. /\ job'[g].kind = kind /\ job'[g].step = step /\ job'[g].batches = Batches(list)
        /\ job'[g].count = 0 /\ job'[g].version = 0 /\ job'[g].last = << >> /\ job'[g].from = << >>
        /\ DOMAIN job'[g] = JobFields
    BY <1>2
  <2>3. JobInv(g)'
    <3>1. JobOK(job'[g])
      BY <1>0, <1>2, <2>2 DEF JobOK, Steps
    <3> QED BY <1>0, <1>2, <2>2, <3>1, TakeJob
  <2>4. BatchInv(g)'
    <3>1. BatchesOK(Batches(list), 0, inOrder)
      BY <1>2, NewBatches
    <3>2. PICK b : b = Batches(list)
      OBVIOUS
    <3>3. BatchesOK(b, 0, inOrder)'
      BY <1>0, <3>1, <3>2, BatchesStay
    <3>4. SavesInOrder(job[g])' => inOrder
      BY <1>0, <1>2, <2>2 DEF SavesInOrder, StrictlyInOrder
    <3> QED BY <1>2, <2>2, <3>2, <3>3, <3>4, TakeBatches
  <2>5. SeenBy(g)'
    BY <1>0, <1>1, <2>2, TakeCursor
  <2> QED BY <2>3, <2>4, <2>5
<1>3. CASE BeginAll(g)
  <2>1. PICK list \in Orders : Started("all", "version", list)
    BY <1>0, <1>3 DEF BeginAll, Idle, JobFields
  <2>2. PICK inOrder \in BOOLEAN : inOrder <=> StrictlyInOrder
    BY DEF StrictlyInOrder
  <2> HIDE DEF Started
  <2> QED BY <1>2, <2>1, <2>2, OrderedList
<1>4. CASE BeginBatch(g)
  <2>1. PICK list \in Orders : Started("batch", "emit", list)
    BY <1>0, <1>4 DEF BeginBatch, Idle, JobFields
  <2> HIDE DEF Started
  <2> QED BY <1>2, <2>1, OrderedList
<1>5. CASE BeginStream(g)
  <2>1. PICK s \in Streams : Started("stream", "emit", GetStream(s))
    BY <1>0, <1>5 DEF BeginStream, ListStreams, Idle, JobFields
  <2>2. PICK list : list = GetStream(s)
    OBVIOUS
  <2>4. Started("stream", "emit", list)
    BY <2>1, <2>2
  <2>5. /\ list \in Seq(Offered) /\ Len(list) <= Len(traffic)
        /\ \A i \in 1 .. Len(list) : \E j \in 1 .. Len(traffic) : list[i] = traffic[j]
    BY <2>2, StreamList
  <2> HIDE DEF Started
  <2> QED BY <1>2, <2>4, <2>5
<1>6. CASE BeginResume(g)
  <2>1. CASE ~ Loadable
    <3>1. job' = job
      BY <1>6, <2>1 DEF BeginResume
    <3> QED BY <1>0, <3>1, OtherClients
  <2>2. CASE Loadable
    <3> DEFINE last == IF files.main = Absent THEN << >> ELSE files.main[2]
    <3>1. job' = [job EXCEPT ![g] = [Idle EXCEPT !.kind = "resume", !.step = "refresh",
                                                 !.task = <<"replay-resume">>,
                                                 !.from = last, !.last = last]]
      BY <1>6, <2>2 DEF BeginResume
    <3>2. last \in LastIDs /\ (StrictlyInOrder => SeenUpTo(last))
      <4>1. CASE files.main = Absent
        BY <1>0, <4>1 DEF SeenUpTo
      <4>2. CASE files.main # Absent
        <5>1. files.main \in OurCursors
          BY <2>2, <4>2, CursorFacts DEF Loadable, FilesInv
        <5> QED BY <4>2, <5>1, CursorFacts DEF FilesSeen
      <4> QED BY <4>1, <4>2
    <3> HIDE DEF last
    <3>3. /\ job'[g].kind = "resume" /\ job'[g].step = "refresh"
          /\ job'[g].count = 0 /\ job'[g].version = 0 /\ job'[g].last = last /\ job'[g].from = last
          /\ DOMAIN job'[g] = JobFields
      BY <1>0, <3>1 DEF Idle, JobFields
    <3>4. JobInv(g)'
      <4>1. JobOK(job'[g])
        BY <1>0, <3>2, <3>3 DEF JobOK, Steps
      <4> QED BY <1>0, <3>3, <4>1, TakeJob
    <3>5. BatchInv(g)'
      BY <3>3 DEF BatchInv
    <3>6. SeenBy(g)'
      <4>1. StrictlyInOrder => SeenUpTo(job[g].last)' /\ SeenUpTo(job[g].from)'
        BY <1>0, <3>2, <3>3 DEF SeenUpTo
      <4> QED BY <1>0, <4>1, TakeCursor
    <3> QED BY <3>4, <3>5, <3>6
  <2> QED BY <2>1, <2>2
<1> QED BY <1>3, <1>4, <1>5, <1>6 DEF Begin

(* A request that has ended. *)
LEMMA EndedClient ==
    ASSUME StoredInv, ClientsInv, NEW g \in Savers, traffic' = traffic, emitted \subseteq emitted',
           job'[g] = Idle, saving'[g] = saving[g] \/ saving'[g] = Absent, saveStep'[g] = "idle"
    PROVE  JobInv(g)' /\ BatchInv(g)' /\ SeenBy(g)'
<1>1. JobInv(g)'
  BY IdleIsOK, TakeJob
<1>2. BatchInv(g)'
  BY IdleIsOK DEF BatchInv
<1>3. SeenBy(g)'
  <2>1. job'[g].kind = "none"
    BY IdleIsOK
  <2> QED BY <2>1, TakeCursor
<1> QED BY <1>1, <1>2, <1>3

(* A request whose chunks, count and cursor stay what they are. *)
Steady(g, step) ==
    /\ job'[g].step = step
    /\ job'[g].version \in 0 .. Len(traffic)
    /\ DOMAIN job'[g] = JobFields
    /\ \A field \in {"kind", "batches", "count", "last", "from"} : job'[g][field] = job[g][field]

(* A step of a request that changes only where it is and what the file     *)
(* says keeps its invariant. *)
LEMMA SteadyClient ==
    ASSUME StoredInv, ClientsInv, NEW g \in Savers, UNCHANGED <<traffic, emitted>>,
           NEW step \in Steps, job[g].step \in {"version", "emit", "save"} \/ step \notin {"version", "emit", "save"},
           job[g].step # "idle",
           step \in {"version", "refresh", "tail"} => job[g].kind \in {"all", "resume"},
           step # "idle",
           step \in {"refresh", "tail"} => job[g].count = 0,
           step = "save" => job[g].batches # << >> /\ Head(job[g].batches) = << >>,
           Steady(g, step),
           saving'[g] = saving[g] \/ saving'[g] = Absent,
           step = "save" <=> saveStep'[g] # "idle"
    PROVE  JobInv(g)' /\ BatchInv(g)' /\ SeenBy(g)'
<1>0. DOMAIN job = Savers /\ JobOK(job[g]) /\ DOMAIN job[g] = JobFields
  BY DEF ClientsInv, JobInv, JobOK
<1>1. /\ job'[g].step = step /\ job'[g].version \in 0 .. Len(traffic) /\ DOMAIN job'[g] = JobFields
      /\ job'[g].kind = job[g].kind /\ job'[g].batches = job[g].batches /\ job'[g].count = job[g].count
      /\ job'[g].last = job[g].last /\ job'[g].from = job[g].from
  BY <1>0 DEF Steady
<1>2. JobInv(g)'
  <2>1. JobOK(job'[g])
    BY <1>0, <1>1 DEF JobOK
  <2> QED BY <1>1, <2>1, TakeJob
<1>3. BatchInv(g)'
  <2> SUFFICES ASSUME step \in {"version", "emit", "save"} PROVE BatchInv(g)'
    BY <1>1 DEF BatchInv
  <2>1. BatchesOK(job[g].batches, job[g].count, SavesInOrder(job[g]))
    BY DEF ClientsInv, BatchInv
  <2>2. PICK b, count, inOrder : b = job[g].batches /\ count = job[g].count /\ inOrder = SavesInOrder(job[g])
    OBVIOUS
  <2>3. BatchesOK(b, count, inOrder)'
    BY <2>1, <2>2, BatchesStay
  <2>4. SavesInOrder(job[g])' => inOrder
    BY <1>1, <2>2 DEF SavesInOrder, StrictlyInOrder
  <2> QED BY <1>1, <2>2, <2>3, <2>4, TakeBatches
<1>4. SeenBy(g)'
  <2>1. StrictlyInOrder /\ job[g].kind \in {"all", "resume"} => SeenUpTo(job[g].last) /\ SeenUpTo(job[g].from)
    BY DEF ClientsInv, SeenBy
  <2>2. StrictlyInOrder /\ job'[g].kind \in {"all", "resume"} => SeenUpTo(job[g].last)' /\ SeenUpTo(job[g].from)'
    BY <1>1, <2>1 DEF SeenUpTo
  <2> QED BY <2>2, TakeCursor
<1> QED BY <1>2, <1>3, <1>4

(* Every step of a request keeps the invariant of its client. *)
LEMMA ProceedClient ==
    ASSUME StoredInv, FilesInv, FilesSeen, ClientsInv, NEW g \in Savers, Proceed(g)
    PROVE  JobInv(g)' /\ BatchInv(g)' /\ SeenBy(g)'
<1>0. /\ DOMAIN job = Savers /\ DOMAIN saving = Savers /\ DOMAIN saveStep = Savers
      /\ JobOK(job[g]) /\ DOMAIN job[g] = JobFields
      /\ job[g].step = "save" <=> saveStep[g] # "idle"
      /\ << >> \in LastIDs /\ Len(traffic) \in Nat
      /\ version \in 0 .. Len(traffic) /\ job[g].version \in 0 .. Len(traffic)
      /\ job[g].count \in Nat
  BY IdleIsOK, TrafficFacts DEF ClientsInv, FilesInv, JobInv, JobOK, StoredInv
<1>1. /\ UNCHANGED traffic /\ emitted \subseteq emitted'
  BY ClientFrame
<1>2. CASE ReadVersion(g)
  <2>1. /\ Steady(g, "emit")
        /\ UNCHANGED <<emitted, saving, saveStep>> /\ job[g].step = "version"
    BY <1>0, <1>2 DEF ReadVersion, cursorVars, ghostVars, Steady, JobFields
  <2> QED BY <1>0, <1>1, <2>1, SteadyClient DEF Steps
<1>3. CASE Refresh(g)
  <2>1. /\ Steady(g, "tail")
        /\ UNCHANGED <<emitted, saving, saveStep>> /\ job[g].step = "refresh"
    BY <1>0, <1>3 DEF Refresh, cursorVars, ghostVars, Steady, JobFields
  <2> QED BY <1>0, <1>1, <2>1, SteadyClient DEF Steps, JobOK
<1>4. CASE ReadTail(g)
  <2>1. PICK list \in Orders :
           job' = [job EXCEPT
                    ![g].batches = << SubSeq(list, IndexAfter(list, job[g].from) + 1, Len(list)) >>,
                    ![g].step = "emit"]
    BY <1>4 DEF ReadTail
  <2>2. PICK from : from = job[g].from
    OBVIOUS
  <2>3. PICK b : b = << SubSeq(list, IndexAfter(list, from) + 1, Len(list)) >>
    OBVIOUS
  <2>4. UNCHANGED <<emitted, saving, saveStep>> /\ job[g].step = "tail"
    BY <1>4 DEF ReadTail, cursorVars, ghostVars
  <2>5. /\ job'[g].step = "emit" /\ DOMAIN job'[g] = JobFields /\ job'[g].batches = b
        /\ job'[g].kind = job[g].kind /\ job'[g].count = job[g].count /\ job'[g].version = job[g].version
        /\ job'[g].last = job[g].last /\ job'[g].from = job[g].from
    BY <1>0, <2>1, <2>2, <2>3 DEF JobFields
  <2>6. /\ job[g].count = 0 /\ job[g].kind \in {"all", "resume"}
    BY <1>0, <2>4 DEF JobOK
  <2>7. StrictlyInOrder => SeenUpTo(job[g].last) /\ SeenUpTo(job[g].from)
    BY <2>6 DEF ClientsInv, SeenBy
  <2>8. JobInv(g)'
    <3>1. JobOK(job'[g])
      BY <1>0, <2>5 DEF JobOK, Steps
    <3> QED BY <1>0, <1>1, <2>4, <2>5, <3>1, TakeJob
  <2>9. BatchInv(g)'
    <3>1. BatchesOK(b, 0, StrictlyInOrder)
      BY <2>2, <2>3, <2>7, ResumedBatches
    <3>2. PICK inOrder : inOrder = StrictlyInOrder
      OBVIOUS
    <3>3. BatchesOK(b, 0, inOrder)'
      BY <1>1, <3>1, <3>2, BatchesStay
    <3>4. SavesInOrder(job[g])' => inOrder
      BY <1>1, <3>2 DEF SavesInOrder, StrictlyInOrder
    <3> QED BY <2>5, <2>6, <3>3, <3>4, TakeBatches
  <2>10. SeenBy(g)'
    <3>1. StrictlyInOrder => SeenUpTo(job[g].last)' /\ SeenUpTo(job[g].from)'
      BY <1>1, <2>4, <2>5, <2>7 DEF SeenUpTo
    <3> QED BY <1>1, <2>4, <3>1, TakeCursor
  <2> QED BY <2>8, <2>9, <2>10
<1>5. CASE Emit(g)
  <2>1. PICK b, count, inOrder : b = job[g].batches /\ count = job[g].count /\ inOrder = SavesInOrder(job[g])
    OBVIOUS
  <2>2. PICK pkt : pkt = Head(b)[1]
    OBVIOUS
  <2>3. /\ job[g].step = "emit" /\ b # << >> /\ Head(b) # << >> /\ emitted' = emitted \cup {pkt.id}
        /\ job' = [job EXCEPT ![g].batches[1] = Tail(@), ![g].last = << pkt.id >>,
                              ![g].count = @ + 1, ![g].sent = @ \cup {pkt.id}]
        /\ UNCHANGED <<saving, saveStep>>
    BY <1>5, <2>1, <2>2 DEF Emit, Pending, cursorVars
  <2>4. /\ job'[g].step = "emit" /\ DOMAIN job'[g] = JobFields
        /\ job'[g].kind = job[g].kind /\ job'[g].count = count + 1 /\ job'[g].version = job[g].version
        /\ job'[g].last = << pkt.id >> /\ job'[g].from = job[g].from
        /\ job'[g].batches = [b EXCEPT ![1] = Tail(@)]
    BY <1>0, <2>1, <2>3 DEF JobFields
  <2>5. BatchesOK(b, count, inOrder)
    BY <2>1, <2>3 DEF ClientsInv, BatchInv
  <2>6. /\ BatchesOK([b EXCEPT ![1] = Tail(@)], count + 1, inOrder)'
        /\ count + 1 <= Len(traffic)
        /\ \E i \in 1 .. Len(traffic) :
              /\ pkt = traffic[i]
              /\ inOrder => \A j \in 1 .. i : traffic[j].id \in emitted'
    BY <1>0, <1>1, <2>1, <2>2, <2>3, <2>5, EmitBatches
  <2>7. JobInv(g)'
    <3>1. << pkt.id >> \in LastIDs
      BY <2>6, TrafficFacts DEF LastIDs
    <3>2. JobOK(job'[g])
      BY <1>0, <2>1, <2>4, <2>6, <3>1 DEF JobOK, Steps
    <3> QED BY <1>0, <1>1, <2>3, <2>4, <3>2, TakeJob
  <2>8. BatchInv(g)'
    <3>1. SavesInOrder(job[g])' => inOrder
      BY <1>1, <2>1, <2>4 DEF SavesInOrder, StrictlyInOrder
    <3>2. PICK t, n : t = [b EXCEPT ![1] = Tail(@)] /\ n = count + 1
      OBVIOUS
    <3>3. BatchesOK(t, n, inOrder)'
      BY <2>6, <3>2
    <3> QED BY <2>4, <3>1, <3>2, <3>3, TakeBatches
  <2>9. SeenBy(g)'
    <3> SUFFICES ASSUME StrictlyInOrder, job'[g].kind \in {"all", "resume"}
                 PROVE  SeenUpTo(job[g].last)' /\ SeenUpTo(job[g].from)'
      BY <1>1, <2>3, TakeCursor
    <3>1. SeenUpTo(job[g].last)'
      BY <1>1, <2>1, <2>4, <2>6 DEF SavesInOrder, SeenUpTo
    <3>2. SeenUpTo(job[g].from)
      BY <2>4 DEF ClientsInv, SeenBy
    <3>3. SeenUpTo(job[g].from)'
      BY <1>1, <2>4, <3>2 DEF SeenUpTo
    <3> QED BY <3>1, <3>3
  <2> QED BY <2>7, <2>8, <2>9
<1>6. CASE OutputFails(g)
  <2>1. job'[g] = Idle /\ UNCHANGED <<saving, saveStep>> /\ saveStep[g] = "idle"
    BY <1>0, <1>6 DEF OutputFails, Pending, cursorVars
  <2> QED BY <1>1, <2>1, EndedClient
<1>7. CASE EndBatch(g)
  <2>1. /\ job[g].step = "emit" /\ job[g].batches # << >> /\ Head(job[g].batches) = << >>
        /\ UNCHANGED emitted
    BY <1>7 DEF EndBatch, Pending, ghostVars
  <2>2. CASE job[g].kind \in {"batch", "stream"} /\ job' = [job EXCEPT ![g].batches = Tail(@)]
             /\ UNCHANGED cursorVars
    <3>1. PICK b, count, inOrder : b = job[g].batches /\ count = job[g].count /\ inOrder = SavesInOrder(job[g])
      OBVIOUS
    <3>2. /\ job'[g].step = "emit" /\ DOMAIN job'[g] = JobFields
          /\ job'[g].kind = job[g].kind /\ job'[g].count = count /\ job'[g].version = job[g].version
          /\ job'[g].last = job[g].last /\ job'[g].from = job[g].from /\ job'[g].batches = Tail(b)
      BY <1>0, <2>1, <2>2, <3>1 DEF JobFields
    <3>3. BatchesOK(Tail(b), count, inOrder)
      <4>1. BatchesOK(b, count, inOrder)
        BY <2>1, <3>1 DEF ClientsInv, BatchInv
      <4> QED BY <1>0, <2>1, <3>1, <4>1, TailBatches
    <3>4. PICK t : t = Tail(b)
      OBVIOUS
    <3>5. BatchesOK(t, count, inOrder)'
      BY <1>1, <3>3, <3>4, BatchesStay
    <3>6. BatchInv(g)'
      <4>1. SavesInOrder(job[g])' => inOrder
        BY <1>1, <3>1, <3>2 DEF SavesInOrder, StrictlyInOrder
      <4> QED BY <3>2, <3>4, <3>5, <4>1, TakeBatches
    <3>7. JobInv(g)'
      <4>1. JobOK(job'[g])
        BY <1>0, <3>1, <3>2 DEF JobOK, Steps
      <4> QED BY <1>0, <1>1, <2>1, <2>2, <3>2, <4>1, TakeJob DEF cursorVars
    <3>8. SeenBy(g)'
      BY <1>1, <2>2, <3>2, TakeCursor DEF cursorVars
    <3> QED BY <3>6, <3>7, <3>8
  <2>3. CASE /\ job[g].kind \in {"all", "resume"}
             /\ BeginSave(g, Cursor(job[g].last, IF job[g].kind = "all" THEN job[g].version ELSE version))
             /\ job' = [job EXCEPT ![g].step = "save"]
    <3> DEFINE c == Cursor(job[g].last, IF job[g].kind = "all" THEN job[g].version ELSE version)
    <3>1. saving'[g] = c /\ saveStep'[g] = "open"
      BY <1>0, <2>3 DEF BeginSave
    <3>2. /\ job'[g].step = "save" /\ DOMAIN job'[g] = JobFields
          /\ job'[g].kind = job[g].kind /\ job'[g].count = job[g].count /\ job'[g].version = job[g].version
          /\ job'[g].last = job[g].last /\ job'[g].from = job[g].from /\ job'[g].batches = job[g].batches
      BY <1>0, <2>3 DEF JobFields
    <3>3. JobInv(g)'
      <4>1. JobOK(job'[g])
        BY <1>0, <2>1, <3>2 DEF JobOK, Steps
      <4> QED BY <1>1, <3>1, <3>2, <4>1, TakeJob
    <3>4. BatchInv(g)'
      <4>1. PICK b, count, inOrder : b = job[g].batches /\ count = job[g].count /\ inOrder = SavesInOrder(job[g])
        OBVIOUS
      <4>2. BatchesOK(b, count, inOrder)
        BY <2>1, <4>1 DEF ClientsInv, BatchInv
      <4>3. BatchesOK(b, count, inOrder)'
        BY <1>1, <4>2, BatchesStay
      <4>4. SavesInOrder(job[g])' => inOrder
        BY <1>1, <3>2, <4>1 DEF SavesInOrder, StrictlyInOrder
      <4> QED BY <2>1, <3>2, <4>1, <4>3, <4>4, TakeBatches
    <3>5. SeenBy(g)'
      <4> SUFFICES ASSUME StrictlyInOrder' PROVE SeenBy(g)'
        BY DEF SeenBy
      <4>1. StrictlyInOrder /\ SeenUpTo(job[g].last) /\ SeenUpTo(job[g].from)
        BY <1>1, <2>3, SeenStays DEF ClientsInv, SeenBy
      <4>2. c[2] = job[g].last
        BY DEF Cursor
      <4>3. SeenUpTo(saving[g][2])' /\ SeenUpTo(job[g].last)' /\ SeenUpTo(job[g].from)'
        BY <1>1, <3>1, <3>2, <4>1, <4>2 DEF SeenUpTo
      <4> QED BY <4>3 DEF SeenBy
    <3> QED BY <3>3, <3>4, <3>5
  <2> QED BY <1>7, <2>2, <2>3 DEF EndBatch
<1>8. CASE Save(g)
  <2>1. job[g].step = "save" /\ UNCHANGED emitted
    BY <1>8 DEF Save
  <2>2. CASE (OpenTemporary(g) \/ WriteTemporary(g)) /\ UNCHANGED <<job, behind>>
    <3>1. saving' = saving /\ saveStep'[g] # "idle"
      BY <1>0, <2>2 DEF OpenTemporary, WriteTemporary
    <3>2. /\ job'[g] = job[g] /\ job[g].batches # << >> /\ Head(job[g].batches) = << >>
          /\ Steady(g, "save")
      BY <1>0, <2>1, <2>2 DEF ClientsInv, BatchInv, Steady
    <3> QED BY <1>0, <1>1, <2>1, <3>1, <3>2, SteadyClient DEF Steps
  <2>3. CASE Rename(g) /\ job' = [job EXCEPT ![g].batches = Tail(@), ![g].step = "emit"]
    <3>0. saving'[g] = Absent /\ saveStep'[g] = "idle"
      BY <1>0, <2>3 DEF Rename, EndSave
    <3>1. PICK b, count, inOrder : b = job[g].batches /\ count = job[g].count /\ inOrder = SavesInOrder(job[g])
      OBVIOUS
    <3>2. /\ job'[g].step = "emit" /\ DOMAIN job'[g] = JobFields
          /\ job'[g].kind = job[g].kind /\ job'[g].count = count /\ job'[g].version = job[g].version
          /\ job'[g].last = job[g].last /\ job'[g].from = job[g].from /\ job'[g].batches = Tail(b)
      BY <1>0, <2>1, <2>3, <3>1 DEF JobFields
    <3>3. BatchesOK(Tail(b), count, inOrder)
      <4>1. BatchesOK(b, count, inOrder) /\ b # << >> /\ Head(b) = << >>
        BY <2>1, <3>1 DEF ClientsInv, BatchInv
      <4> QED BY <1>0, <3>1, <4>1, TailBatches
    <3>4. PICK t : t = Tail(b)
      OBVIOUS
    <3>5. BatchesOK(t, count, inOrder)'
      BY <1>1, <3>3, <3>4, BatchesStay
    <3>6. BatchInv(g)'
      <4>1. SavesInOrder(job[g])' => inOrder
        BY <1>1, <3>1, <3>2 DEF SavesInOrder, StrictlyInOrder
      <4> QED BY <3>2, <3>4, <3>5, <4>1, TakeBatches
    <3>7. JobInv(g)'
      <4>1. JobOK(job'[g])
        BY <1>0, <3>1, <3>2 DEF JobOK, Steps
      <4> QED BY <1>0, <1>1, <3>0, <3>2, <4>1, TakeJob
    <3>8. SeenBy(g)'
      <4>1. StrictlyInOrder /\ job[g].kind \in {"all", "resume"} => SeenUpTo(job[g].last) /\ SeenUpTo(job[g].from)
        BY DEF ClientsInv, SeenBy
      <4>2. StrictlyInOrder /\ job'[g].kind \in {"all", "resume"} => SeenUpTo(job[g].last)' /\ SeenUpTo(job[g].from)'
        BY <1>1, <3>2, <4>1 DEF SeenUpTo
      <4> QED BY <1>1, <3>0, <4>2, TakeCursor
    <3> QED BY <3>6, <3>7, <3>8
  <2> QED BY <1>8, <2>2, <2>3 DEF Save
<1>9. CASE SaveError(g)
  <2>1. job'[g] = Idle /\ saving'[g] = Absent /\ saveStep'[g] = "idle"
    BY <1>0, <1>9 DEF SaveError, SaveFails, EndSave
  <2> QED BY <1>1, <2>1, EndedClient
<1>10. CASE FinishInner(g)
  <2>1. /\ Steady(g, "complete")
        /\ UNCHANGED <<emitted, saving, saveStep>> /\ job[g].step = "emit"
    BY <1>0, <1>10 DEF FinishInner, Finished, cursorVars, ghostVars, Steady, JobFields
  <2> QED BY <1>0, <1>1, <2>1, SteadyClient DEF Steps
<1>11. CASE Finish(g)
  <2>1. job'[g] = Idle /\ UNCHANGED <<saving, saveStep>> /\ saveStep[g] = "idle"
    BY <1>0, <1>11 DEF Finish, Finished, cursorVars
  <2> QED BY <1>1, <2>1, EndedClient
<1> QED BY <1>2, <1>3, <1>4, <1>5, <1>6, <1>7, <1>8, <1>9, <1>10, <1>11 DEF Proceed

(* Every step keeps the invariants of all clients. *)
LEMMA ClientsStep ==
    ASSUME ReplayInv, [ReplayNext]_replayVars
    PROVE  ClientsInv'
<1> USE DEF ReplayInv
<1>1. ASSUME NEW g \in Savers, Begin(g) \/ Proceed(g) PROVE ClientsInv'
  <2>1. JobInv(g)' /\ BatchInv(g)' /\ SeenBy(g)'
    BY <1>1, BeginClient, ProceedClient
  <2>2. ASSUME NEW h \in Savers \ {g} PROVE JobInv(h)' /\ BatchInv(h)' /\ SeenBy(h)'
    <3>1. /\ job'[h] = job[h] /\ saveStep'[h] = saveStep[h] /\ saving'[h] = saving[h]
          /\ traffic' = traffic /\ emitted \subseteq emitted'
      BY <1>1, ClientFrame
    <3> QED BY <3>1, OtherClients
  <2>3. DOMAIN job' = Savers
    BY <1>1, ClientFrame
  <2> QED BY <2>1, <2>2, <2>3 DEF ClientsInv
<1>2. CASE Arrive \/ UNCHANGED replayVars
  <2>1. UNCHANGED <<job, saveStep, saving, traffic, emitted>>
    BY <1>2 DEF Arrive, replayVars, cursorVars, serviceVars, ghostVars
  <2>2. ASSUME NEW h \in Savers PROVE JobInv(h)' /\ BatchInv(h)' /\ SeenBy(h)'
    BY <2>1, OtherClients
  <2> QED BY <2>1, <2>2 DEF ClientsInv
<1>3. CASE Crash
  <2>1. /\ job' = [g \in Savers |-> Idle] /\ saving' = [g \in Savers |-> Absent]
        /\ saveStep' = [g \in Savers |-> "idle"] /\ UNCHANGED <<traffic, emitted>>
    BY <1>3 DEF Crash, CursorCrash
  <2>2. ASSUME NEW h \in Savers PROVE JobInv(h)' /\ BatchInv(h)' /\ SeenBy(h)'
    BY <2>1, EndedClient
  <2> QED BY <2>1, <2>2 DEF ClientsInv
<1> QED BY <1>1, <1>2, <1>3 DEF ReplayNext

-----------------------------------------------------------------------------
(* Tasks, outputs and the order of what is put out                         *)

(* Marking a task that is known keeps the tasks in order. *)
LEMMA TasksStay ==
    ASSUME NEW known, TasksOK(known), NEW id
    PROVE  /\ TasksOK(Begun(known, id))
           /\ \A count : \A state \in {"running", "resumed", "complete"} :
                 TasksOK(Marked(known, id, state, count))
<1>1. TasksOK(Begun(known, id))
  BY DEF TasksOK, Begun
<1>2. ASSUME NEW state \in {"running", "resumed", "complete"}, NEW count
      PROVE  TasksOK(Marked(known, id, state, count))
  BY <1>2 DEF TasksOK, Marked
<1> QED BY <1>1, <1>2

(* Every step keeps the tasks in order. *)
LEMMA TasksStep ==
    ASSUME ReplayInv, [ReplayNext]_replayVars
    PROVE  TasksInv'
<1>0. TasksOK(tasks)
  BY DEF ReplayInv, TasksInv
<1>1. ASSUME NEW g \in Savers, Begin(g) PROVE TasksInv'
  <2>1. PICK id : tasks' = Begun(tasks, id) \/ tasks' = Begun(Begun(tasks, id), <<"replay-batch">>)
    BY <1>1 DEF Begin, BeginAll, BeginBatch, BeginStream, BeginResume
  <2>2. PICK known : known = tasks
    OBVIOUS
  <2>3. TasksOK(tasks')
    BY <1>0, <2>1, <2>2, TasksStay
  <2> QED BY <2>3 DEF TasksInv, TasksOK
<1>2. ASSUME NEW g \in Savers, Proceed(g) PROVE TasksInv'
  <2>1. \/ tasks' = tasks
        \/ \E id, count : \E state \in {"running", "resumed", "complete"} : tasks' = Marked(tasks, id, state, count)
    <3>1. CASE FinishInner(g) \/ Finish(g)
      BY <3>1 DEF FinishInner, Finish
    <3>2. CASE ~ (FinishInner(g) \/ Finish(g))
      BY <1>2, <3>2 DEF Proceed, ReadVersion, Refresh, ReadTail, Emit, OutputFails, EndBatch, Save, SaveError
    <3> QED BY <3>1, <3>2
  <2>2. PICK known : known = tasks
    OBVIOUS
  <2>3. TasksOK(tasks')
    BY <1>0, <2>1, <2>2, TasksStay
  <2> QED BY <2>3 DEF TasksInv, TasksOK
<1>3. CASE Arrive \/ Crash \/ UNCHANGED replayVars
  BY <1>0, <1>3 DEF Arrive, Crash, replayVars, serviceVars, TasksInv, TasksOK
<1> QED BY <1>1, <1>2, <1>3 DEF ReplayNext

(* The cursor file of a client that is alone.                              *)
LEMMA AloneSave ==
    ASSUME ReplayInv, NEW g \in Savers, Begin(g) \/ Proceed(g), ~ overlapped'
    PROVE  TemporaryIsOwn' /\ Loadable'
<1> USE DEF ReplayInv
<1>0. /\ ~ overlapped /\ TemporaryIsOwn /\ Loadable
      /\ \A h \in Savers \ {g} : saveStep[h] = "idle" /\ saveStep'[h] = "idle"
      /\ DOMAIN files = {"tmp", "main"} /\ DOMAIN saving = Savers /\ DOMAIN saveStep = Savers
      /\ DOMAIN handle = Savers
  BY OneAtWork, ClientFrame DEF AloneInv, ClientsInv, JobInv, FilesInv
<1>1. CASE UNCHANGED cursorVars
  BY <1>0, <1>1 DEF cursorVars, TemporaryIsOwn, Loadable
<1>2. CASE EndBatch(g)
  <2> SUFFICES ASSUME BeginSave(g, Cursor(job[g].last, IF job[g].kind = "all" THEN job[g].version ELSE version))
               PROVE  TemporaryIsOwn' /\ Loadable'
    BY <1>1, <1>2 DEF EndBatch
  <2>1. Cursor(job[g].last, IF job[g].kind = "all" THEN job[g].version ELSE version) \in Cursors
    BY CursorFacts, TrafficFacts DEF ClientsInv, JobInv, JobOK, StoredInv
  <2> QED BY <1>0, <2>1 DEF BeginSave, TemporaryIsOwn, Loadable
<1>3. CASE Save(g)
  <2>1. CASE OpenTemporary(g)
    BY <1>0, <2>1 DEF OpenTemporary, TemporaryIsOwn, Loadable
  <2>2. CASE WriteTemporary(g)
    <3>1. handle[g] = "tmp" /\ files.tmp = Empty /\ saving[g] \in Cursors
      BY <1>0, <2>2 DEF WriteTemporary, TemporaryIsOwn
    <3>2. files' = [files EXCEPT !.tmp = saving[g]]
      BY <2>2, <3>1 DEF WriteTemporary, Outcomes
    <3> QED BY <1>0, <2>2, <3>1, <3>2 DEF WriteTemporary, TemporaryIsOwn, Loadable
  <2>3. CASE Rename(g)
    <3>1. files.tmp \in Cursors
      BY <1>0, <2>3 DEF Rename, TemporaryIsOwn
    <3> QED BY <1>0, <2>3, <3>1 DEF Rename, EndSave, TemporaryIsOwn, Loadable
  <2> QED BY <1>3, <2>1, <2>2, <2>3 DEF Save
<1>4. CASE SaveError(g)
  <2>1. SaveFails(g)
    BY <1>4 DEF SaveError
  <2>2. files'.main = files.main
    BY <1>0, <2>1 DEF SaveFails, TemporaryIsOwn
  <2> QED BY <1>0, <2>1, <2>2 DEF SaveFails, EndSave, TemporaryIsOwn, Loadable
<1>5. EndBatch(g) \/ Save(g) \/ SaveError(g) \/ UNCHANGED cursorVars
  BY DEF Begin, BeginAll, BeginBatch, BeginStream, BeginResume, Enter, Proceed, ReadVersion, Refresh,
         ReadTail, Emit, OutputFails, FinishInner, Finish
<1> QED BY <1>1, <1>2, <1>3, <1>4, <1>5

(* What is put out is a packet. *)
LEMMA EmitsOffered ==
    ASSUME StoredInv, ClientsInv, NEW g \in Savers, Emit(g)
    PROVE  /\ job[g].batches \in Seq(Seq(Offered)) /\ job[g].batches # << >>
           /\ Head(job[g].batches) # << >>
           /\ Head(job[g].batches)[1] \in Offered
<1>1. job[g].step = "emit" /\ job[g].batches # << >> /\ Head(job[g].batches) # << >>
  BY DEF Emit, Pending
<1>2. PICK b : b = job[g].batches
  OBVIOUS
<1>3. b \in Seq(Seq(Offered))
  BY <1>1, <1>2 DEF ClientsInv, BatchInv, BatchesOK, Remaining, Cut
<1>4. Head(b) \in Seq(Offered)
  BY <1>1, <1>2, <1>3
<1>5. Head(b)[1] \in Offered
  BY <1>1, <1>2, <1>4
<1> QED BY <1>1, <1>2, <1>3, <1>5

(* Every write to the outputs. *)
LEMMA Writes ==
    ASSUME ReplayInv, NEW g \in Savers, Begin(g) \/ Proceed(g)
    PROVE  /\ outputs' \in Seq(Offered) \cup {Torn}
           /\ g \in solo' =>
                /\ outputs' = Torn => outputs = Torn
                /\ BeginBatch(g) \/ BeginStream(g) \/ ReadVersion(g) \/ ReadTail(g) => outputs' = << >>
                /\ Emit(g) => /\ outputs # Torn
                              /\ outputs' = Append(outputs, Head(job[g].batches)[1])
                /\ \/ BeginBatch(g) \/ BeginStream(g) \/ ReadVersion(g) \/ ReadTail(g) \/ Emit(g)
                   \/ outputs' = outputs
<1> USE DEF ReplayInv
<1>0. /\ outputs \in Seq(Offered) \cup {Torn} /\ Torn \notin Seq(Offered) /\ << >> \in Seq(Offered)
      /\ g \in solo' => Alone(g)
      /\ g \in solo' /\ Emit(g) => outputs # Torn
  <2>1. Emit(g) => Proceed(g) /\ job[g].step = "emit"
    BY DEF Emit, Pending, Proceed
  <2> QED BY <2>1, SoloAtWork, ReplayAssumption DEF AloneInv
<1>1. CASE BeginBatch(g) \/ BeginStream(g) \/ ReadVersion(g) \/ ReadTail(g)
  <2>1. Write(g, << >>)
    BY <1>1 DEF BeginBatch, BeginStream, ReadVersion, ReadTail
  <2>2. /\ outputs' \in Seq(Offered) \cup {Torn}
        /\ g \in solo' => outputs' = << >>
    BY <1>0, <2>1 DEF Write
  <2>3. ~ Emit(g)
    BY <1>1 DEF BeginBatch, BeginStream, Enter, ReadVersion, ReadTail, Emit, Pending
  <2> QED BY <1>0, <1>1, <2>2, <2>3
<1>2. CASE Emit(g)
  <2> DEFINE pkt == Head(job[g].batches)[1]
  <2>1. pkt \in Offered
    BY <1>2, EmitsOffered
  <2>2. Write(g, IF outputs = Torn THEN Torn ELSE Append(outputs, pkt))
    BY <1>2 DEF Emit
  <2> HIDE DEF pkt
  <2>3. outputs # Torn => Append(outputs, pkt) \in Seq(Offered)
    BY <1>0, <2>1
  <2>4. /\ outputs' \in Seq(Offered) \cup {Torn}
        /\ g \in solo' => outputs' = Append(outputs, pkt)
    BY <1>0, <1>2, <2>2, <2>3 DEF Write
  <2>5. ~ (BeginBatch(g) \/ BeginStream(g) \/ ReadVersion(g) \/ ReadTail(g))
    BY <1>2 DEF BeginBatch, BeginStream, Enter, ReadVersion, ReadTail, Emit, Pending
  <2> QED BY <1>0, <1>2, <2>3, <2>4, <2>5 DEF pkt
<1>3. CASE ~ (BeginBatch(g) \/ BeginStream(g) \/ ReadVersion(g) \/ ReadTail(g) \/ Emit(g))
  <2>1. outputs' = outputs
    BY <1>3 DEF Begin, BeginAll, BeginResume, Proceed, Refresh, OutputFails, EndBatch, Save, SaveError,
                FinishInner, Finish
  <2> QED BY <1>0, <1>3, <2>1
<1> QED BY <1>1, <1>2, <1>3

(* Every step keeps it that requests which never met share nothing. *)
LEMMA AloneStep ==
    ASSUME ReplayInv, [ReplayNext]_replayVars
    PROVE  AloneInv'
<1>0. /\ outputs \in Seq(Offered) \cup {Torn} /\ overlapped \in BOOLEAN
      /\ Torn \notin Seq(Offered) /\ << >> \in Seq(Offered)
      /\ StoredInv /\ FilesInv /\ ClientsInv /\ AloneInv
  BY ReplayAssumption DEF ReplayInv, AloneInv
<1>1. ASSUME NEW g \in Savers, Begin(g) \/ Proceed(g) PROVE AloneInv'
  <2>1. /\ outputs' \in Seq(Offered) \cup {Torn}
        /\ ~ overlapped' => outputs' # Torn
    BY <1>0, <1>1, Writes, OneAtWork DEF AloneInv
  <2>2. overlapped' \in BOOLEAN
    <3>1. CASE Begin(g)
      BY <3>1 DEF Begin, BeginAll, BeginBatch, BeginStream, BeginResume, Enter
    <3>2. CASE Proceed(g)
      BY <1>0, <3>2 DEF Proceed, ReadVersion, Refresh, ReadTail, Emit, OutputFails, EndBatch, Save,
                        SaveError, FinishInner, Finish, ghostVars
    <3> QED BY <1>1, <3>1, <3>2
  <2>3. ASSUME ~ overlapped' PROVE \A h \in Savers : job'[h].step # "idle" => h \in solo'
    BY <1>0, <1>1, <2>3, OneAtWork, ClientFrame
  <2>5. ASSUME NEW h \in Savers, h \in solo', job'[h].step # "idle"
        PROVE  h = g /\ \A k \in Savers \ {h} : job'[k].step = "idle"
    BY <1>0, <1>1, <2>5, SoloAtWork, ClientFrame
  <2>6. ASSUME g \in solo', job'[g].step \in {"emit", "save", "complete"}
        PROVE  outputs' # Torn
    <3>1. CASE BeginBatch(g) \/ BeginStream(g) \/ ReadVersion(g) \/ ReadTail(g)
      BY <1>0, <1>1, <2>6, <3>1, Writes
    <3>2. CASE job[g].step \in {"emit", "save", "complete"} /\ Proceed(g)
      BY <1>0, <1>1, <2>6, <3>2, Writes, SoloAtWork DEF AloneInv
    <3>3. CASE BeginAll(g) \/ BeginResume(g) \/ Refresh(g)
      <4>1. job'[g].step \in {"version", "refresh", "idle", "tail"}
        <5>1. CASE BeginAll(g)
          BY <1>0, <5>1 DEF BeginAll, Idle, ClientsInv
        <5>2. CASE BeginResume(g)
          <6>1. job[g].step = "idle"
            BY <5>2 DEF BeginResume, Enter
          <6>2. job' = job \/ job'[g].step = "refresh"
            BY <1>0, <5>2 DEF BeginResume, Idle, ClientsInv
          <6> QED BY <6>1, <6>2
        <5>3. CASE Refresh(g)
          BY <1>0, <5>3 DEF Refresh, ClientsInv, JobInv, JobOK, JobFields
        <5> QED BY <3>3, <5>1, <5>2, <5>3
      <4> QED BY <2>6, <4>1
    <3> QED BY <1>1, <3>1, <3>2, <3>3
         DEF Begin, Proceed, Emit, OutputFails, EndBatch, Save, SaveError, FinishInner, Finish,
             Finished, Pending
  <2>4. ASSUME ~ overlapped' PROVE TemporaryIsOwn' /\ Loadable'
    BY <1>1, <2>4, AloneSave
  <2> QED BY <2>1, <2>2, <2>3, <2>4, <2>5, <2>6 DEF AloneInv
<1>2. CASE Arrive \/ UNCHANGED replayVars
  <2>1. UNCHANGED <<outputs, overlapped, solo, job, cursorVars>>
    BY <1>2 DEF Arrive, replayVars, serviceVars, ghostVars
  <2> QED BY <1>0, <2>1 DEF AloneInv, TemporaryIsOwn, Loadable, cursorVars
<1>3. CASE Crash
  <2>1. /\ outputs' = << >> /\ overlapped' = overlapped /\ files' = files
        /\ \A g \in Savers : job'[g].step = "idle" /\ saveStep'[g] = "idle"
    BY <1>3, IdleIsOK, <1>0 DEF Crash, CursorCrash
  <2> QED BY <1>0, <2>1 DEF AloneInv, TemporaryIsOwn, Loadable
<1> QED BY <1>1, <1>2, <1>3 DEF ReplayNext

(* Nothing is before everything. *)
LEMMA EmptyInTime == InTimeOrder(<< >>) /\ \A b : InTimeBefore(<< >>, b)
<1>1. DOMAIN << >> = {} /\ 1 .. Len(<< >>) = {}
  OBVIOUS
<1> QED BY <1>1 DEF InTimeOrder, InTimeBefore

(* What a request begins with is in time order. *)
LEMMA TimeOfBegin ==
    ASSUME ReplayInv, NEW g \in Savers, Begin(g), g \in solo'
    PROVE  TimeInv(g)'
<1> USE DEF ReplayInv
<1>0. DOMAIN job = Savers /\ traffic' = traffic /\ job[g].step = "idle"
  BY ClientFrame DEF ClientsInv, Begin, BeginAll, BeginBatch, BeginStream, BeginResume, Enter
<1> DEFINE Started(kind, step, list) ==
              /\ job'[g].kind = kind /\ job'[g].step = step /\ job'[g].batches = Batches(list)
<1>1. ASSUME NEW list \in Seq(Offered), NEW kind, NEW step \in {"version", "emit"},
             Len(list) <= Len(traffic),
             \A i \in 1 .. Len(list) : \E j \in 1 .. Len(traffic) : list[i] = traffic[j],
             kind = "stream" => (InTimeOrder(traffic) => InTimeOrder(list)),
             kind # "stream" => InTimeOrder(list),
             Started(kind, step, list),
             step = "emit" => outputs' = << >>
      PROVE  TimeInv(g)'
  <2> SUFFICES ASSUME kind = "stream" => InTimeOrder(traffic) PROVE TimeInv(g)'
    BY <1>0, <1>1 DEF TimeInv, InTimeOrder
  <2>1. AllInTime(Batches(list))
    BY <1>1, NewBatches
  <2>2. AllInTime(job[g].batches)'
    BY <1>1, <2>1 DEF AllInTime, InTimeOrder, InTimeBefore
  <2>3. step = "emit" => InTimeOrder(outputs)' /\ \A k \in 1 .. Len(job'[g].batches) : InTimeBefore(outputs, job[g].batches[k])'
    BY <1>1, EmptyInTime DEF InTimeOrder, InTimeBefore
  <2> QED BY <1>1, <2>2, <2>3 DEF TimeInv
<1>2. CASE BeginAll(g)
  <2>1. PICK list \in Orders : Started("all", "version", list)
    BY <1>0, <1>2 DEF BeginAll, Idle
  <2> HIDE DEF Started
  <2> QED BY <1>1, <2>1, OrderedList
<1>3. CASE BeginBatch(g)
  <2>1. PICK list \in Orders : Started("batch", "emit", list)
    BY <1>0, <1>3 DEF BeginBatch, Idle
  <2>2. outputs' = << >>
    BY <1>3, Writes
  <2> HIDE DEF Started
  <2> QED BY <1>1, <2>1, <2>2, OrderedList
<1>4. CASE BeginStream(g)
  <2>1. PICK s \in Streams : Started("stream", "emit", GetStream(s))
    BY <1>0, <1>4 DEF BeginStream, ListStreams, Idle
  <2>2. outputs' = << >>
    BY <1>4, Writes
  <2>3. PICK list : list = GetStream(s)
    OBVIOUS
  <2>4. Started("stream", "emit", list)
    BY <2>1, <2>3
  <2>5. /\ list \in Seq(Offered) /\ Len(list) <= Len(traffic)
        /\ \A i \in 1 .. Len(list) : \E j \in 1 .. Len(traffic) : list[i] = traffic[j]
        /\ InTimeOrder(traffic) => InTimeOrder(list)
    BY <2>3, StreamList
  <2> HIDE DEF Started
  <2> QED BY <1>1, <2>2, <2>4, <2>5
<1>5. CASE BeginResume(g)
  <2>1. job'[g].step \in {"idle", "refresh"}
    BY <1>0, <1>5 DEF BeginResume, Idle
  <2> QED BY <2>1 DEF TimeInv
<1> QED BY <1>2, <1>3, <1>4, <1>5 DEF Begin

(* A request leaves what it put out before what it has still to put out. *)
LEMMA TimeOfProceed ==
    ASSUME ReplayInv, NEW g \in Savers, Proceed(g), g \in solo'
    PROVE  TimeInv(g)'
<1> USE DEF ReplayInv
<1> DEFINE b == job[g].batches
           inTime == job[g].kind = "stream" => InTimeOrder(traffic)
<1>0. /\ DOMAIN job = Savers /\ traffic' = traffic /\ g \in solo
      /\ DOMAIN job[g] = JobFields
      /\ inTime /\ job[g].step \in {"version", "emit", "save"} => AllInTime(b)
      /\ inTime /\ job[g].step \in {"emit", "save"} =>
            /\ \A k \in 1 .. Len(b) : InTimeBefore(outputs, b[k])
            /\ InTimeOrder(outputs)
  BY ClientFrame, SoloAtWork DEF ClientsInv, JobInv, JobOK, TimeInv
<1>1. CASE ReadVersion(g)
  <2>1. /\ job'[g].kind = job[g].kind /\ job'[g].step = "emit" /\ job'[g].batches = b
        /\ job[g].step = "version" /\ outputs' = << >>
    BY <1>0, <1>1, Writes DEF ReadVersion, JobFields
  <2> SUFFICES ASSUME inTime PROVE TimeInv(g)'
    BY <1>0, <2>1 DEF TimeInv, InTimeOrder
  <2>2. AllInTime(job[g].batches)'
    BY <1>0, <2>1 DEF AllInTime, InTimeOrder, InTimeBefore
  <2>3. InTimeOrder(outputs)' /\ \A k \in 1 .. Len(job'[g].batches) : InTimeBefore(outputs, job[g].batches[k])'
    BY <2>1, EmptyInTime DEF InTimeOrder, InTimeBefore
  <2> QED BY <2>1, <2>2, <2>3 DEF TimeInv
<1>2. CASE Refresh(g)
  <2>1. job'[g].step = "tail"
    BY <1>0, <1>2 DEF Refresh, JobFields
  <2> QED BY <2>1 DEF TimeInv
<1>3. CASE ReadTail(g)
  <2>1. PICK list \in Orders :
           job' = [job EXCEPT
                    ![g].batches = << SubSeq(list, IndexAfter(list, job[g].from) + 1, Len(list)) >>,
                    ![g].step = "emit"]
    BY <1>3 DEF ReadTail
  <2>2. PICK from, t : from = job[g].from /\ t = << SubSeq(list, IndexAfter(list, from) + 1, Len(list)) >>
    OBVIOUS
  <2>3. job[g].step = "tail" /\ job[g].kind \in {"all", "resume"}
    BY <1>3 DEF ReadTail, ClientsInv, JobInv, JobOK
  <2>4. /\ job'[g].kind = job[g].kind /\ job'[g].step = "emit" /\ job'[g].batches = t
        /\ outputs' = << >>
    BY <1>0, <1>3, <2>1, <2>2, Writes DEF JobFields
  <2>5. StrictlyInOrder => SeenUpTo(from)
    BY <2>2, <2>3 DEF ClientsInv, SeenBy
  <2>6. AllInTime(t)
    BY <2>2, <2>5, ResumedBatches
  <2>7. AllInTime(job[g].batches)'
    BY <2>4, <2>6 DEF AllInTime, InTimeOrder, InTimeBefore
  <2>8. InTimeOrder(outputs)' /\ \A k \in 1 .. Len(job'[g].batches) : InTimeBefore(outputs, job[g].batches[k])'
    BY <2>4, EmptyInTime DEF InTimeOrder, InTimeBefore
  <2> QED BY <2>4, <2>7, <2>8 DEF TimeInv
<1>4. CASE Emit(g)
  <2>1. PICK c, out : c = b /\ out = outputs
    OBVIOUS
  <2>2. /\ c \in Seq(Seq(Offered)) /\ c # << >> /\ Head(c) # << >> /\ Head(c)[1] \in Offered
    BY <1>4, <2>1, EmitsOffered
  <2>3. out \in Seq(Offered) /\ outputs' = Append(out, Head(c)[1])
    BY <1>4, <2>1, Writes DEF AloneInv
  <2>4. /\ job[g].step = "emit" /\ job'[g].kind = job[g].kind /\ job'[g].step = "emit"
        /\ job'[g].batches = [c EXCEPT ![1] = Tail(@)]
    BY <1>0, <1>4, <2>1 DEF Emit, Pending, JobFields
  <2> SUFFICES ASSUME inTime PROVE TimeInv(g)'
    BY <1>0, <2>4 DEF TimeInv, InTimeOrder
  <2>5. AllInTime(c) /\ InTimeOrder(out) /\ \A k \in 1 .. Len(c) : InTimeBefore(out, c[k])
    BY <1>0, <2>1, <2>4
  <2>6. PICK t, o : t = [c EXCEPT ![1] = Tail(@)] /\ o = Append(out, Head(c)[1])
    OBVIOUS
  <2>7. AllInTime(t) /\ InTimeOrder(o) /\ \A k \in 1 .. Len(t) : InTimeBefore(o, t[k])
    BY <2>2, <2>3, <2>5, <2>6, EmitInTime
  <2>8. job'[g].batches = t /\ outputs' = o
    BY <2>3, <2>4, <2>6
  <2>9. AllInTime(job[g].batches)'
    BY <2>7, <2>8 DEF AllInTime, InTimeOrder, InTimeBefore
  <2>10. InTimeOrder(outputs)' /\ \A k \in 1 .. Len(job'[g].batches) : InTimeBefore(outputs, job[g].batches[k])'
    BY <2>7, <2>8 DEF InTimeOrder, InTimeBefore
  <2> QED BY <2>4, <2>9, <2>10 DEF TimeInv
<1>5. CASE job'[g] = Idle
  BY <1>5, IdleIsOK DEF TimeInv
<1>6. CASE OutputFails(g) \/ SaveError(g) \/ Finish(g)
  BY <1>0, <1>5, <1>6 DEF OutputFails, SaveError, Finish
<1>7. ASSUME outputs' = outputs, job'[g].kind = job[g].kind, job[g].step \in {"emit", "save"},
             job'[g].batches = Tail(b), b # << >>, Head(b) = << >>, job'[g].step = "emit"
      PROVE  TimeInv(g)'
  <2> SUFFICES ASSUME inTime PROVE TimeInv(g)'
    BY <1>0, <1>7 DEF TimeInv, InTimeOrder
  <2>1. PICK c, t, count, inOrder : c = b /\ t = Tail(b) /\ count = job[g].count /\ inOrder = SavesInOrder(job[g])
    OBVIOUS
  <2>2. BatchesOK(c, count, inOrder) /\ count \in Nat
    BY <1>7, <2>1 DEF ClientsInv, JobInv, JobOK, BatchInv
  <2>3. /\ AllInTime(c) => AllInTime(t)
        /\ \A k \in 1 .. Len(t) : t[k] = c[k + 1] /\ k + 1 \in 1 .. Len(c)
    BY <1>7, <2>1, <2>2, TailBatches
  <2>4. AllInTime(t) /\ \A k \in 1 .. Len(t) : InTimeBefore(outputs, t[k])
    BY <1>0, <1>7, <2>1, <2>3
  <2>5. AllInTime(job[g].batches)'
    BY <1>7, <2>1, <2>4 DEF AllInTime, InTimeOrder, InTimeBefore
  <2>6. InTimeOrder(outputs)' /\ \A k \in 1 .. Len(job'[g].batches) : InTimeBefore(outputs, job[g].batches[k])'
    BY <1>0, <1>7, <2>1, <2>4 DEF InTimeOrder, InTimeBefore
  <2> QED BY <1>7, <2>5, <2>6 DEF TimeInv
<1>8. ASSUME outputs' = outputs, job'[g].kind = job[g].kind, job[g].step \in {"emit", "save"},
             job'[g].batches = b, job'[g].step \in {"emit", "save", "complete"}
      PROVE  TimeInv(g)'
  BY <1>0, <1>8 DEF TimeInv, AllInTime, InTimeOrder, InTimeBefore
<1>9. CASE EndBatch(g)
  <2>1. /\ outputs' = outputs /\ job[g].step = "emit" /\ b # << >> /\ Head(b) = << >>
    BY <1>9 DEF EndBatch, Pending
  <2>2. CASE job' = [job EXCEPT ![g].step = "save"]
    BY <1>0, <1>8, <2>1, <2>2 DEF JobFields
  <2>3. CASE job' = [job EXCEPT ![g].batches = Tail(@)]
    BY <1>0, <1>7, <2>1, <2>3 DEF JobFields
  <2> QED BY <1>9, <2>2, <2>3 DEF EndBatch
<1>10. CASE Save(g)
  <2>1. /\ outputs' = outputs /\ job[g].step = "save" /\ b # << >> /\ Head(b) = << >>
    BY <1>10 DEF Save, ClientsInv, BatchInv
  <2>2. CASE job' = job
    BY <1>8, <2>1, <2>2
  <2>3. CASE job' = [job EXCEPT ![g].batches = Tail(@), ![g].step = "emit"]
    BY <1>0, <1>7, <2>1, <2>3 DEF JobFields
  <2> QED BY <1>10, <2>2, <2>3 DEF Save
<1>11. CASE FinishInner(g)
  <2>1. /\ outputs' = outputs /\ job[g].step = "emit" /\ job' = [job EXCEPT ![g].step = "complete"]
    BY <1>11 DEF FinishInner, Finished
  <2> QED BY <1>0, <1>8, <2>1 DEF JobFields
<1> QED BY <1>1, <1>2, <1>3, <1>4, <1>6, <1>9, <1>10, <1>11 DEF Proceed

(* Every step keeps the outputs in time order. *)
LEMMA TimeStep ==
    ASSUME ReplayInv, [ReplayNext]_replayVars
    PROVE  \A g \in Savers : TimeInv(g)'
<1> USE DEF ReplayInv
<1>1. ASSUME NEW g \in Savers, Begin(g) \/ Proceed(g), NEW h \in Savers PROVE TimeInv(h)'
  <2> SUFFICES ASSUME h \in solo' PROVE TimeInv(h)'
    BY DEF TimeInv
  <2>1. CASE h = g
    BY <1>1, <2>1, TimeOfBegin, TimeOfProceed
  <2>2. CASE h # g
    <3>1. job'[h].step = "idle"
      BY <1>1, <2>2, ClientFrame, SoloAtWork
    <3> QED BY <3>1 DEF TimeInv
  <2> QED BY <2>1, <2>2
<1>2. ASSUME Arrive \/ UNCHANGED replayVars, NEW h \in Savers PROVE TimeInv(h)'
  <2>1. UNCHANGED <<outputs, solo, job, traffic>>
    BY <1>2 DEF Arrive, replayVars, serviceVars, ghostVars
  <2>2. TimeInv(h)
    OBVIOUS
  <2>3. /\ InTimeOrder(traffic)' = InTimeOrder(traffic)
        /\ InTimeOrder(outputs)' = InTimeOrder(outputs)
        /\ AllInTime(job[h].batches)' = AllInTime(job[h].batches)
        /\ \A k : InTimeBefore(outputs, job[h].batches[k])' = InTimeBefore(outputs, job[h].batches[k])
    BY <2>1 DEF AllInTime, InTimeOrder, InTimeBefore
  <2> QED BY <2>1, <2>2, <2>3 DEF TimeInv
<1>3. ASSUME Crash, NEW h \in Savers PROVE TimeInv(h)'
  <2>1. job'[h].step = "idle"
    BY <1>3, IdleIsOK DEF Crash
  <2> QED BY <2>1 DEF TimeInv
<1> QED BY <1>1, <1>2, <1>3 DEF ReplayNext

-----------------------------------------------------------------------------
(* The invariant holds when the process starts for the first time. *)
LEMMA ReplayInvInit == ReplayInit => ReplayInv
<1> SUFFICES ASSUME ReplayInit PROVE ReplayInv
  OBVIOUS
<1> USE DEF ReplayInit
<1>1. StoredInv
  <2>1. StoreInv
    BY StoreInvInit
  <2>2. traffic \in Seq(Offered)
    BY ReplayAssumption
  <2> QED BY <2>1, <2>2 DEF StoredInv, StoreInit
<1>2. FilesInv /\ FilesSeen
  BY <1>1, CursorFacts DEF FilesInv, FilesSeen, CursorInit
<1>3. ClientsInv
  <2>1. ASSUME NEW g \in Savers PROVE JobInv(g) /\ BatchInv(g) /\ SeenBy(g)
    BY <1>1, IdleIsOK, CursorFacts DEF CursorInit, JobInv, BatchInv, SeenBy
  <2> QED BY <2>1 DEF ClientsInv
<1>4. TasksInv
  BY DEF TasksInv, TasksOK
<1>5. AloneInv
  <2>1. << >> \in Seq(Offered) /\ << >> # Torn
    <3>1. << >> \in Seq(Offered) /\ Torn \notin Seq(Offered)
      BY ReplayAssumption
    <3> QED BY <3>1
  <2>2. \A g \in Savers : job[g].step = "idle"
    BY <1>1, IdleIsOK
  <2>3. TemporaryIsOwn /\ Loadable
    BY DEF CursorInit, TemporaryIsOwn, Loadable
  <2> QED BY <2>1, <2>2, <2>3 DEF AloneInv
<1>6. \A g \in Savers : TimeInv(g)
  BY <1>1, IdleIsOK DEF TimeInv
<1> QED BY <1>1, <1>2, <1>3, <1>4, <1>5, <1>6 DEF ReplayInv

(* Every step keeps it. *)
LEMMA ReplayInvStep == ReplayInv /\ [ReplayNext]_replayVars => ReplayInv'
BY StoredStep, FilesStep, FilesSeenStep, ClientsStep, TasksStep, AloneStep, TimeStep DEF ReplayInv

(* It is an invariant. *)
LEMMA ReplayInvHolds == ReplaySpec => []ReplayInv
BY ReplayInvInit, ReplayInvStep, PTL DEF ReplaySpec

(* The replay service keeps its types: no request counts more packets      *)
(* than the traffic has, a request is at its save exactly while the        *)
(* cursor store has one of its own, and only requests that met tear the    *)
(* list of outputs (replay.go, RunTask, Replay and Resume; scheduler.go). *)
THEOREM ReplayTypeCorrect == ReplaySpec => []ReplayTypeOK
<1>1. ASSUME ReplayInv PROVE ReplayTypeOK
  <2> USE <1>1 DEF ReplayInv
  <2>1. \A g \in Savers : /\ job[g].step \in Steps
                          /\ job[g].count <= Len(traffic)
                          /\ job[g].step = "save" <=> saveStep[g] # "idle"
    BY DEF ClientsInv, JobInv, JobOK
  <2>2. CursorTypeOK
    <3>1. OurCursors \subseteq Cursors
      BY TrafficFacts
    <3> QED BY <3>1 DEF FilesInv, CursorTypeOK
  <2>3. outputs = Torn => overlapped
    BY DEF AloneInv
  <2> QED BY <2>1, <2>2, <2>3 DEF ReplayTypeOK, StoredInv, TasksInv, TasksOK
<1> QED BY <1>1, ReplayInvHolds, PTL

(* While packets arrive in time order, all packets up to the one the       *)
(* cursor file names were put out, by this process or by one before it,    *)
(* for every number of requests that overlap, fail or die with the         *)
(* process: a Resume that leaves these packets out loses nothing           *)
(* (replay.go, RunTask and Resume; cursor.go, Save). *)
THEOREM ReplaySkipsNothing == ReplaySpec => []SkipsNothing
<1>1. ASSUME ReplayInv PROVE SkipsNothing
  <2> USE <1>1 DEF ReplayInv
  <2> SUFFICES ASSUME StrictlyInOrder, NEW i \in DOMAIN traffic,
                      files.main \notin {Absent, Empty, Garbled}, files.main[2] = << traffic[i].id >>,
                      NEW j \in 1 .. i
               PROVE  traffic[j].id \in emitted
    BY DEF SkipsNothing
  <2>1. files.main \in OurCursors
    BY DEF FilesInv
  <2>2. SeenUpTo(files.main[2])
    BY <2>1 DEF FilesSeen
  <2>3. PICK m \in 1 .. Len(traffic) : /\ << traffic[i].id >> = << traffic[m].id >>
                                       /\ \A k \in 1 .. m : traffic[k].id \in emitted
    BY <2>2 DEF SeenUpTo
  <2>4. traffic[i].id = traffic[m].id
    BY <2>3
  <2>5. i = m
    BY <2>4, TrafficFacts
  <2> QED BY <2>3, <2>5
<1> QED BY <1>1, ReplayInvHolds, PTL

(* While requests come one at a time the cursor file can be read, after    *)
(* every step, every failure and every crash (cursor.go, Save and Load). *)
THEOREM ReplayCursorReadable == ReplaySpec => []CursorReadable
<1>1. ReplayInv => CursorReadable
  BY DEF ReplayInv, AloneInv, CursorReadable
<1> QED BY <1>1, ReplayInvHolds, PTL

(* A request that runs alone puts packets out in time order, across the    *)
(* borders of chunks, whatever the chunk size, the order Ordered gives to  *)
(* equal times and the requests that overlapped before it; a stream does so if its packets arrived in time order   *)
(* (replay.go, RunTask, Replay and ReplayStream; stamp/batch.go). *)
THEOREM ReplayInTimeOrder == ReplaySpec => []OutputsInTimeOrder
<1>1. ReplayInv => OutputsInTimeOrder
  BY DEF ReplayInv, TimeInv, OutputsInTimeOrder
<1> QED BY <1>1, ReplayInvHolds, PTL

-----------------------------------------------------------------------------
(* What a request puts out is what was stored when it began.               *)

Elems(list) == {list[i] : i \in 1 .. Len(list)}

Left(b) == UNION {Elems(b[k]) : k \in 1 .. Len(b)}

FirstOfTraffic(n) == {traffic[m] : m \in 1 .. n}

(* What was put out and what is left are the first n packets of the        *)
(* traffic, each once. *)
Covers(out, b, count, n) ==
    /\ count = Len(out)
    /\ Elems(out) \cup Left(b) = FirstOfTraffic(n)
    /\ \E e : Cut(b, e) /\ e[0] = Len(out) /\ e[Len(b)] = n

PutOut(g) == IF job[g].step = "version" THEN << >> ELSE outputs

CoverInv(g) ==
    g \in solo /\ job[g].kind \in {"all", "batch"} =>
       /\ job[g].step \notin {"refresh", "tail", "complete"}
       /\ job[g].step \in {"version", "emit", "save"} =>
             /\ job[g].size \in 0 .. Len(packets)
             /\ Covers(PutOut(g), job[g].batches, job[g].count, job[g].size)

TaskKnown(g) == job[g].step # "idle" => job[g].task \in DOMAIN tasks

FinishInv == \A g \in Savers : CoverInv(g) /\ TaskKnown(g)

(* The chunks of a list hold its packets, each once. *)
LEMMA LeftOfBatches ==
    ASSUME NEW list \in Seq(Offered)
    PROVE  /\ Left(Batches(list)) = Elems(list)
           /\ \E e : /\ Cut(Batches(list), e) /\ e[0] = 0
                     /\ e[Len(Batches(list))] = Len(list)
<1>1. PICK b : b = Batches(list)
  OBVIOUS
<1>2. PICK e : CutsList(b, e, list)
  BY <1>1, BatchesProperties
<1>3. Len(b) \in Nat /\ e \in [0 .. Len(b) -> Nat] /\ Len(list) \in Nat /\ e[Len(b)] = Len(list)
  BY <1>2 DEF CutsList, Cut
<1>4. ASSUME NEW x \in Left(b) PROVE x \in Elems(list)
  <2>1. PICK k \in 1 .. Len(b) : x \in Elems(b[k])
    BY <1>4 DEF Left
  <2>2. PICK i \in 1 .. Len(b[k]) : x = b[k][i]
    BY <2>1 DEF Elems
  <2>3. PICK j \in e[k - 1] + 1 .. e[k] : b[k][i] = list[j]
    BY <1>2 DEF CutsList
  <2>4. j \in 1 .. Len(list)
    <3>1. k - 1 \in 0 .. Len(b) /\ k \in 0 .. Len(b)
      BY <1>3
    <3>2. e[k - 1] \in Nat /\ e[k] \in Nat
      BY <1>3, <3>1
    <3>3. e[k] <= Len(list)
      <4>1. CASE k = Len(b)
        BY <1>3, <3>2, <4>1
      <4>2. CASE k # Len(b)
        <5>1. k < Len(b) /\ Len(b) \in 1 .. Len(b) /\ Len(b) - 1 \in 0 .. Len(b)
          BY <1>3, <4>2
        <5>2. e[k] <= e[Len(b) - 1]
          BY <1>2, <5>1 DEF CutsList
        <5>3. /\ \A l \in 1 .. Len(b) : e[l] = e[l - 1] + Len(b[l])
              /\ b \in Seq(Seq(Offered))
          BY <1>2 DEF CutsList, Cut
        <5>4. PICK c : c = Len(b)
          OBVIOUS
        <5>5. e[c] = e[c - 1] + Len(b[c]) /\ Len(b[c]) \in Nat /\ e[c - 1] \in Nat
          <6>1. c \in 1 .. Len(b) /\ c - 1 \in 0 .. Len(b)
            BY <5>1, <5>4
          <6>2. b[c] \in Seq(Offered)
            BY <5>3, <6>1
          <6>3. e[c] = e[c - 1] + Len(b[c])
            BY <5>3, <6>1
          <6>4. Len(b[c]) \in Nat
            BY <6>2
          <6>5. e[c - 1] \in Nat
            BY <1>3, <6>1
          <6> QED BY <6>3, <6>4, <6>5
        <5> QED BY SMTT(30), <1>3, <3>2, <5>2, <5>4, <5>5
      <4> QED BY <4>1, <4>2
    <3> QED BY <1>3, <3>2, <3>3
  <2> QED BY <2>2, <2>3, <2>4 DEF Elems
<1>5. ASSUME NEW x \in Elems(list) PROVE x \in Left(b)
  <2>1. PICK j \in 1 .. Len(list) : x = list[j]
    BY <1>5 DEF Elems
  <2>2. PICK k \in 1 .. Len(b) : j \in e[k - 1] + 1 .. e[k]
    BY <1>2, ChunkOfPosition
  <2>3. Holds(b[k], list, e[k - 1] + 1, e[k])
    BY <1>2 DEF CutsList
  <2>4. PICK i \in 1 .. Len(b[k]) : b[k][i] = list[j]
    BY <2>2, <2>3 DEF Holds
  <2> QED BY <2>1, <2>4 DEF Elems, Left
<1>6. Left(b) = Elems(list)
  BY <1>4, <1>5
<1> QED BY <1>1, <1>2, <1>6 DEF CutsList

(* A request that takes the list Ordered returns has to put out what is    *)
(* stored. *)
LEMMA CoverBegin ==
    ASSUME StoredInv, NEW list \in Orders
    PROVE  Covers(<< >>, Batches(list), 0, Len(packets))
<1>1. /\ packets \in Seq(Offered) /\ Len(packets) \in Nat
      /\ \A i \in 1 .. Len(packets) : packets[i] = traffic[i]
  BY TrafficFacts DEF StoredInv
<1>2. /\ list \in Seq(Offered) /\ Len(list) = Len(packets)
      /\ \A i \in 1 .. Len(list) : \E j \in 1 .. Len(packets) : list[i] = packets[j]
      /\ Holds(list, packets, 1, Len(packets))
  BY <1>1, OrdersProperties
<1>3. Elems(list) = FirstOfTraffic(Len(packets))
  <2>1. ASSUME NEW x \in Elems(list) PROVE x \in FirstOfTraffic(Len(packets))
    <3>1. PICK i \in 1 .. Len(list) : x = list[i]
      BY <2>1 DEF Elems
    <3>2. PICK j \in 1 .. Len(packets) : list[i] = packets[j]
      BY <1>2
    <3> QED BY <1>1, <3>1, <3>2 DEF FirstOfTraffic
  <2>2. ASSUME NEW x \in FirstOfTraffic(Len(packets)) PROVE x \in Elems(list)
    <3>1. PICK j \in 1 .. Len(packets) : x = traffic[j]
      BY <2>2 DEF FirstOfTraffic
    <3>2. PICK i \in 1 .. Len(list) : list[i] = packets[j]
      BY <1>2 DEF Holds
    <3> QED BY <1>1, <3>1, <3>2 DEF Elems
  <2> QED BY <2>1, <2>2
<1>4. Elems(<< >>) = {} /\ Len(<< >>) = 0
  BY DEF Elems
<1>5. PICK e : /\ Cut(Batches(list), e) /\ e[0] = 0
               /\ e[Len(Batches(list))] = Len(packets)
  BY <1>2, LeftOfBatches
<1>6. Elems(<< >>) \cup Left(Batches(list)) = FirstOfTraffic(Len(packets))
  BY <1>2, <1>3, <1>4, LeftOfBatches
<1> QED BY <1>4, <1>5, <1>6 DEF Covers

(* Nothing is lost with a chunk that is empty. *)
LEMMA LeftOfTail ==
    ASSUME NEW b, NEW e, Cut(b, e), b # << >>, Head(b) = << >>
    PROVE  Left(Tail(b)) = Left(b)
<1> DEFINE t == Tail(b)
<1>1. /\ Len(t) + 1 = Len(b)
      /\ \A k \in 1 .. Len(t) : t[k] = b[k + 1] /\ k + 1 \in 1 .. Len(b)
  BY TailCut
<1>2. Len(b) \in Nat /\ Len(t) \in Nat /\ Len(b[1]) = 0
  BY <1>1 DEF Cut
<1> HIDE DEF t
<1>3. ASSUME NEW x \in Left(t) PROVE x \in Left(b)
  <2>1. PICK k \in 1 .. Len(t) : x \in Elems(t[k])
    BY <1>3 DEF Left
  <2> QED BY <1>1, <2>1 DEF Left
<1>4. ASSUME NEW x \in Left(b) PROVE x \in Left(t)
  <2>1. PICK k \in 1 .. Len(b) : x \in Elems(b[k])
    BY <1>4 DEF Left
  <2>2. k # 1
    BY <1>2, <2>1 DEF Elems
  <2>3. k - 1 \in 1 .. Len(t) /\ (k - 1) + 1 = k
    BY <1>1, <1>2, <2>2
  <2>4. t[k - 1] = b[k]
    BY <1>1, <2>3
  <2> QED BY <2>1, <2>3, <2>4 DEF Left
<1> QED BY <1>3, <1>4 DEF t

(* What is left before a packet is put out is that packet and what is left *)
(* after. *)
LEMMA LeftOfEmit ==
    ASSUME NEW b, NEW e, Cut(b, e), b # << >>, Head(b) # << >>
    PROVE  Left(b) = Left([b EXCEPT ![1] = Tail(@)]) \cup {Head(b)[1]}
<1> DEFINE t == [b EXCEPT ![1] = Tail(@)]
           x == Head(b)[1]
<1>1. /\ Len(t) = Len(b)
      /\ Len(t[1]) = Len(b[1]) - 1
      /\ \A i \in 1 .. Len(t[1]) : t[1][i] = b[1][i + 1] /\ i + 1 \in 1 .. Len(b[1])
      /\ \A k \in 1 .. Len(b) : k # 1 => t[k] = b[k]
  BY EmitCut
<1>2. /\ Len(b) \in Nat /\ 1 \in 1 .. Len(b)
      /\ Len(b[1]) \in Nat /\ 1 \in 1 .. Len(b[1])
      /\ x = b[1][1]
  BY DEF Cut
<1> HIDE DEF t, x
<1>3. ASSUME NEW y \in Left(b) PROVE y \in Left(t) \cup {x}
  <2>1. PICK k \in 1 .. Len(b) : y \in Elems(b[k])
    BY <1>3 DEF Left
  <2>2. CASE k # 1
    <3>1. t[k] = b[k] /\ k \in 1 .. Len(t)
      BY <1>1, <2>2
    <3> QED BY <2>1, <3>1 DEF Left
  <2>3. CASE k = 1
    <3>1. PICK i \in 1 .. Len(b[1]) : y = b[1][i]
      BY <2>1, <2>3 DEF Elems
    <3>2. CASE i = 1
      BY <1>2, <3>1, <3>2
    <3>3. CASE i # 1
      <4>1. i - 1 \in 1 .. Len(t[1]) /\ (i - 1) + 1 = i
        BY <1>1, <1>2, <3>3
      <4>2. t[1][i - 1] = y
        BY <1>1, <3>1, <4>1
      <4>3. y \in Elems(t[1])
        BY <4>1, <4>2 DEF Elems
      <4> QED BY <1>1, <1>2, <4>3 DEF Left
    <3> QED BY <3>2, <3>3
  <2> QED BY <2>2, <2>3
<1>4. ASSUME NEW y \in Left(t) PROVE y \in Left(b)
  <2>1. PICK k \in 1 .. Len(b) : y \in Elems(t[k])
    BY <1>1, <1>4 DEF Left
  <2>2. CASE k # 1
    BY <1>1, <2>1, <2>2 DEF Left
  <2>3. CASE k = 1
    <3>1. PICK i \in 1 .. Len(t[1]) : y = t[1][i]
      BY <2>1, <2>3 DEF Elems
    <3>2. y \in Elems(b[1])
      BY <1>1, <3>1 DEF Elems
    <3> QED BY <1>2, <3>2 DEF Left
  <2> QED BY <2>2, <2>3
<1>5. x \in Left(b)
  <2>1. x \in Elems(b[1])
    BY <1>2 DEF Elems
  <2> QED BY <1>2, <2>1 DEF Left
<1> QED BY <1>3, <1>4, <1>5 DEF t, x

(* A chunk that is empty is left behind. *)
LEMMA CoverTail ==
    ASSUME NEW out, NEW b, NEW count, NEW n, Covers(out, b, count, n), b # << >>, Head(b) = << >>
    PROVE  Covers(out, Tail(b), count, n)
<1>1. Elems(out) \cup Left(b) = FirstOfTraffic(n) /\ count = Len(out)
  BY DEF Covers
<1>2. PICK e : Cut(b, e) /\ e[0] = Len(out) /\ e[Len(b)] = n
  BY DEF Covers
<1> DEFINE t == Tail(b)
           f == [k \in 0 .. Len(b) - 1 |-> e[k + 1]]
<1>4. /\ Cut(t, f) /\ Len(t) + 1 = Len(b) /\ e[1] = e[0]
      /\ \A k \in 1 .. Len(t) : t[k] = b[k + 1] /\ k + 1 \in 1 .. Len(b)
      /\ \A k \in 0 .. Len(t) : f[k] = e[k + 1] /\ k + 1 \in 0 .. Len(b)
  BY <1>2, TailCut
<1> HIDE DEF t, f
<1>5. /\ b \in Seq(Seq(Offered)) /\ Len(b) \in Nat /\ Len(t) \in Nat /\ Len(b[1]) = 0
  BY <1>2, <1>4 DEF Cut
<1>6. f[0] = Len(out) /\ f[Len(t)] = n
  <2>1. 0 \in 0 .. Len(t) /\ Len(t) \in 0 .. Len(t) /\ 0 + 1 = 1
    BY <1>5
  <2> QED BY <1>2, <1>4, <2>1
<1>7. Left(t) = Left(b)
  BY <1>2, LeftOfTail DEF t
<1>8. Covers(out, t, count, n)
  BY <1>1, <1>4, <1>6, <1>7 DEF Covers
<1> QED BY <1>8 DEF t

(* A packet that is put out is no longer left. *)
LEMMA CoverEmit ==
    ASSUME NEW out \in Seq(Offered), NEW b, NEW count, NEW n, Covers(out, b, count, n),
           b # << >>, Head(b) # << >>
    PROVE  Covers(Append(out, Head(b)[1]), [b EXCEPT ![1] = Tail(@)], count + 1, n)
<1>1. Elems(out) \cup Left(b) = FirstOfTraffic(n)
  BY DEF Covers
<1>2. PICK e : Cut(b, e) /\ e[0] = Len(out) /\ e[Len(b)] = n
  BY DEF Covers
<1> DEFINE t == [b EXCEPT ![1] = Tail(@)]
           f == [e EXCEPT ![0] = @ + 1]
<1>3. PICK x, o : x = Head(b)[1] /\ o = Append(out, x)
  OBVIOUS
<1>4. /\ Cut(t, f) /\ Len(t) = Len(b)
      /\ Len(t[1]) = Len(b[1]) - 1
      /\ \A i \in 1 .. Len(t[1]) : t[1][i] = b[1][i + 1] /\ i + 1 \in 1 .. Len(b[1])
      /\ \A k \in 1 .. Len(b) : k # 1 => t[k] = b[k]
      /\ f[0] = e[0] + 1
      /\ \A k \in 1 .. Len(b) : f[k] = e[k]
  BY SMTT(30), <1>2, EmitCut
<1> HIDE DEF t, f
<1>5. /\ b \in Seq(Seq(Offered)) /\ Len(b) \in Nat /\ 1 \in 1 .. Len(b) /\ Len(b) \in 1 .. Len(b)
      /\ b[1] \in Seq(Offered) /\ Len(b[1]) \in Nat /\ 1 \in 1 .. Len(b[1])
      /\ x = b[1][1] /\ x \in Offered
  BY <1>2, <1>3 DEF Cut
<1>6. /\ o \in Seq(Offered) /\ Len(o) = Len(out) + 1 /\ Len(out) \in Nat
      /\ o[Len(out) + 1] = x /\ \A i \in 1 .. Len(out) : o[i] = out[i]
  BY <1>3, <1>5
<1>7. Elems(o) = Elems(out) \cup {x}
  <2>1. ASSUME NEW y \in Elems(o) PROVE y \in Elems(out) \cup {x}
    <3>1. PICK i \in 1 .. Len(o) : y = o[i]
      BY <2>1 DEF Elems
    <3>2. i = Len(out) + 1 \/ i \in 1 .. Len(out)
      BY <1>6
    <3> QED BY <1>6, <3>1, <3>2 DEF Elems
  <2>2. ASSUME NEW y \in Elems(out) PROVE y \in Elems(o)
    <3>1. PICK i \in 1 .. Len(out) : y = out[i]
      BY <2>2 DEF Elems
    <3>2. i \in 1 .. Len(o)
      BY <1>6
    <3> QED BY <1>6, <3>1, <3>2 DEF Elems
  <2>3. x \in Elems(o)
    <3>1. Len(out) + 1 \in 1 .. Len(o)
      BY <1>6
    <3> QED BY <1>6, <3>1 DEF Elems
  <2> QED BY <2>1, <2>2, <2>3
<1>8. Left(b) = Left(t) \cup {x}
  BY <1>2, <1>3, LeftOfEmit DEF t
<1>9. Elems(o) \cup Left(t) = FirstOfTraffic(n)
  BY <1>1, <1>7, <1>8
<1>10. f[0] = Len(o) /\ f[Len(t)] = n
  BY <1>2, <1>4, <1>5, <1>6
<1>11. count + 1 = Len(o)
  BY <1>6 DEF Covers
<1>12. Covers(o, t, count + 1, n)
  BY <1>4, <1>9, <1>10, <1>11 DEF Covers
<1> QED BY <1>3, <1>12 DEF t

(* As long as the traffic is the same, what is covered stays covered. *)
LEMMA CoverStays ==
    ASSUME NEW out, NEW b, NEW count, NEW n, Covers(out, b, count, n), traffic' = traffic
    PROVE  Covers(out, b, count, n)'
BY DEF Covers, FirstOfTraffic

(* A request begins with all that is stored. *)
LEMMA CoverOfBegin ==
    ASSUME ReplayInv, NEW g \in Savers, Begin(g), g \in solo'
    PROVE  CoverInv(g)'
<1> USE DEF ReplayInv
<1>0. DOMAIN job = Savers /\ UNCHANGED <<traffic, packets>>
  BY ClientFrame DEF ClientsInv, storeVars
<1>1. ASSUME NEW list \in Orders, NEW step \in {"version", "emit"},
             job'[g].step = step, job'[g].batches = Batches(list), job'[g].count = 0,
             job'[g].size = Len(packets), step = "emit" => outputs' = << >>
      PROVE  CoverInv(g)'
  <2>1. PICK b, out, count, n : b = Batches(list) /\ out = << >> /\ count = 0 /\ n = Len(packets)
    OBVIOUS
  <2>2. Covers(out, b, count, n)
    BY <2>1, CoverBegin
  <2>3. Covers(out, b, count, n)'
    BY <1>0, <2>2, CoverStays
  <2>4. PutOut(g)' = out /\ job'[g].batches = b /\ job'[g].count = count /\ job'[g].size = n
    BY <1>1, <2>1 DEF PutOut
  <2>5. Covers(PutOut(g), job[g].batches, job[g].count, job[g].size)'
    BY <2>3, <2>4 DEF Covers, FirstOfTraffic
  <2>6. job'[g].size \in 0 .. Len(packets')
    BY <1>0, <1>1, TrafficFacts
  <2> QED BY <1>1, <2>5, <2>6 DEF CoverInv
<1>2. CASE BeginAll(g)
  <2>1. PICK list \in Orders : /\ job'[g].step = "version" /\ job'[g].count = 0
                               /\ job'[g].batches = Batches(list)
                               /\ job'[g].size = Len(packets)
    BY <1>0, <1>2 DEF BeginAll, Idle
  <2> QED BY <1>1, <2>1
<1>3. CASE BeginBatch(g)
  <2>1. PICK list \in Orders : /\ job'[g].step = "emit" /\ job'[g].count = 0
                               /\ job'[g].batches = Batches(list)
                               /\ job'[g].size = Len(packets)
    BY <1>0, <1>3 DEF BeginBatch, Idle
  <2>2. outputs' = << >>
    BY <1>3, Writes
  <2> QED BY <1>1, <2>1, <2>2
<1>4. CASE BeginStream(g) \/ BeginResume(g)
  <2>1. job'[g].kind \in {"stream", "resume", "none"}
    <3>1. job[g].step = "idle" /\ job[g].kind = "none"
      BY <1>4 DEF BeginStream, BeginResume, Enter, ClientsInv, JobInv, JobOK
    <3> QED BY ZenonT(30), <1>0, <1>4, <3>1 DEF BeginStream, BeginResume, Idle
  <2> QED BY <2>1 DEF CoverInv
<1> QED BY <1>2, <1>3, <1>4 DEF Begin

(* What a request puts out leaves what it has still to put out, and none   *)
(* of its other steps changes the two together. *)
LEMMA CoverOfProceed ==
    ASSUME ReplayInv, NEW g \in Savers, CoverInv(g), Proceed(g), g \in solo'
    PROVE  CoverInv(g)'
<1> USE DEF ReplayInv
<1> DEFINE b == job[g].batches
           whole == job[g].kind \in {"all", "batch"}
<1>0. /\ DOMAIN job = Savers /\ UNCHANGED <<traffic, packets>> /\ g \in solo
      /\ DOMAIN job[g] = JobFields
      /\ whole => /\ job[g].step \notin {"refresh", "tail", "complete"}
                  /\ job[g].step \in {"version", "emit", "save"} =>
                        /\ job[g].size \in 0 .. Len(packets)
                        /\ Covers(PutOut(g), b, job[g].count, job[g].size)
  BY ClientFrame, SoloAtWork DEF ClientsInv, JobInv, JobOK, CoverInv, storeVars
<1>2. PICK c, out, count, n : c = b /\ out = PutOut(g) /\ count = job[g].count /\ n = job[g].size
  OBVIOUS
<1>3. whole /\ job[g].step \in {"version", "emit", "save"} =>
         n \in 0 .. Len(packets) /\ Covers(out, c, count, n)
  BY <1>0, <1>2
<1>1. ASSUME NEW o, NEW t, NEW k, whole => Covers(o, t, k, n),
             job[g].step \in {"version", "emit", "save"},
             job'[g].step \in {"version", "emit", "save"}, job'[g].kind = job[g].kind,
             PutOut(g)' = o, job'[g].batches = t, job'[g].count = k, job'[g].size = n
      PROVE  CoverInv(g)'
  <2>1. whole => Covers(o, t, k, n)'
    BY <1>0, <1>1, CoverStays
  <2>2. whole => Covers(PutOut(g), job[g].batches, job[g].count, job[g].size)'
    BY <1>1, <2>1 DEF Covers, FirstOfTraffic
  <2>3. whole => job'[g].size \in 0 .. Len(packets')
    BY <1>0, <1>1, <1>3
  <2> QED BY <1>1, <2>2, <2>3 DEF CoverInv
<1>4. CASE ReadVersion(g)
  <2>1. /\ job'[g].kind = job[g].kind /\ job'[g].step = "emit" /\ job'[g].batches = c
        /\ job'[g].count = count /\ job'[g].size = n /\ job[g].step = "version" /\ outputs' = << >>
    BY <1>0, <1>2, <1>4, Writes DEF ReadVersion, JobFields
  <2>2. PutOut(g)' = out
    BY <1>2, <2>1 DEF PutOut
  <2> QED BY <1>1, <1>3, <2>1, <2>2
<1>5. CASE Refresh(g) \/ ReadTail(g)
  <2>1. job[g].step \in {"refresh", "tail"} /\ job'[g].kind = job[g].kind
    BY <1>0, <1>5 DEF Refresh, ReadTail, JobFields
  <2>2. ~ whole
    BY <1>0, <2>1
  <2> QED BY <2>1, <2>2 DEF CoverInv
<1>6. CASE Emit(g)
  <2>1. /\ c \in Seq(Seq(Offered)) /\ c # << >> /\ Head(c) # << >> /\ Head(c)[1] \in Offered
    BY <1>2, <1>6, EmitsOffered
  <2>2. /\ job[g].step = "emit" /\ job'[g].kind = job[g].kind /\ job'[g].step = "emit"
        /\ job'[g].batches = [c EXCEPT ![1] = Tail(@)] /\ job'[g].count = count + 1
        /\ job'[g].size = n
    BY <1>0, <1>2, <1>6 DEF Emit, Pending, JobFields
  <2>3. out = outputs /\ out \in Seq(Offered)
    BY <1>0, <1>2, <2>2 DEF AloneInv, PutOut
  <2>4. outputs' = Append(out, Head(c)[1])
    BY <1>2, <1>6, <2>3, Writes
  <2>5. PICK o, t : o = Append(out, Head(c)[1]) /\ t = [c EXCEPT ![1] = Tail(@)]
    OBVIOUS
  <2>6. whole => Covers(o, t, count + 1, n)
    BY <1>3, <2>1, <2>2, <2>3, <2>5, CoverEmit
  <2>7. PutOut(g)' = o
    BY <2>2, <2>4, <2>5 DEF PutOut
  <2> QED BY <1>1, <2>2, <2>5, <2>6, <2>7
<1>7. CASE OutputFails(g) \/ SaveError(g) \/ Finish(g)
  <2>1. job'[g] = Idle
    BY <1>0, <1>7 DEF OutputFails, SaveError, Finish
  <2> QED BY <2>1 DEF CoverInv, Idle
<1>8. ASSUME outputs' = outputs, job'[g].kind = job[g].kind, job[g].step \in {"emit", "save"},
             job'[g].count = job[g].count, job'[g].size = job[g].size,
             job'[g].step \in {"emit", "save"},
             \/ job'[g].batches = b
             \/ job'[g].batches = Tail(b) /\ b # << >> /\ Head(b) = << >>
      PROVE  CoverInv(g)'
  <2>1. PICK t : t = job'[g].batches
    OBVIOUS
  <2>2. whole => Covers(out, t, count, n)
    BY <1>2, <1>3, <1>8, <2>1, CoverTail
  <2>3. PutOut(g)' = out
    BY <1>2, <1>8 DEF PutOut
  <2> QED BY <1>1, <1>2, <1>8, <2>1, <2>2, <2>3
<1>9. CASE EndBatch(g)
  <2>1. /\ outputs' = outputs /\ job[g].step = "emit" /\ b # << >> /\ Head(b) = << >>
    BY <1>9 DEF EndBatch, Pending
  <2>2. CASE job' = [job EXCEPT ![g].step = "save"]
    BY <1>0, <1>8, <2>1, <2>2 DEF JobFields
  <2>3. CASE job' = [job EXCEPT ![g].batches = Tail(@)]
    BY <1>0, <1>8, <2>1, <2>3 DEF JobFields
  <2> QED BY <1>9, <2>2, <2>3 DEF EndBatch
<1>10. CASE Save(g)
  <2>1. /\ outputs' = outputs /\ job[g].step = "save" /\ b # << >> /\ Head(b) = << >>
    BY <1>10 DEF Save, ClientsInv, BatchInv
  <2>2. CASE job' = job
    BY <1>8, <2>1, <2>2
  <2>3. CASE job' = [job EXCEPT ![g].batches = Tail(@), ![g].step = "emit"]
    BY <1>0, <1>8, <2>1, <2>3 DEF JobFields
  <2> QED BY <1>10, <2>2, <2>3 DEF Save
<1>11. CASE FinishInner(g)
  <2>1. ~ whole /\ job'[g].kind = job[g].kind
    BY <1>0, <1>11 DEF FinishInner, JobFields
  <2> QED BY <2>1 DEF CoverInv
<1> QED BY <1>4, <1>5, <1>6, <1>7, <1>9, <1>10, <1>11 DEF Proceed

(* Until the process ends, no task is forgotten. *)
LEMMA KnownStays ==
    ASSUME ReplayInv, NEW g \in Savers, Begin(g) \/ Proceed(g)
    PROVE  /\ DOMAIN tasks \subseteq DOMAIN tasks'
           /\ TaskKnown(g) => TaskKnown(g)'
<1> USE DEF ReplayInv
<1>0. DOMAIN job = Savers /\ DOMAIN job[g] = JobFields
  BY DEF ClientsInv, JobInv, JobOK
<1>1. ASSUME NEW known, NEW id
      PROVE  DOMAIN Begun(known, id) = DOMAIN known \cup {id}
  BY DEF Begun
<1>2. CASE Begin(g)
  <2>1. job[g].step = "idle"
    BY <1>2 DEF Begin, BeginAll, BeginBatch, BeginStream, BeginResume, Enter
  <2>2. CASE BeginAll(g)
    <3>1. DOMAIN tasks' = DOMAIN tasks \cup {<<"replay-all">>}
      BY <1>1, <2>2 DEF BeginAll
    <3>2. job'[g].task = <<"replay-all">>
      BY <1>0, <2>2 DEF BeginAll, Idle
    <3> QED BY <3>1, <3>2 DEF TaskKnown
  <2>3. CASE BeginBatch(g)
    <3>1. DOMAIN tasks' = DOMAIN tasks \cup {<<"replay-batch">>}
      BY <1>1, <2>3 DEF BeginBatch
    <3>2. job'[g].task = <<"replay-batch">>
      BY <1>0, <2>3 DEF BeginBatch, Idle
    <3> QED BY <3>1, <3>2 DEF TaskKnown
  <2>4. CASE BeginStream(g)
    <3>1. PICK task : /\ tasks' = Begun(Begun(tasks, task), <<"replay-batch">>)
                      /\ job'[g].task = task
      BY <1>0, <2>4 DEF BeginStream, Idle
    <3>2. PICK known : known = Begun(tasks, task)
      OBVIOUS
    <3>3. tasks' = Begun(known, <<"replay-batch">>)
      BY <3>1, <3>2
    <3>4. DOMAIN known = DOMAIN tasks \cup {task}
      BY <1>1, <3>2
    <3>5. DOMAIN tasks' = DOMAIN known \cup {<<"replay-batch">>}
      BY <1>1, <3>3
    <3> QED BY <3>1, <3>4, <3>5 DEF TaskKnown
  <2>5. CASE BeginResume(g)
    <3>1. DOMAIN tasks' = DOMAIN tasks \cup {<<"replay-resume">>}
      BY <1>1, <2>5 DEF BeginResume
    <3>2. job' = job \/ job'[g].task = <<"replay-resume">>
      BY <1>0, <2>5 DEF BeginResume, Idle
    <3> QED BY <2>1, <3>1, <3>2 DEF TaskKnown
  <2> QED BY <1>2, <2>2, <2>3, <2>4, <2>5 DEF Begin
<1>3. CASE Proceed(g)
  <2>1. DOMAIN tasks' = DOMAIN tasks
    BY <1>3 DEF Proceed, ReadVersion, Refresh, ReadTail, Emit, OutputFails, EndBatch, Save, SaveError,
                FinishInner, Finish, Marked
  <2>2. job[g].step # "idle"
    BY <1>3 DEF Proceed, ReadVersion, Refresh, ReadTail, Emit, OutputFails, EndBatch, Save, SaveError,
                FinishInner, Finish, Finished, Pending
  <2>3. job'[g].task = job[g].task \/ job'[g] = Idle
    <3>1. CASE ReadVersion(g) \/ Refresh(g) \/ ReadTail(g)
      BY ZenonT(30), <1>0, <3>1 DEF ReadVersion, Refresh, ReadTail, JobFields
    <3>2. CASE Emit(g)
      BY <1>0, <3>2 DEF Emit, JobFields
    <3>3. CASE OutputFails(g) \/ SaveError(g) \/ Finish(g)
      BY <1>0, <3>3 DEF OutputFails, SaveError, Finish
    <3>4. CASE EndBatch(g)
      BY <1>0, <3>4 DEF EndBatch, JobFields
    <3>5. CASE Save(g)
      BY <1>0, <3>5 DEF Save, JobFields
    <3>6. CASE FinishInner(g)
      BY <1>0, <3>6 DEF FinishInner, JobFields
    <3> QED BY <1>3, <3>1, <3>2, <3>3, <3>4, <3>5, <3>6 DEF Proceed
  <2> QED BY <2>1, <2>2, <2>3 DEF TaskKnown, Idle
<1> QED BY <1>2, <1>3

(* Every step keeps what is known of the end of a request. *)
LEMMA FinishInvStep ==
    ASSUME ReplayInv, FinishInv, [ReplayNext]_replayVars
    PROVE  FinishInv'
<1> USE DEF ReplayInv
<1>1. ASSUME NEW g \in Savers, Begin(g) \/ Proceed(g), NEW h \in Savers
      PROVE  CoverInv(h)' /\ TaskKnown(h)'
  <2>1. CASE h = g
    <3>1. CoverInv(g)'
      BY <1>1, CoverOfBegin, CoverOfProceed DEF CoverInv, FinishInv
    <3> QED BY <1>1, <2>1, <3>1, KnownStays DEF FinishInv
  <2>2. CASE h # g
    <3>1. job'[h] = job[h]
      BY <1>1, <2>2, ClientFrame
    <3>2. TaskKnown(h)'
      BY <1>1, <3>1, KnownStays DEF TaskKnown, FinishInv
    <3>3. CASE h \notin solo'
      BY <3>2, <3>3 DEF CoverInv
    <3>4. CASE h \in solo'
      <4>1. job'[h].step = "idle" /\ job[h].kind = "none"
        BY <1>1, <2>2, <3>1, <3>4, SoloAtWork DEF ClientsInv, JobInv, JobOK
      <4> QED BY <3>1, <3>2, <4>1 DEF CoverInv
    <3> QED BY <3>3, <3>4
  <2> QED BY <2>1, <2>2
<1>2. ASSUME Arrive \/ UNCHANGED replayVars, NEW h \in Savers
      PROVE  CoverInv(h)' /\ TaskKnown(h)'
  <2>1. UNCHANGED <<outputs, solo, job, tasks, traffic>>
    BY <1>2 DEF Arrive, replayVars, serviceVars, ghostVars
  <2>2. Len(packets) \in Nat /\ Len(packets)' \in Nat /\ Len(packets) <= Len(packets)'
    <3>1. CASE UNCHANGED replayVars
      BY <3>1, TrafficFacts DEF replayVars, storeVars
    <3>2. CASE Arrive
      <4>1. packets' = Append(packets, traffic[Len(packets) + 1])
        BY <3>2 DEF Arrive, Insert
      <4>2. traffic[Len(packets) + 1] \in Offered
        BY <3>2, TrafficFacts DEF Arrive
      <4> QED BY <4>1, <4>2, TrafficFacts
    <3> QED BY <1>2, <3>1, <3>2
  <2>3. PICK out, b, count, n : /\ out = PutOut(h) /\ b = job[h].batches
                                /\ count = job[h].count /\ n = job[h].size
    OBVIOUS
  <2>4. /\ PutOut(h)' = out /\ job'[h].batches = b /\ job'[h].count = count
        /\ job'[h].size = n
    BY <2>1, <2>3 DEF PutOut
  <2>5. Covers(out, b, count, n) => Covers(out, b, count, n)'
    BY <2>1, CoverStays
  <2>6. Covers(PutOut(h), job[h].batches, job[h].count, job[h].size)
           => Covers(PutOut(h), job[h].batches, job[h].count, job[h].size)'
    BY <2>3, <2>4, <2>5 DEF Covers, FirstOfTraffic
  <2>7. job[h].size \in 0 .. Len(packets) => job'[h].size \in 0 .. Len(packets')
    BY <2>1, <2>2
  <2>8. CoverInv(h)'
    BY <2>1, <2>6, <2>7 DEF CoverInv, FinishInv
  <2> QED BY <2>1, <2>8 DEF FinishInv, TaskKnown
<1>3. ASSUME Crash, NEW h \in Savers PROVE CoverInv(h)' /\ TaskKnown(h)'
  <2>1. job'[h] = Idle
    BY <1>3 DEF Crash
  <2> QED BY <2>1 DEF CoverInv, TaskKnown, Idle
<1> QED BY <1>1, <1>2, <1>3 DEF ReplayNext, FinishInv

(* RunTask and Replay that ran alone have put out the packets that were    *)
(* stored when they began, all of them and each once, and the task says    *)
(* how many: for every chunk size and every order Ordered may return,      *)
(* whatever arrives meanwhile, and whatever requests that overlapped,      *)
(* failed or were cut short left behind before (replay.go, RunTask and     *)
(* Replay; chunk.go; stamp/batch.go; scheduler.go, Begin). *)
THEOREM ReplayPutsOutAll == ReplaySpec => FinishedPutOutAll
<1>1. ReplayInit => FinishInv
  <2> SUFFICES ASSUME ReplayInit, NEW g \in Savers PROVE CoverInv(g) /\ TaskKnown(g)
    BY DEF FinishInv
  <2>1. job[g] = Idle
    BY DEF ReplayInit
  <2> QED BY <2>1 DEF CoverInv, TaskKnown, Idle
<1>2. ReplayInv /\ FinishInv /\ [ReplayNext]_replayVars => FinishInv'
  BY FinishInvStep
<1>3. ASSUME ReplayInv, FinishInv, NEW g \in Savers, Finish(g), g \in solo,
             job[g].kind \in {"all", "batch"}
      PROVE  /\ {outputs[i].id : i \in DOMAIN outputs}
                    = {packets[i].id : i \in 1 .. job[g].size}
             /\ Len(outputs) = job[g].size
             /\ tasks'[job[g].task].count = job[g].size
  <2> USE <1>3 DEF ReplayInv
  <2>1. job[g].step = "emit" /\ job[g].batches = << >>
    BY DEF FinishInv, CoverInv, Finish, Finished
  <2>2. PICK b, n : b = job[g].batches /\ n = job[g].size
    OBVIOUS
  <2>3. n \in 0 .. Len(packets) /\ Covers(outputs, b, job[g].count, n)
    BY <2>1, <2>2 DEF FinishInv, CoverInv, PutOut
  <2>4. b = << >> /\ Len(b) = 0
    BY <2>1, <2>2
  <2>5. /\ Elems(outputs) \cup Left(b) = FirstOfTraffic(n)
        /\ Len(outputs) = n /\ job[g].count = n
    BY <2>3, <2>4 DEF Covers
  <2>6. Elems(outputs) = FirstOfTraffic(n)
    <3>1. Left(b) = {}
      BY <2>4 DEF Left
    <3> QED BY <2>5, <3>1
  <2>7. /\ outputs \in Seq(Offered) /\ DOMAIN outputs = 1 .. n
        /\ \A i \in 1 .. n : packets[i] = traffic[i]
    <3>1. outputs \in Seq(Offered)
      BY <2>1 DEF AloneInv
    <3>2. \A i \in 1 .. n : i \in 1 .. Len(packets)
      BY <2>3, TrafficFacts
    <3> QED BY <2>5, <3>1, <3>2 DEF StoredInv
  <2>8. {outputs[i].id : i \in DOMAIN outputs} = {packets[i].id : i \in 1 .. n}
    <3>1. {outputs[i].id : i \in DOMAIN outputs} = {x.id : x \in Elems(outputs)}
      BY <2>5, <2>7 DEF Elems
    <3>2. {packets[i].id : i \in 1 .. n} = {x.id : x \in FirstOfTraffic(n)}
      BY <2>7 DEF FirstOfTraffic
    <3> QED BY <2>6, <3>1, <3>2
  <2>9. tasks'[job[g].task].count = n
    <3>1. job[g].task \in DOMAIN tasks /\ DOMAIN tasks[job[g].task] = {"state", "count", "listed"}
      BY <2>1 DEF FinishInv, TaskKnown, TasksInv, TasksOK
    <3> QED BY <2>5, <3>1 DEF Finish, Marked
  <2> QED BY <2>2, <2>5, <2>8, <2>9
<1>4. ReplayInv /\ FinishInv /\ [ReplayNext]_replayVars =>
         [\A g \in Savers :
             Finish(g) /\ g \in solo /\ job[g].kind \in {"all", "batch"} =>
                /\ {outputs[i].id : i \in DOMAIN outputs}
                       = {packets[i].id : i \in 1 .. job[g].size}
                /\ Len(outputs) = job[g].size
                /\ tasks'[job[g].task].count = job[g].size]_replayVars
  BY <1>3
<1> QED BY <1>1, <1>2, <1>4, ReplayInvHolds, PTL DEF ReplaySpec, FinishedPutOutAll

-----------------------------------------------------------------------------
(* Where the requests are with respect to the cursor.                      *)

FirstIDs(m) == {traffic[j].id : j \in 1 .. m}

(* The position of a cursor. *)
LastIs(last, m) == last = IF m = 0 THEN << >> ELSE << traffic[m].id >>

SavedLast == IF files.main = Absent THEN << >> ELSE files.main[2]

(* A request has come to a position, and has put out nothing beyond it. *)
Reaches(last, sent, p) ==
    \E m \in p .. Len(packets) : LastIs(last, m) /\ sent \subseteq FirstIDs(m)

(* What is left lies behind position p, and nothing that was sent lies     *)
(* beyond. *)
GoesBeyond(left, sent, p) ==
    \A x \in left : \E m \in p + 1 .. Len(packets) : x = traffic[m] /\ sent \subseteq FirstIDs(m)

Base(kind, p) == IF kind = "resume" THEN p ELSE 0

CourseOK(j, p) ==
    j.step # "idle" /\ j.kind \in {"all", "resume"} =>
       /\ Reaches(j.last, j.sent, Base(j.kind, p))
       /\ j.step = "version" => j.kind = "all"
       /\ j.step \in {"version", "emit", "save"} =>
             GoesBeyond(Left(j.batches), j.sent, Base(j.kind, p))
       /\ j.step \in {"refresh", "tail"} => j.kind = "resume" /\ j.sent = {} /\ LastIs(j.from, p)
       /\ j.step \in {"emit", "save"} /\ j.kind = "resume" => Len(j.batches) <= 1

SavesLast(g) ==
    job[g].step = "save" => job[g].kind \in {"all", "resume"} /\ saving[g][2] = job[g].last

(* Everything put out on the way to the cursor lies before its position,   *)
(* and a resumed request goes on behind it. *)
CourseAt(p) ==
    /\ LastIs(SavedLast, p)
    /\ behind \subseteq FirstIDs(p)
    /\ \A g \in Savers : CourseOK(job[g], p) /\ SavesLast(g)

CourseInv ==
    /\ crashes \in Nat
    /\ StrictlyInOrder /\ ~ overlapped /\ crashes = 0 =>
          \E p \in 0 .. Len(packets) : CourseAt(p)

(* In a list in time order the packet put out next is not later than what  *)
(* is left. *)
LEMMA NextIsFirst ==
    ASSUME NEW b, NEW e, Cut(b, e), b # << >>, Head(b) # << >>, AllInTime(b), NEW x \in Left(b)
    PROVE  ~ IsLater(Head(b)[1], x)
<1>1. /\ b \in Seq(Seq(Offered)) /\ Len(b) \in Nat /\ 1 \in 1 .. Len(b)
      /\ b[1] \in Seq(Offered) /\ Len(b[1]) \in Nat /\ 1 \in 1 .. Len(b[1])
      /\ Head(b)[1] = b[1][1] /\ b[1][1] \in Offered
  BY DEF Cut
<1>2. PICK k \in 1 .. Len(b) : x \in Elems(b[k])
  BY DEF Left
<1>3. PICK i \in 1 .. Len(b[k]) : x = b[k][i]
  BY <1>2 DEF Elems
<1>4. CASE k # 1
  <2>1. 1 < k
    BY <1>1, <1>4
  <2>2. InTimeBefore(b[1], b[k])
    BY <1>1, <2>1 DEF AllInTime
  <2> QED BY <1>1, <1>3, <2>2 DEF InTimeBefore
<1>5. CASE k = 1 /\ i # 1
  <2>1. 1 < i /\ i \in 1 .. Len(b[1])
    BY <1>1, <1>3, <1>5
  <2>2. InTimeOrder(b[1])
    BY <1>1 DEF AllInTime
  <2> QED BY <1>1, <1>3, <1>5, <2>1, <2>2 DEF InTimeOrder
<1>6. CASE k = 1 /\ i = 1
  <2>1. Timestamp[b[1][1]] \in Nat
    BY <1>1, ScheduleAssumption
  <2> QED BY <1>1, <1>3, <1>6, <2>1 DEF IsLater
<1> QED BY <1>4, <1>5, <1>6

(* Putting out the next packet brings a request to that packet. *)
LEMMA EmitReaches ==
    ASSUME StoredInv, StrictlyInOrder, NEW p \in Nat, NEW b, NEW e, Cut(b, e), AllInTime(b),
           b # << >>, Head(b) # << >>, NEW sent, GoesBeyond(Left(b), sent, p)
    PROVE  LET x == Head(b)[1] IN
           /\ Reaches(<< x.id >>, sent \cup {x.id}, p)
           /\ GoesBeyond(Left([b EXCEPT ![1] = Tail(@)]), sent \cup {x.id}, p)
<1> DEFINE t == [b EXCEPT ![1] = Tail(@)]
           x == Head(b)[1]
<1>1. Left(b) = Left(t) \cup {x}
  BY LeftOfEmit
<1> HIDE DEF t, x
<1>2. PICK m \in p + 1 .. Len(packets) : x = traffic[m] /\ sent \subseteq FirstIDs(m)
  BY <1>1 DEF GoesBeyond
<1>3. Len(packets) \in Nat /\ Len(packets) <= Len(traffic) /\ Len(traffic) \in Nat
  BY TrafficFacts DEF StoredInv
<1>4. m \in p .. Len(packets) /\ m # 0 /\ m \in 1 .. m /\ m \in 1 .. Len(traffic)
  BY <1>3
<1>5. sent \cup {x.id} \subseteq FirstIDs(m)
  BY <1>2, <1>4 DEF FirstIDs
<1>6. Reaches(<< x.id >>, sent \cup {x.id}, p)
  BY <1>2, <1>4, <1>5 DEF Reaches, LastIs
<1>7. ASSUME NEW y \in Left(t)
      PROVE  \E n \in p + 1 .. Len(packets) : y = traffic[n] /\ sent \cup {x.id} \subseteq FirstIDs(n)
  <2>1. PICK n \in p + 1 .. Len(packets) : y = traffic[n]
    BY <1>1 DEF GoesBeyond
  <2>2. ~ IsLater(x, y)
    BY <1>1, NextIsFirst DEF x
  <2>3. n \in 1 .. Len(traffic)
    BY <1>3
  <2>4. m <= n
    <3> SUFFICES ASSUME n < m PROVE FALSE
      BY <1>4, <2>3
    <3>1. IsLater(traffic[m], traffic[n])
      BY <1>4, <2>3, TrafficFacts DEF StrictlyInOrder
    <3> QED BY <1>2, <2>1, <2>2, <3>1
  <2>5. FirstIDs(m) \subseteq FirstIDs(n)
    <3>1. \A j \in 1 .. m : j \in 1 .. n
      BY <1>4, <2>3, <2>4
    <3> QED BY <3>1 DEF FirstIDs
  <2> QED BY <1>5, <2>1, <2>5
<1>8. GoesBeyond(Left(t), sent \cup {x.id}, p)
  BY <1>7 DEF GoesBeyond
<1> QED BY <1>6, <1>8 DEF t, x

(* What RunTask begins with goes beyond nothing, ... *)
LEMMA AllBeyond ==
    ASSUME StoredInv, NEW list \in Orders
    PROVE  GoesBeyond(Left(Batches(list)), {}, 0)
<1>1. /\ list \in Seq(Offered)
      /\ \A i \in 1 .. Len(list) : \E j \in 1 .. Len(packets) : list[i] = packets[j]
      /\ \A i \in 1 .. Len(packets) : packets[i] = traffic[i]
  BY TrafficFacts, OrdersProperties DEF StoredInv
<1>2. Left(Batches(list)) = Elems(list)
  BY <1>1, LeftOfBatches
<1>3. ASSUME NEW x \in Elems(list) PROVE \E m \in 0 + 1 .. Len(packets) : x = traffic[m]
  <2>1. PICK i \in 1 .. Len(list) : x = list[i]
    BY <1>3 DEF Elems
  <2>2. PICK j \in 1 .. Len(packets) : list[i] = packets[j]
    BY <1>1
  <2> QED BY <1>1, <2>1, <2>2
<1> QED BY <1>2, <1>3 DEF GoesBeyond

(* ... and what Resume begins with lies behind its cursor. *)
LEMMA TailBeyond ==
    ASSUME StoredInv, StrictlyInOrder, NEW list \in Orders, NEW p \in 0 .. Len(packets),
           NEW from, LastIs(from, p)
    PROVE  GoesBeyond(Left(<< SubSeq(list, IndexAfter(list, from) + 1, Len(list)) >>), {}, p)
<1> DEFINE n == Len(packets)
           i == IndexAfter(list, from)
           q == SubSeq(list, i + 1, Len(list))
<1>1. /\ n \in Nat /\ n <= Len(traffic) /\ Len(traffic) \in Nat
      /\ list \in Seq(Offered) /\ Len(list) = n /\ DOMAIN list = 1 .. n
      /\ \A j \in 1 .. n : list[j] = traffic[j] /\ list[j] \in Offered
  BY TrafficFacts, OrdersProperties, OrderedList DEF StoredInv
<1>2. i = p
  <2>1. CASE p = 0
    <3>1. ~ \E j \in DOMAIN list : << list[j].id >> = from
      BY <2>1 DEF LastIs
    <3> QED BY <2>1, <3>1 DEF IndexAfter
  <2>2. CASE p # 0
    <3>1. p \in 1 .. n /\ p \in 1 .. Len(traffic) /\ from = << traffic[p].id >> /\ list[p] = traffic[p]
      BY <1>1, <2>2 DEF LastIs
    <3>2. PICK j : j = CHOOSE k \in DOMAIN list : << list[k].id >> = from
      OBVIOUS
    <3>3. j \in 1 .. n /\ << list[j].id >> = from /\ i = j
      BY <1>1, <3>1, <3>2 DEF IndexAfter
    <3>4. traffic[j].id = traffic[p].id /\ j \in 1 .. Len(traffic)
      BY <1>1, <3>1, <3>3
    <3> QED BY <3>1, <3>3, <3>4, TrafficFacts
  <2> QED BY <2>1, <2>2
<1> HIDE DEF n, i
<1>3. Len(q) = n - p /\ \A j \in 1 .. n - p : q[j] = traffic[p + j] /\ p + j \in p + 1 .. n
  <2>1. \A j \in p + 1 .. n : list[j] \in Offered
    BY <1>1
  <2>2. p + 1 \in Int /\ n \in Int /\ p \in Nat /\ p <= n
    BY <1>1 DEF n
  <2>3. /\ Len(q) = IF p + 1 <= n THEN n - (p + 1) + 1 ELSE 0
        /\ \A j \in 1 .. n - (p + 1) + 1 : q[j] = list[(p + 1) + j - 1]
    BY <1>1, <1>2, <2>1, <2>2, SubSeqProperties
  <2> HIDE DEF q
  <2>4. Len(q) = n - p
    BY <1>1, <2>2, <2>3
  <2>5. ASSUME NEW j \in 1 .. n - p PROVE q[j] = traffic[p + j] /\ p + j \in p + 1 .. n
    <3>1. j \in 1 .. n - (p + 1) + 1 /\ (p + 1) + j - 1 = p + j /\ p + j \in 1 .. n /\ p + j \in p + 1 .. n
      BY <1>1, <2>2
    <3> QED BY <1>1, <2>3, <3>1
  <2> QED BY <2>4, <2>5
<1> HIDE DEF q
<1>4. ASSUME NEW x \in Left(<< q >>) PROVE \E m \in p + 1 .. n : x = traffic[m]
  <2>1. PICK k \in 1 .. Len(<< q >>) : x \in Elems(<< q >>[k])
    BY <1>4 DEF Left
  <2>2. x \in Elems(q)
    BY <2>1
  <2>3. PICK j \in 1 .. n - p : x = q[j]
    BY <1>3, <2>2 DEF Elems
  <2> QED BY <1>3, <2>3
<1> QED BY <1>4 DEF GoesBeyond, q, i, n

(* A request that takes a step keeps to its course; only a rename moves    *)
(* the cursor, to the last packet the request has put out. *)
LEMMA CourseOfStep ==
    ASSUME ReplayInv, StrictlyInOrder, NEW g \in Savers, Begin(g) \/ Proceed(g), ~ overlapped',
           NEW p \in 0 .. Len(packets), CourseAt(p)
    PROVE  \E q \in 0 .. Len(packets') : CourseAt(q)'
<1> USE DEF ReplayInv
<1>0. /\ DOMAIN job = Savers /\ UNCHANGED <<traffic, packets>> /\ ~ overlapped
      /\ DOMAIN job[g] = JobFields
      /\ \A h \in Savers \ {g} : job'[h].step = "idle"
      /\ DOMAIN files = {"tmp", "main"}
      /\ Len(packets) \in Nat
      /\ TemporaryIsOwn /\ Loadable
      /\ CourseOK(job[g], p) /\ SavesLast(g)
  BY ClientFrame, OneAtWork, TrafficFacts
     DEF ClientsInv, JobInv, JobOK, FilesInv, AloneInv, CourseAt, storeVars
<1>1. ASSUME NEW q \in 0 .. Len(packets), LastIs(SavedLast', q), behind' \subseteq FirstIDs(q),
             NEW j, j = job'[g], CourseOK(j, q), SavesLast(g)'
      PROVE  \E r \in 0 .. Len(packets') : CourseAt(r)'
  <2>1. LastIs(SavedLast, q)' /\ (behind \subseteq FirstIDs(q))'
    BY <1>0, <1>1 DEF LastIs, FirstIDs
  <2>2. CourseOK(job[g], q)'
    BY <1>0, <1>1 DEF CourseOK, Reaches, GoesBeyond, LastIs, FirstIDs
  <2>3. \A h \in Savers \ {g} : CourseOK(job[h], q)' /\ SavesLast(h)'
    BY <1>0 DEF CourseOK, SavesLast
  <2>4. CourseAt(q)'
    BY <1>1, <2>1, <2>2, <2>3 DEF CourseAt
  <2> QED BY <1>0, <2>4
<1>2. ASSUME behind' = behind, files' = files \/ files'.main = files.main,
             NEW j, j = job'[g], CourseOK(j, p), SavesLast(g)'
      PROVE  \E r \in 0 .. Len(packets') : CourseAt(r)'
  <2>1. LastIs(SavedLast', p) /\ behind' \subseteq FirstIDs(p)
    BY <1>2 DEF CourseAt, SavedLast
  <2> QED BY <1>1, <1>2, <2>1
<1>3. ASSUME UNCHANGED <<cursorVars, behind>>, NEW j, j = job'[g], CourseOK(j, p), j.step # "save"
      PROVE  \E r \in 0 .. Len(packets') : CourseAt(r)'
  <2>1. SavesLast(g)'
    BY <1>3 DEF SavesLast
  <2> QED BY <1>2, <1>3, <2>1 DEF cursorVars
<1>4. PICK j : j = job'[g]
  OBVIOUS
<1>5. PICK k, last, sent, b : /\ k = job[g].kind /\ last = job[g].last /\ sent = job[g].sent
                              /\ b = job[g].batches
  OBVIOUS
<1>6. job[g].step # "idle" /\ k \in {"all", "resume"} =>
         /\ Reaches(last, sent, Base(k, p))
         /\ job[g].step = "version" => k = "all"
         /\ job[g].step \in {"version", "emit", "save"} => GoesBeyond(Left(b), sent, Base(k, p))
         /\ job[g].step \in {"refresh", "tail"} => k = "resume" /\ sent = {} /\ LastIs(job[g].from, p)
         /\ job[g].step \in {"emit", "save"} /\ k = "resume" => Len(b) <= 1
  BY <1>0, <1>5 DEF CourseOK
<1>7. LastIs(<< >>, 0) /\ {} \subseteq FirstIDs(0) /\ 0 \in 0 .. Len(packets)
  BY <1>0 DEF LastIs
<1>8. CASE BeginAll(g)
  <2>1. UNCHANGED <<cursorVars, behind>>
    BY <1>8 DEF BeginAll, Enter
  <2>2. PICK list \in Orders :
           /\ j.kind = "all" /\ j.step = "version" /\ j.last = << >> /\ j.sent = {}
           /\ j.batches = Batches(list)
    BY <1>0, <1>4, <1>8 DEF BeginAll, Idle
  <2>3. GoesBeyond(Left(Batches(list)), {}, 0)
    BY AllBeyond
  <2>4. Reaches(<< >>, {}, 0)
    BY <1>7 DEF Reaches
  <2>5. CourseOK(j, p)
    BY <2>2, <2>3, <2>4 DEF CourseOK, Base
  <2> QED BY <1>3, <1>4, <2>1, <2>2, <2>5
<1>9. CASE BeginBatch(g) \/ BeginStream(g)
  <2>1. UNCHANGED <<cursorVars, behind>> /\ j.kind \in {"batch", "stream"} /\ j.step = "emit"
    BY ZenonT(30), <1>0, <1>4, <1>9 DEF BeginBatch, BeginStream, Enter, Idle
  <2>2. CourseOK(j, p)
    BY <2>1 DEF CourseOK
  <2> QED BY <1>3, <1>4, <2>1, <2>2
<1>10. CASE BeginResume(g)
  <2>1. UNCHANGED <<cursorVars, behind>>
    BY <1>10 DEF BeginResume, Enter
  <2>2. /\ j.kind = "resume" /\ j.step = "refresh" /\ j.last = SavedLast /\ j.from = SavedLast
        /\ j.sent = {}
    <3>1. job' = [job EXCEPT ![g] = [Idle EXCEPT !.kind = "resume", !.step = "refresh",
                                                 !.task = <<"replay-resume">>,
                                                 !.from = SavedLast, !.last = SavedLast]]
      BY <1>0, <1>10 DEF BeginResume, SavedLast
    <3>2. j = [Idle EXCEPT !.kind = "resume", !.step = "refresh", !.task = <<"replay-resume">>,
                           !.from = SavedLast, !.last = SavedLast]
      BY <1>0, <1>4, <3>1
    <3> QED BY <3>2 DEF Idle
  <2>3. LastIs(SavedLast, p) /\ p \in p .. Len(packets)
    BY DEF CourseAt
  <2>4. Reaches(j.last, j.sent, p)
    BY <2>2, <2>3 DEF Reaches
  <2>5. CourseOK(j, p)
    BY <2>2, <2>3, <2>4 DEF CourseOK, Base
  <2> QED BY <1>3, <1>4, <2>1, <2>2, <2>5
<1>11. CASE ReadVersion(g)
  <2>1. UNCHANGED <<cursorVars, behind>> /\ job[g].step = "version"
    BY <1>11 DEF ReadVersion, ghostVars
  <2>2. /\ j.kind = k /\ j.step = "emit" /\ j.last = last /\ j.sent = sent /\ j.batches = b
    BY <1>0, <1>4, <1>5, <1>11 DEF ReadVersion, JobFields
  <2>3. CourseOK(j, p)
    BY <1>6, <2>1, <2>2 DEF CourseOK
  <2> QED BY <1>3, <1>4, <2>1, <2>2, <2>3
<1>12. CASE Refresh(g)
  <2>1. UNCHANGED <<cursorVars, behind>> /\ job[g].step = "refresh"
    BY <1>12 DEF Refresh, ghostVars
  <2>2. /\ j.kind = k /\ j.step = "tail" /\ j.last = last /\ j.sent = sent /\ j.batches = b
        /\ j.from = job[g].from
    BY <1>0, <1>4, <1>5, <1>12 DEF Refresh, JobFields
  <2>3. CourseOK(j, p)
    BY <1>6, <2>1, <2>2 DEF CourseOK
  <2> QED BY <1>3, <1>4, <2>1, <2>2, <2>3
<1>13. CASE ReadTail(g)
  <2>1. UNCHANGED <<cursorVars, behind>> /\ job[g].step = "tail"
    BY <1>13 DEF ReadTail, ghostVars
  <2>2. PICK list \in Orders :
           job' = [job EXCEPT
                    ![g].batches = << SubSeq(list, IndexAfter(list, job[g].from) + 1, Len(list)) >>,
                    ![g].step = "emit"]
    BY <1>13 DEF ReadTail
  <2>3. PICK from, t : from = job[g].from /\ t = << SubSeq(list, IndexAfter(list, from) + 1, Len(list)) >>
    OBVIOUS
  <2>4. j.kind = k /\ j.step = "emit" /\ j.last = last /\ j.sent = sent /\ j.batches = t
    BY <1>0, <1>4, <1>5, <2>2, <2>3 DEF JobFields
  <2>5. CASE k \in {"all", "resume"}
    <3>1. k = "resume" /\ sent = {} /\ LastIs(from, p) /\ Reaches(last, sent, Base(k, p))
      BY <1>6, <2>1, <2>3, <2>5
    <3>2. GoesBeyond(Left(t), {}, p)
      BY <2>3, <3>1, TailBeyond
    <3>3. Len(t) <= 1
      BY <2>3
    <3>4. CourseOK(j, p)
      BY <2>4, <3>1, <3>2, <3>3 DEF CourseOK, Base
    <3> QED BY <1>3, <1>4, <2>1, <2>4, <3>4
  <2>6. CASE k \notin {"all", "resume"}
    <3>1. CourseOK(j, p)
      BY <2>4, <2>6 DEF CourseOK
    <3> QED BY <1>3, <1>4, <2>1, <2>4, <3>1
  <2> QED BY <2>5, <2>6
<1>14. CASE Emit(g)
  <2>1. UNCHANGED <<cursorVars, behind>> /\ job[g].step = "emit"
    BY <1>14 DEF Emit, Pending
  <2>2. PICK x, t : x = Head(b)[1] /\ t = [b EXCEPT ![1] = Tail(@)]
    OBVIOUS
  <2>3. /\ j.kind = k /\ j.step = "emit" /\ j.last = << x.id >> /\ j.sent = sent \cup {x.id}
        /\ j.batches = t
    <3>1. /\ j.kind = job[g].kind /\ j.step = job[g].step
          /\ j.last = << Head(job[g].batches)[1].id >>
          /\ j.sent = job[g].sent \cup {Head(job[g].batches)[1].id}
      BY <1>0, <1>4, <1>14 DEF Emit, JobFields
    <3>2. j.batches = [job[g].batches EXCEPT ![1] = Tail(@)]
      BY <1>0, <1>4, <1>14 DEF Emit, JobFields
    <3> QED BY <1>5, <2>1, <2>2, <3>1, <3>2
  <2>4. CASE k \in {"all", "resume"}
    <3>1. /\ GoesBeyond(Left(b), sent, Base(k, p)) /\ (k = "resume" => Len(b) <= 1)
      BY <1>6, <2>1, <2>4
    <3>2. AllInTime(b)
      <4>1. g \in solo
        BY <1>14, OneAtWork, SoloAtWork DEF Proceed
      <4> QED BY <1>0, <1>5, <2>1, <2>4, <4>1 DEF TimeInv
    <3>3. PICK e : Cut(b, e)
      BY <1>5, <2>1 DEF ClientsInv, BatchInv, BatchesOK, Remaining
    <3>4. b # << >> /\ Head(b) # << >> /\ Base(k, p) \in Nat
      BY SMTT(30), <1>0, <1>5, <1>14 DEF Emit, Pending, Base
    <3>5. PICK base : base = Base(k, p)
      OBVIOUS
    <3>6. Reaches(<< x.id >>, sent \cup {x.id}, base) /\ GoesBeyond(Left(t), sent \cup {x.id}, base)
      BY <2>2, <3>1, <3>2, <3>3, <3>4, <3>5, EmitReaches
    <3>7. Len(t) = Len(b)
      BY <2>2, <3>3, <3>4, EmitCut
    <3>8. CourseOK(j, p)
      BY <2>3, <3>1, <3>5, <3>6, <3>7 DEF CourseOK
    <3> QED BY <1>3, <1>4, <2>1, <2>3, <3>8
  <2>5. CASE k \notin {"all", "resume"}
    <3>1. CourseOK(j, p)
      BY <2>3, <2>5 DEF CourseOK
    <3> QED BY <1>3, <1>4, <2>1, <2>3, <3>1
  <2> QED BY <2>4, <2>5
<1>15. CASE OutputFails(g) \/ Finish(g)
  <2>1. UNCHANGED <<cursorVars, behind>> /\ j = Idle
    BY <1>0, <1>4, <1>15 DEF OutputFails, Finish, ghostVars
  <2>2. CourseOK(j, p) /\ j.step = "idle"
    BY <2>1 DEF CourseOK, Idle
  <2> QED BY <1>3, <1>4, <2>1, <2>2
<1>16. CASE SaveError(g)
  <2>1. behind' = behind /\ j = Idle
    BY <1>0, <1>4, <1>16 DEF SaveError, ghostVars
  <2>2. files'.main = files.main
    BY <1>0, <1>16 DEF SaveError, SaveFails, TemporaryIsOwn
  <2>3. CourseOK(j, p) /\ SavesLast(g)'
    BY <1>4, <2>1 DEF CourseOK, SavesLast, Idle
  <2> QED BY <1>2, <1>4, <2>1, <2>2, <2>3
<1>17. CASE EndBatch(g)
  <2>0. behind' = behind /\ job[g].step = "emit"
    BY <1>17 DEF EndBatch, Pending, ghostVars
  <2>1. ASSUME k \in {"all", "resume"}, job' = [job EXCEPT ![g].step = "save"], NEW v,
               BeginSave(g, Cursor(job[g].last, v))
        PROVE  \E r \in 0 .. Len(packets') : CourseAt(r)'
    <3>1. j.kind = k /\ j.step = "save" /\ j.last = last /\ j.sent = sent /\ j.batches = b
      BY <1>0, <1>4, <1>5, <2>1 DEF JobFields
    <3>2. CourseOK(j, p)
      BY <1>6, <2>0, <2>1, <3>1 DEF CourseOK
    <3>3. files' = files /\ saving'[g] = Cursor(last, v)
      BY <1>5, <2>1 DEF BeginSave, FilesInv
    <3>4. SavesLast(g)'
      BY <1>4, <2>1, <3>1, <3>3 DEF SavesLast, Cursor
    <3> QED BY <1>2, <1>4, <2>0, <3>2, <3>3, <3>4
  <2>2. ASSUME k \in {"batch", "stream"}, job' = [job EXCEPT ![g].batches = Tail(@)],
               UNCHANGED cursorVars
        PROVE  \E r \in 0 .. Len(packets') : CourseAt(r)'
    <3>1. j.kind = k /\ j.step = "emit"
      BY <1>0, <1>4, <1>5, <2>0, <2>2 DEF JobFields
    <3>2. CourseOK(j, p)
      BY <2>2, <3>1 DEF CourseOK
    <3> QED BY <1>3, <1>4, <2>0, <2>2, <3>1, <3>2
  <2> QED BY <1>5, <1>17, <2>1, <2>2 DEF EndBatch
<1>18. CASE Save(g)
  <2>0. job[g].step = "save" /\ b # << >> /\ Head(b) = << >>
    BY <1>5, <1>18 DEF Save, ClientsInv, BatchInv
  <2>1. CASE OpenTemporary(g) \/ WriteTemporary(g)
    <3>1. job' = job /\ behind' = behind
      BY <1>18, <2>1 DEF Save, OpenTemporary, WriteTemporary, Rename
    <3>2. files'.main = files.main /\ saving' = saving
      <4>1. CASE OpenTemporary(g)
        BY <1>0, <4>1 DEF OpenTemporary
      <4>2. CASE WriteTemporary(g)
        <5>1. handle[g] = "tmp"
          BY <1>0, <4>2 DEF WriteTemporary, TemporaryIsOwn
        <5> QED BY <1>0, <4>2, <5>1 DEF WriteTemporary
      <4> QED BY <2>1, <4>1, <4>2
    <3>3. CourseOK(j, p) /\ SavesLast(g)'
      BY <1>0, <1>4, <3>1, <3>2 DEF SavesLast
    <3> QED BY <1>2, <1>4, <3>1, <3>2, <3>3
  <2>2. ASSUME Rename(g), job' = [job EXCEPT ![g].batches = Tail(@), ![g].step = "emit"],
               behind' = job[g].sent \cup (IF job[g].kind = "resume" THEN behind ELSE {})
        PROVE  \E r \in 0 .. Len(packets') : CourseAt(r)'
    <3>1. k \in {"all", "resume"}
      BY <1>0, <1>5, <2>0 DEF SavesLast
    <3>2. PICK m \in Base(k, p) .. Len(packets) : LastIs(last, m) /\ sent \subseteq FirstIDs(m)
      BY <1>6, <2>0, <3>1 DEF Reaches
    <3>3. m \in 0 .. Len(packets) /\ m \in m .. Len(packets) /\ (k = "resume" => p <= m)
      BY <1>0, <3>1, <3>2 DEF Base
    <3>4. files'.main = saving[g] /\ saving[g] \in OurCursors /\ saving[g][2] = last
      BY <1>0, <1>5, <2>0, <2>2 DEF Rename, TemporaryIsOwn, FilesInv, SavesLast
    <3>5. SavedLast' = last
      BY <3>4, CursorFacts DEF SavedLast
    <3>6. behind' \subseteq FirstIDs(m)
      <4>1. CASE k = "resume"
        <5>1. behind \subseteq FirstIDs(p) /\ FirstIDs(p) \subseteq FirstIDs(m)
          <6>1. \A i \in 1 .. p : i \in 1 .. m
            BY <1>0, <3>3, <4>1
          <6> QED BY <6>1 DEF CourseAt, FirstIDs
        <5> QED BY <1>5, <2>2, <3>2, <5>1
      <4>2. CASE k # "resume"
        BY <1>5, <2>2, <3>2, <4>2
      <4> QED BY <4>1, <4>2
    <3>7. PICK t : t = Tail(b)
      OBVIOUS
    <3>8. j.kind = k /\ j.step = "emit" /\ j.last = last /\ j.sent = sent /\ j.batches = t
      BY <1>0, <1>4, <1>5, <2>2, <3>7 DEF JobFields
    <3>9. PICK e : Cut(b, e)
      BY <1>5, <2>0 DEF ClientsInv, BatchInv, BatchesOK, Remaining
    <3>10. Left(t) = Left(b) /\ Len(t) + 1 = Len(b) /\ Len(b) \in Nat /\ Len(t) \in Nat
      <4>1. Left(t) = Left(b) /\ Len(t) + 1 = Len(b)
        BY <2>0, <3>7, <3>9, LeftOfTail, TailCut
      <4>2. b \in Seq(Seq(Offered)) /\ Len(b) \in Nat /\ Len(t) \in Nat
        BY <2>0, <3>7, <3>9 DEF Cut
      <4> QED BY <4>1, <4>2
    <3>11. GoesBeyond(Left(t), sent, Base(k, m)) /\ (k = "resume" => Len(t) <= 1)
      <4>1. CASE k = "resume"
        <5>1. Len(b) <= 1 /\ Len(t) = 0
          BY <1>6, <2>0, <3>1, <3>10, <4>1
        <5>2. Left(t) = {}
          BY <5>1 DEF Left
        <5> QED BY <5>1, <5>2 DEF GoesBeyond
      <4>2. CASE k # "resume"
        BY <1>6, <2>0, <3>1, <3>10, <4>2 DEF Base
      <4> QED BY <4>1, <4>2
    <3>12. Reaches(last, sent, Base(k, m))
      <4>1. m \in Base(k, m) .. Len(packets)
        BY <1>0, <3>3 DEF Base
      <4> QED BY <3>2, <4>1 DEF Reaches
    <3>13. CourseOK(j, m)
      BY <3>8, <3>11, <3>12 DEF CourseOK
    <3>14. SavesLast(g)'
      BY <1>4, <3>8 DEF SavesLast
    <3> QED BY <1>1, <1>4, <3>2, <3>3, <3>5, <3>6, <3>13, <3>14
  <2> QED BY <1>18, <2>1, <2>2 DEF Save
<1>19. CASE FinishInner(g)
  <2>1. UNCHANGED <<cursorVars, behind>> /\ job[g].step = "emit"
    BY <1>19 DEF FinishInner, Finished, ghostVars
  <2>2. j.kind = k /\ j.step = "complete" /\ j.last = last /\ j.sent = sent
    BY <1>0, <1>4, <1>5, <1>19 DEF FinishInner, JobFields
  <2>3. CourseOK(j, p)
    BY <1>6, <2>1, <2>2 DEF CourseOK
  <2> QED BY <1>3, <1>4, <2>1, <2>2, <2>3
<1> QED BY <1>8, <1>9, <1>10, <1>11, <1>12, <1>13, <1>14, <1>15, <1>16, <1>17, <1>18, <1>19
        DEF Begin, Proceed

(* Every step keeps the course. *)
LEMMA CourseInvStep ==
    ASSUME ReplayInv, CourseInv, [ReplayNext]_replayVars
    PROVE  CourseInv'
<1> USE DEF ReplayInv
<1>1. ASSUME NEW g \in Savers, Begin(g) \/ Proceed(g) PROVE CourseInv'
  <2>1. UNCHANGED <<crashes, traffic>>
    BY <1>1 DEF Begin, BeginAll, BeginBatch, BeginStream, BeginResume, Enter, Proceed, ReadVersion,
                Refresh, ReadTail, Emit, OutputFails, EndBatch, Save, SaveError, FinishInner, Finish,
                ghostVars
  <2> SUFFICES ASSUME StrictlyInOrder, ~ overlapped', crashes = 0
               PROVE  \E q \in 0 .. Len(packets') : CourseAt(q)'
    BY <2>1 DEF CourseInv, StrictlyInOrder
  <2>2. ~ overlapped
    BY <1>1, OneAtWork
  <2>3. PICK p \in 0 .. Len(packets) : CourseAt(p)
    BY <2>2 DEF CourseInv
  <2> QED BY <1>1, <2>3, CourseOfStep
<1>2. CASE Arrive \/ UNCHANGED replayVars
  <2>1. UNCHANGED <<overlapped, job, traffic, crashes, behind, cursorVars>>
    BY <1>2 DEF Arrive, replayVars, serviceVars, ghostVars
  <2>2. Len(packets) \in Nat /\ Len(packets)' \in Nat /\ Len(packets) <= Len(packets)'
    <3>1. CASE UNCHANGED replayVars
      BY <3>1, TrafficFacts DEF replayVars, storeVars
    <3>2. CASE Arrive
      <4>1. packets' = Append(packets, traffic[Len(packets) + 1])
        BY <3>2 DEF Arrive, Insert
      <4>2. traffic[Len(packets) + 1] \in Offered
        BY <3>2, TrafficFacts DEF Arrive
      <4> QED BY <4>1, <4>2, TrafficFacts
    <3> QED BY <1>2, <3>1, <3>2
  <2> SUFFICES ASSUME StrictlyInOrder, ~ overlapped, crashes = 0
               PROVE  \E q \in 0 .. Len(packets') : CourseAt(q)'
    BY <2>1 DEF CourseInv, StrictlyInOrder
  <2>3. PICK p \in 0 .. Len(packets) : CourseAt(p)
    BY DEF CourseInv
  <2>4. /\ LastIs(SavedLast, p)' /\ (behind \subseteq FirstIDs(p))'
        /\ \A g \in Savers : SavesLast(g)'
    BY <2>1, <2>3 DEF CourseAt, LastIs, SavedLast, FirstIDs, SavesLast, cursorVars
  <2>5. ASSUME NEW last, NEW sent, NEW base \in Nat, Reaches(last, sent, base)
        PROVE  Reaches(last, sent, base)'
    <3>1. \A m \in base .. Len(packets) : m \in base .. Len(packets')
      BY <2>2
    <3> QED BY <2>1, <2>5, <3>1 DEF Reaches, LastIs, FirstIDs
  <2>6. ASSUME NEW left, NEW sent, NEW base \in Nat, GoesBeyond(left, sent, base)
        PROVE  GoesBeyond(left, sent, base)'
    <3>1. \A m \in base + 1 .. Len(packets) : m \in base + 1 .. Len(packets')
      BY <2>2
    <3> QED BY <2>1, <2>6, <3>1 DEF GoesBeyond, FirstIDs
  <2>7. ASSUME NEW j, CourseOK(j, p) PROVE CourseOK(j, p)'
    <3>1. Base(j.kind, p) \in Nat
      BY DEF Base
    <3>2. Base(j.kind, p)' = Base(j.kind, p) /\ Left(j.batches)' = Left(j.batches)
          /\ (LastIs(j.from, p)' <=> LastIs(j.from, p))
      BY <2>1 DEF Base, Left, Elems, LastIs
    <3> QED BY <2>5, <2>6, <2>7, <3>1, <3>2 DEF CourseOK
  <2>8. ASSUME NEW g \in Savers PROVE CourseOK(job[g], p)'
    <3>1. PICK j : j = job[g]
      OBVIOUS
    <3>2. CourseOK(j, p)'
      BY <2>3, <2>7, <3>1 DEF CourseAt
    <3> QED BY <2>1, <3>1, <3>2 DEF CourseOK, Reaches, GoesBeyond, LastIs, FirstIDs
  <2>9. CourseAt(p)'
    BY <2>4, <2>8 DEF CourseAt
  <2> QED BY <2>2, <2>9
<1>3. CASE Crash
  <2>1. crashes' = crashes + 1 /\ crashes \in Nat
    BY <1>3 DEF Crash, CourseInv
  <2> QED BY <2>1 DEF CourseInv
<1> QED BY <1>1, <1>2, <1>3 DEF ReplayNext

(* While packets arrive in time order, requests come one at a time and the *)
(* process goes on, Resume puts out nothing that was put out on the way to *)
(* the cursor, whatever was saved, whatever save failed and however many   *)
(* resumes went before (replay.go, Resume, RunTask and indexAfter). *)
THEOREM ReplayResumesBehindCursor == ReplaySpec => ResumeContinues
<1>1. ReplayInit => CourseInv
  <2> SUFFICES ASSUME ReplayInit PROVE CourseInv
    OBVIOUS
  <2>1. /\ \A g \in Savers : job[g] = Idle
        /\ behind = {} /\ files.main = Absent /\ crashes = 0 /\ packets = << >>
    BY DEF ReplayInit, CursorInit, StoreInit
  <2>2. LastIs(SavedLast, 0) /\ behind \subseteq FirstIDs(0)
    BY <2>1 DEF LastIs, SavedLast
  <2>3. \A g \in Savers : CourseOK(job[g], 0) /\ SavesLast(g)
    BY <2>1 DEF CourseOK, SavesLast, Idle
  <2>4. 0 \in 0 .. Len(packets)
    BY <2>1
  <2> QED BY <2>1, <2>2, <2>3, <2>4 DEF CourseInv, CourseAt
<1>2. ReplayInv /\ CourseInv /\ [ReplayNext]_replayVars => CourseInv'
  BY CourseInvStep
<1>3. ASSUME ReplayInv, CourseInv, NEW g \in Savers, StrictlyInOrder, ~ overlapped, crashes = 0,
             job[g].kind = "resume", Emit(g)
      PROVE  Head(job[g].batches)[1].id \notin behind
  <2> USE <1>3 DEF ReplayInv
  <2>1. PICK p \in 0 .. Len(packets) : CourseAt(p)
    BY DEF CourseInv
  <2>2. job[g].step = "emit" /\ job[g].batches # << >> /\ Head(job[g].batches) # << >>
    BY DEF Emit, Pending
  <2>3. PICK b : b = job[g].batches
    OBVIOUS
  <2>4. PICK e : Cut(b, e)
    BY <2>2, <2>3 DEF ClientsInv, BatchInv, BatchesOK, Remaining
  <2>5. GoesBeyond(Left(b), job[g].sent, p)
    BY <2>1, <2>2, <2>3 DEF CourseAt, CourseOK, Base
  <2>6. Head(b)[1] \in Left(b)
    BY <2>2, <2>3, <2>4, LeftOfEmit
  <2>7. PICK m \in p + 1 .. Len(packets) : Head(b)[1] = traffic[m]
    BY <2>5, <2>6 DEF GoesBeyond
  <2>8. Len(packets) \in Nat /\ Len(packets) <= Len(traffic) /\ Len(traffic) \in Nat
    BY TrafficFacts DEF StoredInv
  <2>9. traffic[m].id \notin FirstIDs(p)
    <3> SUFFICES ASSUME NEW i \in 1 .. p, traffic[m].id = traffic[i].id PROVE FALSE
      BY DEF FirstIDs
    <3>1. m \in 1 .. Len(traffic) /\ i \in 1 .. Len(traffic) /\ i # m
      BY <2>8
    <3> QED BY <3>1, TrafficFacts
  <2> QED BY <2>1, <2>3, <2>7, <2>9 DEF CourseAt
<1>4. ReplayInv /\ CourseInv /\ [ReplayNext]_replayVars =>
         [\A g \in Savers :
             /\ StrictlyInOrder /\ ~ overlapped /\ crashes = 0
             /\ job[g].kind = "resume" /\ Emit(g)
             => Head(job[g].batches)[1].id \notin behind]_replayVars
  BY <1>3
<1> QED BY <1>1, <1>2, <1>4, ReplayInvHolds, PTL DEF ReplaySpec, ResumeContinues

=============================================================================
