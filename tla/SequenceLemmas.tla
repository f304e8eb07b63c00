---------------------------- MODULE SequenceLemmas ----------------------------
(***************************************************************************)
(* What the proofs need to know about sequences and the natural numbers    *)
(* beyond the library: induction over a set, sequences of no particular    *)
(* set, and the flattening of a sequence of sequences.                     *)
(***************************************************************************)
EXTENDS SequencesExt, SequenceTheorems, WellFoundedInduction, TLAPS

(* A set of natural numbers that is not empty has a least element. *)
LEMMA LeastNat ==
    ASSUME NEW T, T \subseteq Nat, T # {}
    PROVE  \E n \in T : \A m \in T : n <= m
<1>1. PICK n \in T : \A m \in T : ~ (<<m, n>> \in OpToRel(<, Nat))
  BY NatLessThanWellFounded, WFMin
<1>2. ASSUME NEW m \in T PROVE n <= m
  <2>1. ~ (<<m, n>> \in OpToRel(<, Nat))
    BY <1>1
  <2>2. ~ (m < n)
    <3>1. <<m, n>> \in Nat \X Nat
      OBVIOUS
    <3> QED BY <2>1, <3>1 DEF OpToRel
  <2> QED BY <2>2
<1> QED BY <1>2

(* Induction, over a set in place of a predicate: a set that holds 0, and  *)
(* n + 1 with every n, holds every natural number. *)
LEMMA NatInductionSet ==
    ASSUME NEW S, 0 \in S, \A n \in Nat : n \in S => n + 1 \in S
    PROVE  Nat \subseteq S
<1> SUFFICES ASSUME Nat \ S # {} PROVE FALSE
  OBVIOUS
<1>1. PICK n \in Nat \ S : \A m \in Nat \ S : n <= m
  BY LeastNat
<1>2. n - 1 \in Nat /\ n - 1 + 1 = n
  BY <1>1
<1>3. n - 1 \in S
  BY <1>1, <1>2
<1> QED BY <1>1, <1>2, <1>3

(* The recursive function that FlattenSeq chooses exists. *)
LEMMA FlattenExists ==
    ASSUME NEW s, NEW n \in Nat
    PROVE  \E f : f = [i \in 1 .. n |-> IF i = 1 THEN s[i] ELSE f[i - 1] \o s[i]]
<1> DEFINE Has(k) == \E f : f = [i \in 1 .. k |-> IF i = 1 THEN s[i] ELSE f[i - 1] \o s[i]]
           S == {k \in Nat : Has(k)}
<1>1. 0 \in S
  <2> DEFINE f == [i \in 1 .. 0 |-> s[i]]
  <2>1. f = [i \in 1 .. 0 |-> IF i = 1 THEN s[i] ELSE f[i - 1] \o s[i]]
    OBVIOUS
  <2> QED BY <2>1
<1>2. ASSUME NEW k \in Nat, k \in S PROVE k + 1 \in S
  <2>1. PICK f : f = [i \in 1 .. k |-> IF i = 1 THEN s[i] ELSE f[i - 1] \o s[i]]
    BY <1>2
  <2> DEFINE g == [i \in 1 .. k + 1 |-> IF i \in 1 .. k THEN f[i]
                     ELSE IF i = 1 THEN s[i] ELSE f[i - 1] \o s[i]]
  <2>2. ASSUME NEW i \in 1 .. k + 1
        PROVE  g[i] = IF i = 1 THEN s[i] ELSE g[i - 1] \o s[i]
    <3>1. CASE i = 1
       BY <2>1, <3>1
    <3>2. CASE i # 1
       <4>1. i - 1 \in 1 .. k /\ g[i-1] = f[i-1]
         BY <3>2
       <4>2. g[i] = f[i-1] \o s[i]
         BY <2>1, <3>2
       <4> QED BY <3>2, <4>1, <4>2
    <3> QED BY <3>1, <3>2
  <2>3. g = [i \in 1 .. k + 1 |-> IF i = 1 THEN s[i] ELSE g[i - 1] \o s[i]]
    <3> DEFINE h == [i \in 1 .. k + 1 |-> IF i = 1 THEN s[i] ELSE g[i - 1] \o s[i]]
    <3>1. DOMAIN g = 1 .. k + 1 /\ DOMAIN h = 1 .. k + 1
      OBVIOUS
    <3>2. \A i \in 1 .. k + 1 : g[i] = h[i]
      BY <2>2
    <3>3. g = [i \in 1 .. k + 1 |-> g[i]] /\ h = [i \in 1 .. k + 1 |-> h[i]]
      OBVIOUS
    <3> HIDE DEF g, h
    <3>4. g = h
      BY <3>2, <3>3
    <3> QED BY <3>4 DEF h
  <2> HIDE DEF g
  <2>4. \E h : h = [i \in 1 .. k + 1 |-> IF i = 1 THEN s[i] ELSE h[i - 1] \o s[i]]
    BY <2>3, Zenon
  <2>5. Has(k + 1)
    BY <2>4
  <2> HIDE DEF Has
  <2> QED BY <2>5
<1>3. Nat \subseteq S
  <2> HIDE DEF S
  <2> QED BY <1>1, <1>2, NatInductionSet
<1> QED BY <1>3

(* That function in steps: it adds one sequence after the other, and       *)
(* FlattenSeq is its last value. *)
LEMMA FlattenStep ==
    ASSUME NEW s, Len(s) \in Nat, Len(s) # 0
    PROVE  \E f : /\ f[1] = s[1]
                  /\ \A i \in 1 .. Len(s) - 1 : f[i + 1] = f[i] \o s[i + 1]
                  /\ FlattenSeq(s) = f[Len(s)]
<1> DEFINE fl == CHOOSE f : f = [i \in 1 .. Len(s) |-> IF i = 1 THEN s[i] ELSE f[i - 1] \o s[i]]
<1>1. fl = [i \in 1 .. Len(s) |-> IF i = 1 THEN s[i] ELSE fl[i - 1] \o s[i]]
  <2>1. \E f : f = [i \in 1 .. Len(s) |-> IF i = 1 THEN s[i] ELSE f[i - 1] \o s[i]]
    BY FlattenExists
  <2> QED BY <2>1, Zenon
<1>2. FlattenSeq(s) = fl[Len(s)]
  BY DEF FlattenSeq
<1> HIDE DEF fl
<1>3. fl[1] = s[1]
  BY <1>1
<1>4. ASSUME NEW i \in 1 .. Len(s) - 1 PROVE fl[i + 1] = fl[i] \o s[i + 1]
  <2>1. i + 1 \in 1 .. Len(s) /\ i + 1 # 1 /\ (i + 1) - 1 = i
    OBVIOUS
  <2> QED BY <1>1, <2>1
<1> QED BY <1>2, <1>3, <1>4

(* FlattenSeq of sequences over a set is a sequence over that set. *)
LEMMA FlattenType ==
    ASSUME NEW T, NEW s \in Seq(Seq(T))
    PROVE  FlattenSeq(s) \in Seq(T)
<1>1. CASE Len(s) = 0
  <2>1. s = << >>
    BY <1>1
  <2>2. FlattenSeq(s) = << >>
    BY <1>1, <2>1 DEF FlattenSeq
  <2> QED BY <2>2
<1>2. CASE Len(s) # 0
  <2>0. Len(s) \in Nat
    OBVIOUS
  <2>1. PICK f : /\ f[1] = s[1]
                 /\ \A i \in 1 .. Len(s) - 1 : f[i + 1] = f[i] \o s[i + 1]
                 /\ FlattenSeq(s) = f[Len(s)]
    BY <1>2, <2>0, FlattenStep
  <2> DEFINE S == {k \in Nat : k \in 1 .. Len(s) => f[k] \in Seq(T)}
  <2>2. 0 \in S
    OBVIOUS
  <2>3. ASSUME NEW k \in Nat, k \in S PROVE k + 1 \in S
    <3> SUFFICES ASSUME k + 1 \in 1 .. Len(s) PROVE f[k + 1] \in Seq(T)
      OBVIOUS
    <3>1. s[k + 1] \in Seq(T)
      OBVIOUS
    <3>2. CASE k = 0
      <4>1. f[k + 1] = s[k + 1]
        BY <2>1, <3>2
      <4> QED BY <3>1, <4>1
    <3>3. CASE k # 0
      <4>1. f[k + 1] = f[k] \o s[k + 1]
        <5>1. k \in 1 .. Len(s) - 1
          BY <2>0, <3>3
        <5> QED BY <2>1, <5>1
      <4>2. f[k] \in Seq(T)
        BY <2>3, <3>3
      <4> QED BY <3>1, <4>1, <4>2
    <3> QED BY <3>2, <3>3
  <2> HIDE DEF S
  <2>4. Nat \subseteq S
    BY <2>2, <2>3, NatInductionSet
  <2>5. Len(s) \in S /\ Len(s) \in 1 .. Len(s)
    BY <1>2, <2>0, <2>4
  <2> QED BY <2>1, <2>5 DEF S
<1> QED BY <1>1, <1>2

-----------------------------------------------------------------------------
(* A sequence of no particular set *)
IsSeq(q) == q \in Seq(Range(q))

(* Whatever it is a sequence of, it is one of its own elements. *)
LEMMA SeqIsSeq ==
    ASSUME NEW S, NEW q \in Seq(S)
    PROVE  IsSeq(q)
BY SeqOfRange DEF IsSeq

(* The empty sequence, as Drain leaves it. *)
LEMMA EmptyIsSeq == IsSeq(<< >>) /\ Range(<< >>) = {}
BY DEF IsSeq, Range

(* A sequence of one element, as Feed returns it. *)
LEMMA SingleIsSeq ==
    ASSUME NEW e
    PROVE  IsSeq(<< e >>) /\ Range(<< e >>) = {e}
BY DEF IsSeq, Range

(* Append, as a Put does it. *)
LEMMA AppendIsSeq ==
    ASSUME NEW q, IsSeq(q), NEW e
    PROVE  IsSeq(Append(q, e)) /\ Range(Append(q, e)) = Range(q) \cup {e}
<1> DEFINE S == Range(q) \cup {e}
<1>1. q \in Seq(S) /\ e \in S
  BY SeqMonotonic DEF IsSeq
<1> HIDE DEF S
<1>2. /\ Append(q, e) \in Seq(S)
      /\ Len(q) \in Nat
      /\ DOMAIN q = 1 .. Len(q)
      /\ DOMAIN Append(q, e) = 1 .. Len(q) + 1
      /\ \A i \in 1 .. Len(q) : Append(q, e)[i] = q[i]
      /\ Append(q, e)[Len(q) + 1] = e
  BY <1>1, AppendProperties, LenProperties
<1>3. Range(Append(q, e)) = Range(q) \cup {e}
  BY <1>2 DEF Range
<1> QED BY <1>2, <1>3, SeqIsSeq

(* Concatenation, as Drain and the flush do it. *)
LEMMA ConcatIsSeq ==
    ASSUME NEW p, IsSeq(p), NEW q, IsSeq(q)
    PROVE  IsSeq(p \o q) /\ Range(p \o q) = Range(p) \cup Range(q)
<1> DEFINE S == Range(p) \cup Range(q)
<1>1. p \in Seq(S) /\ q \in Seq(S)
  BY SeqMonotonic DEF IsSeq
<1> HIDE DEF S
<1>2. p \o q \in Seq(S) /\ Range(p \o q) = Range(p) \cup Range(q)
  BY <1>1, ConcatProperties, RangeConcatenation
<1> QED BY <1>2, SeqIsSeq

(* Taking the first element, as the loop over the puts does. *)
LEMMA TailIsSeq ==
    ASSUME NEW q, IsSeq(q), q # << >>
    PROVE  /\ IsSeq(Tail(q))
           /\ Head(q) \in Range(q)
           /\ Range(q) = {Head(q)} \cup Range(Tail(q))
<1> DEFINE S == Range(q)
<1>1. q \in Seq(S)
  BY DEF IsSeq
<1>2. /\ Tail(q) \in Seq(S)
      /\ Head(q) = q[1]
      /\ Len(q) \in Nat \ {0}
      /\ DOMAIN q = 1 .. Len(q)
      /\ DOMAIN Tail(q) = 1 .. Len(q) - 1
      /\ \A i \in 1 .. Len(q) - 1 : Tail(q)[i] = q[i + 1]
  <2> HIDE DEF S
  <2> QED BY <1>1
<1>3. Range(q) \subseteq {Head(q)} \cup Range(Tail(q))
  <2> SUFFICES ASSUME NEW i \in 1 .. Len(q), i # 1 PROVE q[i] \in Range(Tail(q))
    BY <1>2 DEF Range
  <2>1. i - 1 \in DOMAIN Tail(q) /\ Tail(q)[i - 1] = q[i]
    BY <1>2
  <2> QED BY <2>1 DEF Range
<1>4. {Head(q)} \cup Range(Tail(q)) \subseteq Range(q)
  BY <1>2 DEF Range
<1> QED BY <1>2, <1>3, <1>4, SeqIsSeq

(* What a flattened sequence holds, one of its parts held. *)
LEMMA FlattenIsSeq ==
    ASSUME NEW n \in Nat, NEW s, DOMAIN s = 1 .. n, Len(s) = n,
           s = [i \in 1 .. n |-> s[i]], \A i \in 1 .. n : IsSeq(s[i])
    PROVE  IsSeq(FlattenSeq(s))
           /\ \A x \in Range(FlattenSeq(s)) : \E i \in 1 .. n : x \in Range(s[i])
<1> DEFINE T == UNION {Range(s[i]) : i \in 1 .. n}
<1>1. ASSUME NEW i \in 1 .. n PROVE s[i] \in Seq(T)
  <2>1. Range(s[i]) \subseteq T
    OBVIOUS
  <2> HIDE DEF T
  <2> QED BY <2>1, SeqMonotonic DEF IsSeq
<1> HIDE DEF T
<1>2. s \in Seq(Seq(T))
  BY <1>1
<1>3. FlattenSeq(s) \in Seq(T)
  BY <1>2, FlattenType
<1>4. Range(FlattenSeq(s)) \subseteq T
  BY <1>3, RangeOfSeq
<1> QED BY <1>3, <1>4, SeqIsSeq DEF T

-----------------------------------------------------------------------------
(* Flattening a sequence whose parts hold one element at most: pos tells    *)
(* which part an element of q comes from.                                   *)
Picks(q, s, n, pos) ==
    /\ IsSeq(q)
    /\ \A k \in 1 .. Len(q) : pos[k] \in 1 .. n /\ s[pos[k]] = << q[k] >>
    /\ \A k, l \in 1 .. Len(q) : k < l => pos[k] < pos[l]
    /\ \A i \in 1 .. n : s[i] = << >> \/ \E k \in 1 .. Len(q) : pos[k] = i

(* One part more. *)
LEMMA PicksStep ==
    ASSUME NEW q, NEW s, NEW n \in Nat, NEW pos, Picks(q, s, n, pos),
           s[n + 1] = << >> \/ \E e : s[n + 1] = << e >>
    PROVE  \E p : Picks(q \o s[n + 1], s, n + 1, p)
<1>0. /\ IsSeq(q) /\ Len(q) \in Nat
      /\ \A k \in 1 .. Len(q) : pos[k] \in 1 .. n /\ s[pos[k]] = << q[k] >>
      /\ \A k, l \in 1 .. Len(q) : k < l => pos[k] < pos[l]
      /\ \A i \in 1 .. n : s[i] = << >> \/ \E k \in 1 .. Len(q) : pos[k] = i
  BY LenProperties DEF Picks, IsSeq
<1>1. CASE s[n + 1] = << >>
  <2>1. q \o s[n + 1] = q
    BY <1>0, <1>1, ConcatEmptySeq DEF IsSeq
  <2>2. \A i \in 1 .. n + 1 : s[i] = << >> \/ \E k \in 1 .. Len(q) : pos[k] = i
    BY <1>0, <1>1
  <2>3. \A k \in 1 .. Len(q) : pos[k] \in 1 .. n + 1
    BY <1>0
  <2>4. Picks(q, s, n + 1, pos)
    BY <1>0, <2>2, <2>3, Zenon DEF Picks
  <2> QED BY <2>1, <2>4
<1>2. CASE \E e : s[n + 1] = << e >>
  <2>1. PICK e : s[n + 1] = << e >>
    BY <1>2
  <2>2. PICK r : r = q \o << e >>
    OBVIOUS
  <2>3. /\ IsSeq(r) /\ Len(r) = Len(q) + 1
        /\ \A k \in 1 .. Len(q) : r[k] = q[k]
        /\ r[Len(q) + 1] = e
    <3> DEFINE S == Range(q) \cup {e}
    <3>1. q \in Seq(S) /\ << e >> \in Seq(S) /\ Len(<< e >>) = 1 /\ << e >>[1] = e
      BY <1>0, SeqMonotonic DEF IsSeq
    <3> HIDE DEF S
    <3>2. /\ r \in Seq(S) /\ Len(r) = Len(q) + 1
          /\ \A k \in 1 .. Len(q) : r[k] = q[k]
          /\ r[Len(q) + 1] = e
      BY <1>0, <2>2, <3>1
    <3> QED BY <3>2, SeqIsSeq
  <2>4. PICK p : p = [k \in 1 .. Len(r) |-> IF k = Len(q) + 1 THEN n + 1 ELSE pos[k]]
    OBVIOUS
  <2>5. /\ \A k \in 1 .. Len(q) : p[k] = pos[k]
        /\ p[Len(q) + 1] = n + 1
    BY <1>0, <2>3, <2>4
  <2>6. \A k \in 1 .. Len(r) : k \in 1 .. Len(q) \/ k = Len(q) + 1
    BY <1>0, <2>3
  <2>7. ASSUME NEW k \in 1 .. Len(r)
        PROVE  p[k] \in 1 .. n + 1 /\ s[p[k]] = << r[k] >>
    <3>1. CASE k \in 1 .. Len(q)
      <4>1. p[k] = pos[k] /\ r[k] = q[k] /\ pos[k] \in 1 .. n /\ s[pos[k]] = << q[k] >>
        BY <1>0, <2>3, <2>5, <3>1
      <4> QED BY <4>1
    <3>2. CASE k = Len(q) + 1
      BY <2>1, <2>3, <2>5, <3>2
    <3> QED BY <2>6, <3>1, <3>2
  <2>8. ASSUME NEW k \in 1 .. Len(r), NEW l \in 1 .. Len(r), k < l PROVE p[k] < p[l]
    <3>1. k \in 1 .. Len(q)
      BY <1>0, <2>3, <2>8
    <3>2. p[k] = pos[k] /\ pos[k] \in 1 .. n
      BY <1>0, <2>5, <3>1
    <3>3. CASE l \in 1 .. Len(q)
      BY <1>0, <2>5, <2>8, <3>1, <3>2, <3>3
    <3>4. CASE l = Len(q) + 1
      BY <2>5, <3>2, <3>4
    <3> QED BY <2>6, <3>3, <3>4
  <2>9. ASSUME NEW i \in 1 .. n + 1
        PROVE  s[i] = << >> \/ \E k \in 1 .. Len(r) : p[k] = i
    <3>1. CASE i = n + 1
      <4>1. Len(q) + 1 \in 1 .. Len(r)
        BY <1>0, <2>3
      <4> QED BY <2>5, <3>1, <4>1
    <3>2. CASE i \in 1 .. n /\ s[i] # << >>
      <4>1. PICK k \in 1 .. Len(q) : pos[k] = i
        BY <1>0, <3>2
      <4>2. k \in 1 .. Len(r) /\ p[k] = i
        BY <1>0, <2>3, <2>5, <4>1
      <4> QED BY <4>2
    <3> QED BY <3>1, <3>2
  <2>10. Picks(r, s, n + 1, p)
    BY <2>3, <2>7, <2>8, <2>9 DEF Picks
  <2> QED BY <2>1, <2>2, <2>10
<1> QED BY <1>1, <1>2

(* FlattenSeq keeps the order of the parts and loses none. *)
LEMMA FlattenPicks ==
    ASSUME NEW n \in Nat, NEW s, DOMAIN s = 1 .. n, Len(s) = n,
           s = [i \in 1 .. n |-> s[i]],
           \A i \in 1 .. n : s[i] = << >> \/ \E e : s[i] = << e >>
    PROVE  \E pos : Picks(FlattenSeq(s), s, n, pos)
<1>0. ASSUME NEW q, IsSeq(q), Len(q) = 0 PROVE Picks(q, s, 0, q)
  BY <1>0 DEF Picks
<1>1. CASE n = 0
  <2>1. s = << >>
    BY <1>1
  <2>2. FlattenSeq(s) = << >>
    BY <1>1, <2>1 DEF FlattenSeq
  <2> QED BY <1>0, <1>1, <2>2, EmptyIsSeq
<1>2. CASE n # 0
  <2>1. PICK f : /\ f[1] = s[1]
                 /\ \A i \in 1 .. n - 1 : f[i + 1] = f[i] \o s[i + 1]
                 /\ FlattenSeq(s) = f[n]
    BY <1>2, FlattenStep
  <2> DEFINE Has(k) == \E pos : Picks(f[k], s, k, pos)
             S == {k \in Nat : k \in 1 .. n => Has(k)}
  <2>2. 0 \in S
    OBVIOUS
  <2>3. ASSUME NEW k \in Nat, k \in S PROVE k + 1 \in S
    <3> SUFFICES ASSUME k + 1 \in 1 .. n PROVE Has(k + 1)
      <4> HIDE DEF Has
      <4> QED OBVIOUS
    <3>0. s[k + 1] = << >> \/ \E e : s[k + 1] = << e >>
      OBVIOUS
    <3>1. CASE k = 0
      <4>1. \E p : Picks(<< >> \o s[k + 1], s, k + 1, p)
        BY <1>0, <3>0, <3>1, EmptyIsSeq, PicksStep
      <4>2. << >> \o s[k + 1] = s[k + 1] /\ f[k + 1] = s[k + 1]
        BY <2>1, <3>0, <3>1
      <4> QED BY <4>1, <4>2
    <3>2. CASE k # 0
      <4>1. f[k + 1] = f[k] \o s[k + 1]
        <5>1. k \in 1 .. n - 1
          BY <3>2
        <5> QED BY <2>1, <5>1
      <4>2. Has(k)
        <5>1. k \in 1 .. n
          BY <3>2
        <5> QED BY <2>3, <5>1
      <4>3. \E p : Picks(f[k] \o s[k + 1], s, k + 1, p)
        BY <3>0, <4>2, PicksStep
      <4> QED BY <4>1, <4>3
    <3> QED BY <3>1, <3>2
  <2> HIDE DEF S
  <2>4. Nat \subseteq S
    BY <2>2, <2>3, NatInductionSet
  <2>5. n \in S /\ n \in 1 .. n
    BY <1>2, <2>4
  <2> QED BY <2>1, <2>5 DEF S
<1> QED BY <1>1, <1>2

-----------------------------------------------------------------------------
(* Folds.  FoldLeft chooses a function on the sets of positions that takes *)
(* the greatest one off in each round.                                     *)

(* The greatest element of an initial segment and of its subsets. *)
LEMMA MaxOfSubset ==
    ASSUME NEW n \in Nat, NEW T, T \subseteq 0 .. n, T # {}
    PROVE  Max(T) \in T /\ \A i \in T : i <= Max(T)
<1>1. \E x \in T : \A y \in T : x >= y
  <2> DEFINE D == {n - x : x \in T}
  <2>1. D \subseteq Nat /\ D # {}
    <3>1. \A x \in T : n - x \in Nat
      OBVIOUS
    <3> QED BY <3>1
  <2> HIDE DEF D
  <2>2. PICK d \in D : \A m \in D : d <= m
    BY <2>1, LeastNat
  <2> USE DEF D
  <2>3. PICK x \in T : d = n - x
    OBVIOUS
  <2>4. \A y \in T : x >= y
    <3> TAKE y \in T
    <3>1. n - x <= n - y
      BY <2>2, <2>3
    <3> QED BY <3>1
  <2> QED BY <2>4
<1> QED BY <1>1 DEF Max

(* The last of the first k is k itself. *)
LEMMA MaxOfInterval ==
    ASSUME NEW n \in Nat, NEW k \in 1 .. n, NEW T, T \subseteq 1 .. k, k \in T
    PROVE  Max(T) = k
<1>1. T \subseteq 0 .. n
  OBVIOUS
<1>2. Max(T) \in T /\ \A i \in T : i <= Max(T)
  BY <1>1, MaxOfSubset
<1>3. Max(T) \in 1 .. k /\ k <= Max(T)
  BY <1>2
<1> QED BY <1>3

(* The first k positions as a fold sees them *)
LEMMA FirstPositions ==
    ASSUME NEW n \in Nat, NEW k \in 1 .. n
    PROVE  /\ 1 .. k \in SUBSET (1 .. n)
           /\ 1 .. k # {}
           /\ Max(1 .. k) = k
           /\ (1 .. k) \ {k} = 1 .. k - 1
<1>1. k \in 1 .. k /\ 1 .. k \in SUBSET (1 .. n)
  OBVIOUS
<1>2. Max(1 .. k) = k
  BY <1>1, MaxOfInterval
<1>3. \A j : j \in (1 .. k) \ {k} <=> j \in 1 .. k - 1
  OBVIOUS
<1>4. (1 .. k) \ {k} = 1 .. k - 1
  BY <1>3
<1> QED BY <1>1, <1>2, <1>4

(* A function that a fold may choose: G says what a round does with the    *)
(* position and the value so far, both of which it takes as a pair.        *)
IsFold(f, n, base, G) ==
    f = [s \in SUBSET (1 .. n) |->
           IF s = {} THEN base ELSE G[<<Max(s), f[s \ {Max(s)}]>>]]

(* Such a function exists, and its values are those of the rounds. *)
LEMMA FoldExists ==
    ASSUME NEW n \in Nat, NEW D, NEW base \in D, NEW G \in [(1 .. n) \X D -> D]
    PROVE  \E f \in [SUBSET (1 .. n) -> D] : IsFold(f, n, base, G)
<1> DEFINE Has(k) == \E f \in [SUBSET (1 .. k) -> D] : IsFold(f, k, base, G)
           S == {k \in Nat : k <= n => Has(k)}
<1>1. 0 \in S
  <2> DEFINE f == [s \in SUBSET (1 .. 0) |-> base]
  <2>1. \A s \in SUBSET (1 .. 0) : s = {}
    OBVIOUS
  <2>2. f \in [SUBSET (1 .. 0) -> D] /\ IsFold(f, 0, base, G)
    BY <2>1 DEF IsFold
  <2> HIDE DEF f
  <2>3. Has(0)
    BY <2>2
  <2> HIDE DEF Has
  <2> QED BY <2>3
<1>2. ASSUME NEW k \in Nat, k \in S PROVE k + 1 \in S
  <2> SUFFICES ASSUME k + 1 <= n PROVE Has(k + 1)
    <3> HIDE DEF Has
    <3> QED OBVIOUS
  <2>0. Has(k)
    <3> HIDE DEF Has
    <3> QED BY <1>2
  <2>1. PICK f \in [SUBSET (1 .. k) -> D] : IsFold(f, k, base, G)
    BY <2>0
  <2> DEFINE g == [s \in SUBSET (1 .. k + 1) |->
                     IF k + 1 \in s THEN G[<<k + 1, f[s \ {k + 1}]>>] ELSE f[s]]
             h == [s \in SUBSET (1 .. k + 1) |->
                     IF s = {} THEN base ELSE G[<<Max(s), g[s \ {Max(s)}]>>]]
  <2>2. ASSUME NEW s \in SUBSET (1 .. k + 1) PROVE g[s] = h[s] /\ g[s] \in D
    <3>1. CASE k + 1 \in s
      <4>1. Max(s) = k + 1
        <5>1. k + 1 \in Nat /\ k + 1 \in 1 .. k + 1
          OBVIOUS
        <5> QED BY <3>1, <5>1, MaxOfInterval
      <4>2. /\ s \ {k + 1} \in SUBSET (1 .. k + 1) /\ k + 1 \notin s \ {k + 1}
            /\ s \ {k + 1} \in SUBSET (1 .. k)
        OBVIOUS
      <4>3. g[s \ {k + 1}] = f[s \ {k + 1}] /\ f[s \ {k + 1}] \in D
        BY <4>2
      <4>4. k + 1 \in 1 .. n
        OBVIOUS
      <4>5. G[<<k + 1, f[s \ {k + 1}]>>] \in D
        BY <4>3, <4>4
      <4> QED BY <3>1, <4>1, <4>3, <4>5
    <3>2. CASE k + 1 \notin s
      <4>1. s \in SUBSET (1 .. k) /\ g[s] = f[s] /\ f[s] \in D
        BY <3>2
      <4>2. CASE s = {}
        BY <2>1, <4>1, <4>2 DEF IsFold
      <4>3. CASE s # {}
        <5>1. Max(s) \in s
          <6>1. s \subseteq 0 .. k
            BY <4>1
          <6> QED BY <4>3, <6>1, MaxOfSubset
        <5>2. s \ {Max(s)} \in SUBSET (1 .. k + 1) /\ k + 1 \notin s \ {Max(s)}
          BY <3>2
        <5>3. g[s \ {Max(s)}] = f[s \ {Max(s)}]
          BY <5>2
        <5>4. f[s] = G[<<Max(s), f[s \ {Max(s)}]>>]
          BY <2>1, <4>1, <4>3 DEF IsFold
        <5>5. h[s] = G[<<Max(s), g[s \ {Max(s)}]>>]
          BY <4>3
        <5> HIDE DEF g, h
        <5> QED BY <4>1, <5>3, <5>4, <5>5
      <4> QED BY <4>2, <4>3
    <3> QED BY <3>1, <3>2
  <2>3. g = [s \in SUBSET (1 .. k + 1) |-> g[s]] /\ h = [s \in SUBSET (1 .. k + 1) |-> h[s]]
    OBVIOUS
  <2>4. g = h /\ g \in [SUBSET (1 .. k + 1) -> D]
    <3> HIDE DEF g, h
    <3> QED BY <2>2, <2>3
  <2>5. IsFold(g, k + 1, base, G)
    <3> HIDE DEF g
    <3> QED BY <2>4 DEF IsFold
  <2> HIDE DEF g
  <2> QED BY <2>4, <2>5
<1>3. Nat \subseteq S
  <2> HIDE DEF S
  <2> QED BY <1>1, <1>2, NatInductionSet
<1>4. Has(n)
  <2> HIDE DEF Has
  <2> QED BY <1>3
<1> QED BY <1>4

(* What holds of the base and is handed on by every round holds at the end.*)
LEMMA FoldInduction ==
    ASSUME NEW n \in Nat, NEW f, NEW W, f[{}] \in W[0],
           \A k \in 1 .. n : f[1 .. k - 1] \in W[k - 1] => f[1 .. k] \in W[k]
    PROVE  f[1 .. n] \in W[n]
<1> DEFINE S == {k \in Nat : k <= n => f[1 .. k] \in W[k]}
<1>1. 0 \in S
  <2>1. 1 .. 0 = {}
    OBVIOUS
  <2> QED BY <2>1
<1>2. ASSUME NEW k \in Nat, k \in S PROVE k + 1 \in S
  <2>1. CASE k + 1 <= n
    <3>1. k + 1 \in 1 .. n /\ (k + 1) - 1 = k /\ k <= n
      BY <2>1
    <3>2. f[1 .. k] \in W[k]
      BY <1>2, <3>1
    <3>3. f[1 .. k + 1] \in W[k + 1]
      BY <3>1, <3>2
    <3> QED BY <3>3
  <2> QED BY <2>1
<1>3. Nat \subseteq S
  <2> HIDE DEF S
  <2> QED BY <1>1, <1>2, NatInductionSet
<1> QED BY <1>3

=============================================================================
