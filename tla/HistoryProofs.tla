---------------------------- MODULE HistoryProofs ----------------------------
(***************************************************************************)
(* Where every piece of payload fed to the reassembler goes, for every set *)
(* of packets, every window limit and every order of arrival: the results  *)
(* the assembler puts together, and the windows that still hold the rest.  *)
(***************************************************************************)
EXTENDS AssemblerHistory, AssemblerProofs

(* The i-th of the packets f is a fragment of that datagram. *)
Frag(f, i, stream, seq) ==
    /\ i \in DOMAIN f
    /\ f[i].isFragment
    /\ f[i].stream = stream
    /\ f[i].seq = seq

(* A window of the stream is made of fragments among the packets f: each   *)
(* offset was fed for its datagram, what is kept under it is the number of *)
(* that fragment or nothing when it had no payload, and one fragment       *)
(* declared the end.                                                       *)
FromFed(f, stream, w) ==
    /\ \A off \in DOMAIN w.frags :
          \E i \in DOMAIN f : /\ Frag(f, i, stream, w.seq)
                              /\ f[i].off = off
                              /\ \/ w.frags[off] = << i >>
                                 \/ w.frags[off] = << >> /\ f[i].payload = << >>
    /\ \E i \in DOMAIN f : /\ Frag(f, i, stream, w.seq)
                           /\ w.end = (f[i].total - 1) % Modulus

(* For every offset below a total that was declared for the datagram, p has*)
(* a fragment with that offset, or the fragment had no payload.            *)
HasAll(f, p, stream, seq) ==
    \E i \in DOMAIN f :
        /\ Frag(f, i, stream, seq)
        /\ \A off \in 0 .. (f[i].total - 1) % Modulus :
              \E j \in DOMAIN f : /\ Frag(f, j, stream, seq) /\ f[j].off = off
                                  /\ f[j].payload = << >> \/ j \in Range(p)

(* The numbers p of a payload: fragments of one datagram, in the order of  *)
(* their offsets.                                                          *)
OneDatagram(f, p, stream, seq) ==
    /\ \A k \in DOMAIN p : Frag(f, p[k], stream, seq)
    /\ \A k, l \in DOMAIN p : k < l => f[p[k]].off < f[p[l]].off

(* What the assembler may put out when the packets f have been fed *)
GoodOut(f, out) ==
    /\ IsAggregate(out) => OneDatagram(f, out.payload, out.stream, out.seq)
    /\ out.id.kind = "reassembled" => HasAll(f, out.payload, out.stream, out.seq)

(* The numbers a window holds, all windows hold, and a list carries *)
Pieces(w) == UNION {Range(w.frags[off]) : off \in DOMAIN w.frags}

Held == UNION {Pieces(entries[s]) : s \in DOMAIN entries}

Carried(q) == UNION {Range(q[k].payload) : k \in DOMAIN q}

(* No two elements of the list carry the same number. *)
Once(q) ==
    \A k, l \in DOMAIN q :
        k # l => Range(q[k].payload) \cap Range(q[l].payload) = {}

-----------------------------------------------------------------------------
(* The inductive invariant *)

FedInv ==
    /\ IsSeq(fed)
    /\ \A i \in DOMAIN fed : IsArrival(fed[i])

WindowsInv == \A s \in DOMAIN entries : FromFed(fed, s, entries[s])

OutputsInv ==
    /\ IsSeq(outputs) /\ IsSeq(pending)
    /\ \A out \in Range(outputs) \cup Range(pending) : GoodOut(fed, out)

(* Every number is in one place: with a window, among the pending results  *)
(* or in the outputs. *)
PlacesInv ==
    /\ Once(outputs) /\ Once(pending)
    /\ Carried(outputs) \cap Carried(pending) = {}
    /\ Held \cap (Carried(outputs) \cup Carried(pending)) = {}
    /\ Carried(outputs) \cup Carried(pending) \subseteq DOMAIN fed

HistoryInv ==
    /\ AsmInv /\ LiveWindowsIncomplete
    /\ FedInv /\ WindowsInv /\ OutputsInv /\ PlacesInv

-----------------------------------------------------------------------------
(* Lists of results *)

(* What a list carries depends on its elements only. *)
LEMMA CarriedIsOfRange ==
    ASSUME NEW q
    PROVE  Carried(q) = UNION {Range(x.payload) : x \in Range(q)}
BY DEF Carried, Range

(* Appending the new results to the outputs loses none and adds no other. *)
LEMMA ConcatCarries ==
    ASSUME NEW p, NEW q, IsSeq(p), IsSeq(q)
    PROVE  Carried(p \o q) = Carried(p) \cup Carried(q)
<1>1. Range(p \o q) = Range(p) \cup Range(q)
  BY ConcatIsSeq
<1> QED BY <1>1, CarriedIsOfRange

(* Two lists that carry different numbers each once do so together. *)
LEMMA ConcatOnce ==
    ASSUME NEW p, NEW q, IsSeq(p), IsSeq(q), Once(p), Once(q),
           Carried(p) \cap Carried(q) = {}
    PROVE  Once(p \o q)
<1> DEFINE r == p \o q
           S == Range(p) \cup Range(q)
<1>1. p \in Seq(S) /\ q \in Seq(S)
  BY SeqMonotonic DEF IsSeq
<1> HIDE DEF S
<1>2. /\ Len(p) \in Nat /\ DOMAIN p = 1 .. Len(p)
      /\ Len(q) \in Nat /\ DOMAIN q = 1 .. Len(q)
      /\ DOMAIN r = 1 .. Len(p) + Len(q)
      /\ \A k \in 1 .. Len(p) : r[k] = p[k]
      /\ \A k \in DOMAIN r : k \notin DOMAIN p =>
            k - Len(p) \in DOMAIN q /\ r[k] = q[k - Len(p)]
  BY <1>1
<1> HIDE DEF r
<1>3. ASSUME NEW k \in DOMAIN r, NEW l \in DOMAIN r, k # l
      PROVE  Range(r[k].payload) \cap Range(r[l].payload) = {}
  <2>1. CASE k \in DOMAIN p /\ l \in DOMAIN p
    BY <1>2, <1>3, <2>1 DEF Once
  <2>2. CASE k \in DOMAIN p /\ l \notin DOMAIN p
    <3>1. r[k] = p[k] /\ r[l] = q[l - Len(p)] /\ l - Len(p) \in DOMAIN q
      BY <1>2, <2>2
    <3>2. Range(r[k].payload) \subseteq Carried(p) /\ Range(r[l].payload) \subseteq Carried(q)
      BY <2>2, <3>1 DEF Carried
    <3> QED BY <3>2
  <2>3. CASE k \notin DOMAIN p /\ l \in DOMAIN p
    <3>1. r[l] = p[l] /\ r[k] = q[k - Len(p)] /\ k - Len(p) \in DOMAIN q
      BY <1>2, <2>3
    <3>2. Range(r[l].payload) \subseteq Carried(p) /\ Range(r[k].payload) \subseteq Carried(q)
      BY <2>3, <3>1 DEF Carried
    <3> QED BY <3>2
  <2>4. CASE k \notin DOMAIN p /\ l \notin DOMAIN p
    <3>1. /\ k - Len(p) \in DOMAIN q /\ r[k] = q[k - Len(p)]
          /\ l - Len(p) \in DOMAIN q /\ r[l] = q[l - Len(p)]
      BY <1>2, <2>4
    <3>2. k - Len(p) # l - Len(p)
      BY <1>2, <1>3
    <3> QED BY <3>1, <3>2 DEF Once
  <2> QED BY <2>1, <2>2, <2>3, <2>4
<1> QED BY <1>3 DEF Once, r

(* Lists of at most one result *)
LEMMA SmallLists ==
    /\ IsSeq(<< >>) /\ Range(<< >>) = {} /\ Carried(<< >>) = {} /\ Once(<< >>)
    /\ \A x : /\ IsSeq(<< x >>) /\ Range(<< x >>) = {x}
              /\ Carried(<< x >>) = Range(x.payload) /\ Once(<< x >>)
<1>1. IsSeq(<< >>) /\ Range(<< >>) = {} /\ Carried(<< >>) = {} /\ Once(<< >>)
  BY EmptyIsSeq DEF Carried, Once
<1>2. ASSUME NEW x
      PROVE  /\ IsSeq(<< x >>) /\ Range(<< x >>) = {x}
             /\ Carried(<< x >>) = Range(x.payload) /\ Once(<< x >>)
  <2>1. DOMAIN << x >> = {1}
    OBVIOUS
  <2>2. Once(<< x >>)
    BY <2>1 DEF Once
  <2>3. IsSeq(<< x >>) /\ Range(<< x >>) = {x}
    BY SingleIsSeq
  <2>4. Carried(<< x >>) = UNION {Range(y.payload) : y \in {x}}
    BY <2>3, CarriedIsOfRange
  <2>5. UNION {Range(y.payload) : y \in {x}} = Range(x.payload)
    OBVIOUS
  <2> QED BY <2>2, <2>3, <2>4, <2>5
<1> QED BY <1>1, <1>2

-----------------------------------------------------------------------------
(* What was said of the packets fed stays true when more are fed. *)
LEMMA FeedingKeeps ==
    ASSUME NEW f, NEW g, DOMAIN f \subseteq DOMAIN g, \A i \in DOMAIN f : g[i] = f[i]
    PROVE  /\ \A s, w : FromFed(f, s, w) => FromFed(g, s, w)
           /\ \A out : GoodOut(f, out) => GoodOut(g, out)
<1>1. \A i, s, n : Frag(f, i, s, n) => Frag(g, i, s, n) /\ g[i] = f[i] /\ i \in DOMAIN f
  BY DEF Frag
<1>2. ASSUME NEW s, NEW w, FromFed(f, s, w) PROVE FromFed(g, s, w)
  <2>1. ASSUME NEW off \in DOMAIN w.frags
        PROVE  \E i \in DOMAIN g : /\ Frag(g, i, s, w.seq)
                                   /\ g[i].off = off
                                   /\ \/ w.frags[off] = << i >>
                                      \/ w.frags[off] = << >> /\ g[i].payload = << >>
    BY <1>1, <1>2 DEF FromFed
  <2>3. \E i \in DOMAIN g : Frag(g, i, s, w.seq) /\ w.end = (g[i].total - 1) % Modulus
    BY <1>1, <1>2 DEF FromFed
  <2> QED BY <2>1, <2>3 DEF FromFed
<1>3. ASSUME NEW p, NEW s, NEW n, OneDatagram(f, p, s, n) PROVE OneDatagram(g, p, s, n)
  BY <1>1, <1>3 DEF OneDatagram
<1>4. ASSUME NEW p, NEW s, NEW n, HasAll(f, p, s, n) PROVE HasAll(g, p, s, n)
  <2>1. PICK i \in DOMAIN f :
            /\ Frag(f, i, s, n)
            /\ \A off \in 0 .. (f[i].total - 1) % Modulus :
                  \E j \in DOMAIN f : /\ Frag(f, j, s, n) /\ f[j].off = off
                                      /\ f[j].payload = << >> \/ j \in Range(p)
    BY <1>4 DEF HasAll
  <2>2. \A off \in 0 .. (g[i].total - 1) % Modulus :
            \E j \in DOMAIN g : /\ Frag(g, j, s, n) /\ g[j].off = off
                                /\ g[j].payload = << >> \/ j \in Range(p)
    BY <1>1, <2>1
  <2> QED BY <1>1, <2>1, <2>2 DEF HasAll
<1> QED BY <1>2, <1>3, <1>4 DEF GoodOut

(* A window assembles to what it holds, in the order of the offsets. *)
LEMMA AssembleCarries ==
    ASSUME NEW f, NEW s, NEW w, w.end \in Nat, DOMAIN w.frags \subseteq 0 .. w.end,
           FromFed(f, s, w)
    PROVE  /\ IsSeq(Assemble(w))
           /\ Range(Assemble(w)) = Pieces(w)
           /\ OneDatagram(f, Assemble(w), s, w.seq)
<1> DEFINE n == w.end + 1
           parts == [i \in 1 .. n |-> IF i - 1 \in DOMAIN w.frags THEN w.frags[i - 1] ELSE << >>]
<1>1. n \in Nat /\ DOMAIN parts = 1 .. n /\ Len(parts) = n /\ parts = [i \in 1 .. n |-> parts[i]]
  OBVIOUS
<1>2. \A i \in 1 .. n : \/ parts[i] = << >>
                        \/ i - 1 \in DOMAIN w.frags /\ parts[i] = w.frags[i - 1]
  OBVIOUS
<1>3. \A off \in DOMAIN w.frags : off + 1 \in 1 .. n /\ parts[off + 1] = w.frags[off]
  <2>1. ASSUME NEW off \in DOMAIN w.frags
        PROVE  off + 1 \in 1 .. n /\ (off + 1) - 1 = off
    OBVIOUS
  <2> QED BY <2>1
<1>4. \A i \in 1 .. n : parts[i] = << >> \/ \E e : parts[i] = << e >>
  BY <1>2 DEF FromFed
<1>5. Assemble(w) = FlattenSeq(parts)
  BY DEF Assemble
<1> HIDE DEF n, parts
<1>6. PICK q : q = Assemble(w)
  OBVIOUS
<1>7. PICK pos : Picks(q, parts, n, pos)
  BY <1>1, <1>4, <1>5, <1>6, FlattenPicks
<1>8. IsSeq(q) /\ DOMAIN q = 1 .. Len(q)
  BY <1>7, LenProperties DEF Picks, IsSeq
<1>9. ASSUME NEW k \in DOMAIN q
      PROVE  /\ pos[k] - 1 \in DOMAIN w.frags
             /\ w.frags[pos[k] - 1] = << q[k] >>
             /\ Frag(f, q[k], s, w.seq)
             /\ f[q[k]].off = pos[k] - 1
  <2>1. pos[k] \in 1 .. n /\ parts[pos[k]] = << q[k] >>
    BY <1>7, <1>8 DEF Picks
  <2>2. pos[k] - 1 \in DOMAIN w.frags /\ w.frags[pos[k] - 1] = << q[k] >>
    <3>1. << q[k] >> # << >>
      OBVIOUS
    <3> QED BY <1>2, <2>1, <3>1
  <2>3. PICK i \in DOMAIN f : /\ << q[k] >> = << i >>
                              /\ Frag(f, i, s, w.seq)
                              /\ f[i].off = pos[k] - 1
    <3>1. << q[k] >> # << >>
      OBVIOUS
    <3>2. ASSUME NEW off \in DOMAIN w.frags, w.frags[off] # << >>
          PROVE  \E i \in DOMAIN f : /\ w.frags[off] = << i >>
                                     /\ Frag(f, i, s, w.seq)
                                     /\ f[i].off = off
      BY <3>2 DEF FromFed
    <3>3. PICK off : off = pos[k] - 1
      OBVIOUS
    <3> QED BY <2>2, <3>1, <3>2, <3>3
  <2>4. i = q[k]
    BY <2>3
  <2> QED BY <2>2, <2>3, <2>4
<1>10. OneDatagram(f, q, s, w.seq)
  <2>1. ASSUME NEW k \in DOMAIN q, NEW l \in DOMAIN q, k < l PROVE f[q[k]].off < f[q[l]].off
    <3>1. pos[k] < pos[l] /\ pos[k] \in 1 .. n /\ pos[l] \in 1 .. n
      BY <1>7, <1>8, <2>1 DEF Picks
    <3>2. pos[k] - 1 < pos[l] - 1
      BY <1>1, <3>1
    <3> QED BY <1>9, <3>2
  <2> QED BY <1>9, <2>1 DEF OneDatagram
<1>11. Range(q) = Pieces(w)
  <2>1. Range(q) \subseteq Pieces(w)
    <3>1. ASSUME NEW k \in DOMAIN q PROVE q[k] \in Pieces(w)
      <4>1. q[k] \in Range(<< q[k] >>)
        BY SingleIsSeq
      <4> QED BY <1>9, <4>1 DEF Pieces
    <3> QED BY <3>1 DEF Range
  <2>2. ASSUME NEW off \in DOMAIN w.frags PROVE Range(w.frags[off]) \subseteq Range(q)
    <3>1. CASE w.frags[off] = << >>
      BY <3>1, EmptyIsSeq
    <3>2. CASE w.frags[off] # << >>
      <4>1. PICK k \in 1 .. Len(q) : pos[k] = off + 1
        BY <1>3, <1>7, <3>2 DEF Picks
      <4>2. << q[k] >> = w.frags[off]
        BY <1>3, <1>7, <4>1 DEF Picks
      <4>3. Range(w.frags[off]) = {q[k]}
        BY <4>2, SingleIsSeq
      <4> QED BY <1>8, <4>1, <4>3 DEF Range
    <3> QED BY <3>1, <3>2
  <2> QED BY <2>1, <2>2 DEF Pieces
<1> QED BY <1>6, <1>8, <1>10, <1>11

-----------------------------------------------------------------------------
(* The results of the windows that end *)

(* What Rest puts out for a window: nothing, or all it holds. *)
LEMMA RestCarries ==
    ASSUME NEW f, NEW s \in DOMAIN entries, WindowsTypeOK, FromFed(f, s, entries[s])
    PROVE  /\ \/ Rest(s) = << >>
              \/ \E x : /\ Rest(s) = << x >> /\ GoodOut(f, x)
                        /\ Range(x.payload) = Pieces(entries[s])
           /\ ~ Complete(entries[s]) /\ Pieces(entries[s]) # {} => Rest(s) # << >>
<1>1. entries[s].end \in Nat /\ DOMAIN entries[s].frags \subseteq 0 .. entries[s].end
  BY PacketsAssumption DEF WindowsTypeOK, UInt32
<1>2. PICK p : p = Assemble(entries[s])
  OBVIOUS
<1>3. /\ IsSeq(p) /\ Range(p) = Pieces(entries[s])
      /\ OneDatagram(f, p, s, entries[s].seq)
  BY <1>1, <1>2, AssembleCarries
<1>4. PICK x : x = Whole("partial", s, entries[s].seq, p)
  OBVIOUS
<1>5. Rest(s) = IF Complete(entries[s]) \/ p = << >> THEN << >> ELSE << x >>
  BY <1>2, <1>4 DEF Rest
<1>6. /\ x.payload = p /\ x.stream = s /\ x.seq = entries[s].seq
      /\ x.id.kind = "partial"
  BY <1>4 DEF Whole
<1>7. GoodOut(f, x)
  BY <1>3, <1>6 DEF GoodOut
<1>8. Pieces(entries[s]) # {} => p # << >>
  BY <1>3, EmptyIsSeq
<1> QED BY <1>3, <1>5, <1>6, <1>7, <1>8

(* A number is held by one window at most: its fragment names the stream. *)
LEMMA PiecesAreOwned ==
    ASSUME NEW f, NEW s, NEW w, FromFed(f, s, w), NEW i \in Pieces(w)
    PROVE  i \in DOMAIN f /\ f[i].stream = s
<1>1. PICK off \in DOMAIN w.frags : i \in Range(w.frags[off])
  BY DEF Pieces
<1>2. w.frags[off] # << >>
  BY <1>1, EmptyIsSeq
<1>3. PICK j \in DOMAIN f : w.frags[off] = << j >> /\ Frag(f, j, s, w.seq)
  BY <1>1, <1>2 DEF FromFed
<1>4. i = j
  BY <1>1, <1>3, SingleIsSeq
<1> QED BY <1>3, <1>4 DEF Frag

(* The live windows of a list of streams *)
Ended(q) == {s \in DOMAIN entries : \E i \in 1 .. Len(q) : q[i] = s}

(* RestOf puts out what those windows hold, each number once. *)
LEMMA RestOfCarries ==
    ASSUME NEW f, NEW q, Len(q) \in Nat, WindowsTypeOK, LiveWindowsIncomplete,
           \A s \in DOMAIN entries : FromFed(f, s, entries[s])
    PROVE  /\ IsSeq(RestOf(q)) /\ Once(RestOf(q))
           /\ \A x \in Range(RestOf(q)) : GoodOut(f, x)
           /\ Carried(RestOf(q)) = UNION {Pieces(entries[s]) : s \in Ended(q)}
<1> DEFINE n == Len(q)
           parts == [i \in 1 .. n |->
                       IF q[i] \in DOMAIN entries /\ IsFirst(q, i) THEN Rest(q[i]) ELSE << >>]
<1>1. n \in Nat /\ DOMAIN parts = 1 .. n /\ Len(parts) = n /\ parts = [i \in 1 .. n |-> parts[i]]
  OBVIOUS
<1>2. \A i \in 1 .. n :
         parts[i] # << >> => q[i] \in DOMAIN entries /\ IsFirst(q, i) /\ parts[i] = Rest(q[i])
  OBVIOUS
<1>3. \A i \in 1 .. n :
         q[i] \in DOMAIN entries /\ IsFirst(q, i) => parts[i] = Rest(q[i])
  OBVIOUS
<1>4. RestOf(q) = FlattenSeq(parts)
  BY DEF RestOf
<1> HIDE DEF parts
<1>5. \A i \in 1 .. n : parts[i] = << >> \/ \E e : parts[i] = << e >>
  BY <1>2, RestCarries
<1>6. PICK r : r = RestOf(q)
  OBVIOUS
<1>7. PICK pos : Picks(r, parts, n, pos)
  BY <1>1, <1>4, <1>5, <1>6, FlattenPicks
<1>8. IsSeq(r) /\ DOMAIN r = 1 .. Len(r) /\ Len(r) \in Nat
  BY <1>7, LenProperties DEF Picks, IsSeq
<1>9. ASSUME NEW k \in DOMAIN r
      PROVE  /\ pos[k] \in 1 .. n /\ q[pos[k]] \in DOMAIN entries /\ IsFirst(q, pos[k])
             /\ GoodOut(f, r[k])
             /\ Range(r[k].payload) = Pieces(entries[q[pos[k]]])
  <2>1. pos[k] \in 1 .. n /\ parts[pos[k]] = << r[k] >> /\ << r[k] >> # << >>
    BY <1>7, <1>8 DEF Picks
  <2>2. q[pos[k]] \in DOMAIN entries /\ IsFirst(q, pos[k]) /\ Rest(q[pos[k]]) = << r[k] >>
    BY <1>2, <2>1
  <2>3. PICK x : /\ << r[k] >> = << x >> /\ GoodOut(f, x)
                 /\ Range(x.payload) = Pieces(entries[q[pos[k]]])
    BY ZenonT(30), <2>1, <2>2, RestCarries
  <2>4. x = r[k]
    BY <2>3
  <2> QED BY <2>1, <2>2, <2>3, <2>4
<1>10. ASSUME NEW k \in DOMAIN r, NEW l \in DOMAIN r, k < l
       PROVE  Range(r[k].payload) \cap Range(r[l].payload) = {}
  <2>1. pos[k] \in 1 .. n /\ pos[l] \in 1 .. n /\ pos[k] < pos[l]
    BY <1>7, <1>8, <1>10 DEF Picks
  <2>2. pos[k] \in 1 .. pos[l] - 1
    BY <1>1, <2>1
  <2>3. q[pos[k]] # q[pos[l]]
    BY <1>9, <2>2 DEF IsFirst
  <2> QED BY <1>9, <2>3, PiecesAreOwned
<1>11. Once(r)
  <2>1. \A k, l \in DOMAIN r : k # l => k < l \/ l < k
    BY <1>8
  <2> QED BY <1>10, <2>1 DEF Once
<1>12. \A x \in Range(r) : GoodOut(f, x)
  BY <1>9 DEF Range
<1>13. Carried(r) \subseteq UNION {Pieces(entries[s]) : s \in Ended(q)}
  <2>1. ASSUME NEW k \in DOMAIN r
        PROVE  Range(r[k].payload) \subseteq UNION {Pieces(entries[s]) : s \in Ended(q)}
    BY <1>9 DEF Ended
  <2> QED BY <2>1 DEF Carried
<1>14. ASSUME NEW s \in Ended(q) PROVE Pieces(entries[s]) \subseteq Carried(r)
  <2> DEFINE T == {i \in 1 .. n : q[i] = s}
  <2>1. T # {} /\ T \subseteq Nat /\ s \in DOMAIN entries
    BY DEF Ended
  <2>2. PICK i \in T : \A j \in T : i <= j
    BY <2>1, LeastNat
  <2>3. i \in 1 .. n /\ q[i] = s /\ IsFirst(q, i)
    <3>1. i \in 1 .. n /\ q[i] = s
      BY <2>2
    <3>2. ASSUME NEW j \in 1 .. i - 1 PROVE q[j] # q[i]
      <4>1. j \in 1 .. n /\ ~ (i <= j)
        BY <1>1, <3>1
      <4> QED BY <2>2, <3>1, <4>1
    <3> QED BY <3>1, <3>2 DEF IsFirst
  <2>4. parts[i] = Rest(s)
    BY <1>3, <2>1, <2>3
  <2>5. CASE Pieces(entries[s]) = {}
    BY <2>5
  <2>6. CASE Pieces(entries[s]) # {}
    <3>1. parts[i] # << >>
      BY <2>1, <2>4, <2>6, RestCarries DEF LiveWindowsIncomplete
    <3>2. PICK k \in 1 .. Len(r) : pos[k] = i
      BY <1>7, <2>3, <3>1 DEF Picks
    <3>3. k \in DOMAIN r /\ Range(r[k].payload) = Pieces(entries[s])
      BY <1>8, <1>9, <2>3, <3>2
    <3> QED BY <3>3 DEF Carried
  <2> QED BY <2>5, <2>6
<1> QED BY <1>6, <1>8, <1>11, <1>12, <1>13, <1>14

-----------------------------------------------------------------------------
(* Feeding one packet *)

Everything == Held \cup Carried(outputs) \cup Carried(pending)

(* What HistoryFeed feeds is typed, from a source, and numbered. *)
NewPacket(p) ==
    /\ IsArrival(p) /\ ~ IsAggregate(p)
    /\ p.payload = << >> \/ p.payload = << Len(fed) + 1 >>
    /\ fed' = Append(fed, p)

(* Numbering the payload (HistoryFeed) changes nothing the assembler looks *)
(* at.                                                                     *)
LEMMA TaggedIsNew ==
    ASSUME NEW pkt \in Arrivals, HistoryFeed(pkt)
    PROVE  NewPacket(Tagged(pkt))
<1>1. pkt \in Packet({pkt.payload})
  BY ArrivalsAssumption
<1>2. PICK p : p = Tagged(pkt)
  OBVIOUS
<1>3. /\ p.id = pkt.id /\ p.stream = pkt.stream /\ p.seq = pkt.seq
      /\ p.off = pkt.off /\ p.total = pkt.total
      /\ p.payload = << >> \/ p.payload = << Len(fed) + 1 >>
  BY <1>1, <1>2 DEF Tagged, Packet
<1>4. IsArrival(p)
  BY <1>1, <1>3 DEF Packet, IsArrival
<1>5. ~ IsAggregate(p)
  BY <1>3, ArrivalsAreCaptured DEF IsAggregate
<1>6. fed' = Append(fed, p)
  BY <1>2 DEF HistoryFeed
<1> QED BY <1>2, <1>3, <1>4, <1>5, <1>6 DEF NewPacket

(* The packet fed gets a number that no other has. *)
LEMMA FedAfter ==
    ASSUME FedInv, NEW p, NewPacket(p)
    PROVE  /\ Len(fed) + 1 \notin DOMAIN fed
           /\ DOMAIN fed' = DOMAIN fed \cup {Len(fed) + 1}
           /\ fed'[Len(fed) + 1] = p
           /\ \A i \in DOMAIN fed : fed'[i] = fed[i]
           /\ FedInv'
           /\ Range(p.payload) \subseteq {Len(fed) + 1}
<1> DEFINE S == Range(fed) \cup {p}
<1>1. fed \in Seq(S) /\ p \in S
  BY SeqMonotonic DEF FedInv, IsSeq
<1> HIDE DEF S
<1>2. PICK f : f = Append(fed, p)
  OBVIOUS
<1>3. /\ Len(fed) \in Nat /\ DOMAIN fed = 1 .. Len(fed)
      /\ DOMAIN f = 1 .. Len(fed) + 1
      /\ \A i \in 1 .. Len(fed) : f[i] = fed[i]
      /\ f[Len(fed) + 1] = p
  BY <1>1, <1>2, AppendProperties, LenProperties
<1>4. fed' = f
  BY <1>2 DEF NewPacket
<1>5. DOMAIN f = DOMAIN fed \cup {Len(fed) + 1} /\ Len(fed) + 1 \notin DOMAIN fed
  BY <1>3
<1>6. IsSeq(f)
  BY <1>2, AppendIsSeq DEF FedInv
<1>7. \A i \in DOMAIN f : IsArrival(f[i])
  BY <1>3, <1>5 DEF FedInv, NewPacket
<1>8. FedInv'
  BY <1>4, <1>6, <1>7 DEF FedInv, IsArrival
<1>9. Range(p.payload) \subseteq {Len(fed) + 1}
  BY EmptyIsSeq, SingleIsSeq DEF NewPacket
<1> QED BY <1>3, <1>4, <1>5, <1>8, <1>9

(* The window the fragment is offered to *)
LEMMA TargetWindow ==
    ASSUME HistoryInv, NEW p, NewPacket(p), p.isFragment
    PROVE  /\ FromFed(fed', p.stream, Target(p))
           /\ Pieces(Target(p)) = IF Opens(p) \/ Replaces(p) THEN {}
                                  ELSE Pieces(entries[p.stream])
<1>1. /\ DOMAIN fed' = DOMAIN fed \cup {Len(fed) + 1}
      /\ fed'[Len(fed) + 1] = p
      /\ \A i \in DOMAIN fed : fed'[i] = fed[i]
  BY FedAfter DEF HistoryInv
<1>2. CASE Opens(p) \/ Replaces(p)
  <2>1. PICK w : w = NewWindow(p)
    OBVIOUS
  <2>2. /\ Target(p) = w /\ w.seq = p.seq /\ w.end = (p.total - 1) % Modulus
        /\ DOMAIN w.frags = {}
    BY <1>2, <2>1 DEF Target, NewWindow
  <2>3. Frag(fed', Len(fed) + 1, p.stream, w.seq)
    BY <1>1, <2>2 DEF Frag
  <2>4. FromFed(fed', p.stream, w)
    BY <1>1, <2>2, <2>3 DEF FromFed
  <2>5. Pieces(w) = {}
    BY <2>2 DEF Pieces
  <2> QED BY <1>2, <2>2, <2>4, <2>5
<1>3. CASE ~ (Opens(p) \/ Replaces(p))
  <2>1. p.stream \in DOMAIN entries /\ Target(p) = entries[p.stream]
    BY <1>3 DEF Opens, Target
  <2>2. FromFed(fed, p.stream, entries[p.stream])
    BY <2>1 DEF HistoryInv, WindowsInv
  <2>3. FromFed(fed', p.stream, entries[p.stream])
    BY <1>1, <2>2, FeedingKeeps
  <2> QED BY <1>3, <2>1, <2>3
<1> QED BY <1>2, <1>3

(* ... and with the fragment in it, if it accepts it *)
LEMMA AddedWindow ==
    ASSUME HistoryInv, NEW p, NewPacket(p), p.isFragment, Accepts(Target(p), p)
    PROVE  /\ FromFed(fed', p.stream, Add(Target(p), p))
           /\ Pieces(Add(Target(p), p)) = Pieces(Target(p)) \cup Range(p.payload)
<1>1. /\ DOMAIN fed' = DOMAIN fed \cup {Len(fed) + 1}
      /\ fed'[Len(fed) + 1] = p
  BY FedAfter DEF HistoryInv
<1>2. PICK f : f = fed'
  OBVIOUS
<1>3. PICK w : w = Target(p)
  OBVIOUS
<1>4. PICK v : v = Add(w, p)
  OBVIOUS
<1>5. FromFed(f, p.stream, w)
  BY <1>2, <1>3, TargetWindow
<1>6. w.seq = p.seq /\ p.off \notin DOMAIN w.frags
  BY <1>3 DEF Accepts
<1>7. /\ v.seq = w.seq /\ v.end = w.end
      /\ DOMAIN v.frags = DOMAIN w.frags \cup {p.off}
      /\ v.frags[p.off] = p.payload
      /\ \A off \in DOMAIN w.frags : v.frags[off] = w.frags[off]
  BY <1>4, <1>6 DEF Add
<1>8. /\ Len(fed) + 1 \in DOMAIN f
      /\ Frag(f, Len(fed) + 1, p.stream, v.seq)
      /\ f[Len(fed) + 1].off = p.off /\ f[Len(fed) + 1].payload = p.payload
      /\ p.payload = << >> \/ p.payload = << Len(fed) + 1 >>
  BY <1>1, <1>2, <1>6, <1>7 DEF Frag, NewPacket
<1>9. FromFed(f, p.stream, v)
  <2>1. ASSUME NEW off \in DOMAIN v.frags
        PROVE  \E i \in DOMAIN f : /\ Frag(f, i, p.stream, v.seq)
                                   /\ f[i].off = off
                                   /\ \/ v.frags[off] = << i >>
                                      \/ v.frags[off] = << >> /\ f[i].payload = << >>
    <3>1. CASE off = p.off
      BY <1>7, <1>8, <3>1
    <3>2. CASE off # p.off
      <4>1. off \in DOMAIN w.frags /\ v.frags[off] = w.frags[off]
        BY <1>7, <3>2
      <4> QED BY <1>5, <1>7, <4>1 DEF FromFed
    <3> QED BY <3>1, <3>2
  <2>2. \E i \in DOMAIN f : Frag(f, i, p.stream, v.seq) /\ v.end = (f[i].total - 1) % Modulus
    BY <1>5, <1>7 DEF FromFed
  <2> QED BY <2>1, <2>2 DEF FromFed
<1>10. Pieces(v) = Pieces(w) \cup Range(p.payload)
  BY <1>7 DEF Pieces
<1> QED BY <1>2, <1>3, <1>4, <1>9, <1>10

(* The windows that end with the fragment, and those that stay *)
EndedBy(p) == IF Replaces(p) THEN << p.stream >> ELSE Overflow(p)

(* Feed and enforceLimitLocked: what becomes of each window. *)
LEMMA EntriesMove ==
    ASSUME AsmInv, NEW p, IsArrival(p), FeedFragment(p)
    PROVE  /\ Len(EndedBy(p)) \in Nat
           /\ p.stream \in Ended(EndedBy(p)) <=> Replaces(p)
           /\ \A s \in DOMAIN entries' : s # p.stream =>
                 s \in DOMAIN entries \ Ended(EndedBy(p)) /\ entries'[s] = entries[s]
           /\ \A s \in DOMAIN entries \ Ended(EndedBy(p)) :
                 s # p.stream => s \in DOMAIN entries'
           /\ p.stream \in DOMAIN entries' =>
                 /\ ~ Completes(p)
                 /\ entries'[p.stream] = IF Accepts(Target(p), p)
                                         THEN Add(Target(p), p) ELSE Target(p)
           /\ ~ Opens(p) /\ ~ Completes(p) => p.stream \in DOMAIN entries'
<1>0. WindowsTypeOK
  BY DEF AsmInv
<1>1. Overflow(p) \in Seq(Streams)
  BY <1>0, OrderTypes, LimitAssumption DEF Overflow
<1>2. Len(Overflow(p)) \in Nat /\ DOMAIN Overflow(p) = 1 .. Len(Overflow(p))
  BY <1>1
<1>3. \A s \in DOMAIN entries : s \in Evicted(p) <=> s \in Ended(Overflow(p))
  BY <1>2 DEF Evicted, Ended, Range
<1>4. ~ Opens(p) => Overflow(p) = << >> /\ Evicted(p) = {}
  BY <1>2 DEF Overflow, Evicted, Range
<1>5. Opens(p) => p.stream \notin DOMAIN entries /\ ~ Replaces(p)
  BY DEF Opens, Replaces
<1>6. ~ Opens(p) => p.stream \in DOMAIN entries
  BY DEF Opens
<1>7. Ended(<< p.stream >>) = {s \in DOMAIN entries : s = p.stream}
  BY DEF Ended
<1>8. Overflow(p) = << >> => Ended(Overflow(p)) = {}
  BY DEF Ended
<1>9. entries' = EntriesAfter(p)
  BY DEF FeedFragment
<1>10. DOMAIN EntriesAfter(p) =
          (DOMAIN entries \ ({p.stream} \cup Evicted(p)))
             \cup (IF Completes(p) \/ p.stream \in Evicted(p) THEN {} ELSE {p.stream})
  BY DEF EntriesAfter
<1>11. Replaces(p) => ~ Opens(p)
  BY DEF Replaces
<1>12. /\ Replaces(p) => EndedBy(p) = << p.stream >>
       /\ ~ Replaces(p) => EndedBy(p) = Overflow(p)
  BY DEF EndedBy
<1>13. Len(EndedBy(p)) \in Nat
  BY <1>2, <1>12
<1>14. p.stream \in Ended(EndedBy(p)) <=> Replaces(p)
  <2>1. CASE Replaces(p)
    BY <1>6, <1>7, <1>11, <1>12, <2>1
  <2>2. CASE ~ Replaces(p) /\ Opens(p)
    BY <1>5, <2>2 DEF Ended
  <2>3. CASE ~ Replaces(p) /\ ~ Opens(p)
    BY <1>4, <1>8, <1>12, <2>3
  <2> QED BY <2>1, <2>2, <2>3
<1>15. \A s \in DOMAIN entries \ {p.stream} : s \in Evicted(p) <=> s \in Ended(EndedBy(p))
  <2>1. CASE Replaces(p)
    BY <1>4, <1>7, <1>11, <1>12, <2>1
  <2>2. CASE ~ Replaces(p)
    BY <1>3, <1>12, <2>2
  <2> QED BY <2>1, <2>2
<1>16. \A s \in DOMAIN entries' : s # p.stream =>
          s \in DOMAIN entries \ Ended(EndedBy(p)) /\ entries'[s] = entries[s]
  <2>1. ASSUME NEW s \in DOMAIN entries', s # p.stream
        PROVE  s \in DOMAIN entries \ Evicted(p) /\ entries'[s] = entries[s]
    BY <1>9, <1>10, <2>1, WindowAfter
  <2> QED BY <1>15, <2>1
<1>17. \A s \in DOMAIN entries \ Ended(EndedBy(p)) : s # p.stream => s \in DOMAIN entries'
  BY <1>9, <1>10, <1>15
<1>18. p.stream \in DOMAIN entries' =>
          /\ ~ Completes(p)
          /\ entries'[p.stream] = IF Accepts(Target(p), p)
                                  THEN Add(Target(p), p) ELSE Target(p)
  BY <1>9, WindowAfter
<1>19. ~ Opens(p) /\ ~ Completes(p) => p.stream \in DOMAIN entries'
  BY <1>4, <1>9, <1>10
<1> QED BY <1>13, <1>14, <1>16, <1>17, <1>18, <1>19

(* The packet Feed returns for a fragment: the whole datagram, or none. *)
LEMMA FeedResultCarries ==
    ASSUME HistoryInv, NEW p, NewPacket(p), p.isFragment
    PROVE  /\ IsSeq(FeedResult(p)) /\ Once(FeedResult(p))
           /\ \A x \in Range(FeedResult(p)) : GoodOut(fed', x)
           /\ Completes(p) =>
                 Carried(FeedResult(p)) = Pieces(Target(p)) \cup Range(p.payload)
           /\ ~ Completes(p) => FeedResult(p) = << >>
<1>1. CASE ~ Completes(p)
  <2>1. FeedResult(p) = << >>
    BY <1>1 DEF FeedResult
  <2> QED BY <1>1, <2>1, SmallLists
<1>2. CASE Completes(p)
  <2>1. PICK f : f = fed'
    OBVIOUS
  <2>2. PICK w : w = Add(Target(p), p)
    OBVIOUS
  <2>3. Accepts(Target(p), p) /\ 0 .. w.end \subseteq DOMAIN w.frags
    BY <1>2, <2>2 DEF Completes, Complete
  <2>4. FromFed(f, p.stream, w) /\ Pieces(w) = Pieces(Target(p)) \cup Range(p.payload)
    BY <2>1, <2>2, <2>3, AddedWindow
  <2>5. w.end \in Nat /\ DOMAIN w.frags \subseteq 0 .. w.end
    <3>1. WindowsTypeOK /\ IsArrival(p)
      BY DEF HistoryInv, AsmInv, NewPacket
    <3> QED BY <2>2, <2>3, <3>1, AddTypes, PacketsAssumption DEF UInt32
  <2>6. w.seq = p.seq
    BY <2>2, <2>3 DEF Accepts, Add
  <2>7. PICK c : c = Assemble(w)
    OBVIOUS
  <2>8. Range(c) = Pieces(w) /\ OneDatagram(f, c, p.stream, w.seq)
    BY <2>4, <2>5, <2>7, AssembleCarries
  <2>9. HasAll(f, c, p.stream, p.seq)
    <3>1. PICK i \in DOMAIN f : /\ Frag(f, i, p.stream, w.seq)
                                /\ w.end = (f[i].total - 1) % Modulus
      BY <2>4 DEF FromFed
    <3>2. ASSUME NEW off \in 0 .. w.end
          PROVE  \E j \in DOMAIN f : /\ Frag(f, j, p.stream, w.seq) /\ f[j].off = off
                                     /\ f[j].payload = << >> \/ j \in Range(c)
      <4>1. off \in DOMAIN w.frags
        BY <2>3
      <4>2. PICK j \in DOMAIN f : /\ Frag(f, j, p.stream, w.seq)
                                  /\ f[j].off = off
                                  /\ \/ w.frags[off] = << j >>
                                     \/ w.frags[off] = << >> /\ f[j].payload = << >>
        BY <2>4, <4>1 DEF FromFed
      <4>3. ASSUME w.frags[off] = << j >> PROVE j \in Range(c)
        <5>1. j \in Range(w.frags[off])
          BY <4>3, SingleIsSeq
        <5> QED BY <2>8, <4>1, <5>1 DEF Pieces
      <4> QED BY <4>2, <4>3
    <3> QED BY <2>6, <3>1, <3>2 DEF HasAll
  <2>10. PICK x : x = Whole("reassembled", p.stream, p.seq, c)
    OBVIOUS
  <2>11. FeedResult(p) = << x >>
    BY <1>2, <2>2, <2>7, <2>10 DEF FeedResult
  <2>12. x.payload = c /\ x.stream = p.stream /\ x.seq = p.seq
    BY <2>10 DEF Whole
  <2>13. GoodOut(f, x)
    BY <2>6, <2>8, <2>9, <2>12 DEF GoodOut
  <2>14. /\ IsSeq(<< x >>) /\ Range(<< x >>) = {x}
         /\ Carried(<< x >>) = Range(x.payload) /\ Once(<< x >>)
    BY SmallLists
  <2> QED BY <1>2, <2>1, <2>4, <2>8, <2>11, <2>12, <2>13, <2>14
<1> QED BY <1>1, <1>2

(* The windows are still made of what was fed. *)
LEMMA FragmentKeepsWindows ==
    ASSUME HistoryInv, NEW p, NewPacket(p), FeedFragment(p)
    PROVE  WindowsInv'
<1>0. IsArrival(p) /\ p.isFragment /\ AsmInv
  BY DEF NewPacket, FeedFragment, HistoryInv
<1>1. ASSUME NEW s \in DOMAIN entries' PROVE FromFed(fed', s, entries'[s])
  <2>1. CASE s # p.stream
    <3>1. s \in DOMAIN entries /\ entries'[s] = entries[s]
      BY <1>0, <1>1, <2>1, EntriesMove
    <3>2. FromFed(fed, s, entries[s])
      BY <3>1 DEF HistoryInv, WindowsInv
    <3>3. FromFed(fed', s, entries[s])
      BY <3>2, FedAfter, FeedingKeeps DEF HistoryInv
    <3> QED BY <3>1, <3>3
  <2>2. CASE s = p.stream
    BY <1>0, <1>1, <2>2, EntriesMove, TargetWindow, AddedWindow
  <2> QED BY <2>1, <2>2
<1> QED BY <1>1 DEF WindowsInv, FromFed, Frag

(* Where the numbers are after the step: what the ended windows held is    *)
(* pending, what the offered window held is in the result or in the window.*)
LEMMA FragmentMoves ==
    ASSUME HistoryInv, NEW p, NewPacket(p), FeedFragment(p)
    PROVE  \E E, T :
              /\ E \subseteq DOMAIN entries
              /\ Carried(RestOf(EndedBy(p))) = UNION {Pieces(entries[s]) : s \in E}
              /\ T = IF p.stream \in DOMAIN entries \ E THEN Pieces(entries[p.stream])
                     ELSE {}
              /\ Completes(p) => Carried(FeedResult(p)) = T \cup Range(p.payload)
              /\ ~ Completes(p) => Carried(FeedResult(p)) = {}
              /\ \A s \in DOMAIN entries' : s # p.stream =>
                    s \in DOMAIN entries \ E /\ entries'[s] = entries[s]
              /\ \A s \in DOMAIN entries \ E : s # p.stream => s \in DOMAIN entries'
              /\ p.stream \in DOMAIN entries' =>
                    /\ ~ Completes(p)
                    /\ T \subseteq Pieces(entries'[p.stream])
                    /\ Pieces(entries'[p.stream]) \subseteq T \cup Range(p.payload)
              /\ p.stream \in DOMAIN entries \ E /\ ~ Completes(p) =>
                    p.stream \in DOMAIN entries'
<1>0. IsArrival(p) /\ p.isFragment /\ AsmInv /\ WindowsTypeOK
  BY DEF NewPacket, FeedFragment, HistoryInv, AsmInv
<1>1. PICK E : E = Ended(EndedBy(p))
  OBVIOUS
<1>2. PICK T : T = Pieces(Target(p))
  OBVIOUS
<1>3. E \subseteq DOMAIN entries
  BY <1>1 DEF Ended
<1>4. Carried(RestOf(EndedBy(p))) = UNION {Pieces(entries[s]) : s \in E}
  BY <1>0, <1>1, EntriesMove, RestOfCarries DEF HistoryInv, WindowsInv
<1>5. T = IF p.stream \in DOMAIN entries \ E THEN Pieces(entries[p.stream]) ELSE {}
  <2>1. p.stream \in DOMAIN entries \ E <=> ~ (Opens(p) \/ Replaces(p))
    BY <1>0, <1>1, EntriesMove DEF Opens
  <2> QED BY <1>0, <1>2, <2>1, TargetWindow
<1>6. /\ Completes(p) => Carried(FeedResult(p)) = T \cup Range(p.payload)
      /\ ~ Completes(p) => Carried(FeedResult(p)) = {}
  BY <1>0, <1>2, FeedResultCarries, SmallLists
<1>7. /\ \A s \in DOMAIN entries' : s # p.stream =>
            s \in DOMAIN entries \ E /\ entries'[s] = entries[s]
      /\ \A s \in DOMAIN entries \ E : s # p.stream => s \in DOMAIN entries'
  BY <1>0, <1>1, EntriesMove
<1>8. p.stream \in DOMAIN entries' =>
          /\ ~ Completes(p)
          /\ T \subseteq Pieces(entries'[p.stream])
          /\ Pieces(entries'[p.stream]) \subseteq T \cup Range(p.payload)
  <2>1. SUFFICES ASSUME p.stream \in DOMAIN entries'
                 PROVE  /\ ~ Completes(p)
                        /\ T \subseteq Pieces(entries'[p.stream])
                        /\ Pieces(entries'[p.stream]) \subseteq T \cup Range(p.payload)
    OBVIOUS
  <2>2. /\ ~ Completes(p)
        /\ entries'[p.stream] = IF Accepts(Target(p), p)
                                THEN Add(Target(p), p) ELSE Target(p)
    BY <1>0, <2>1, EntriesMove
  <2>3. CASE Accepts(Target(p), p)
    BY <1>0, <1>2, <2>2, <2>3, AddedWindow
  <2>4. CASE ~ Accepts(Target(p), p)
    BY <1>2, <2>2, <2>4
  <2> QED BY <2>3, <2>4
<1>9. p.stream \in DOMAIN entries \ E /\ ~ Completes(p) => p.stream \in DOMAIN entries'
  BY <1>0, EntriesMove DEF Opens
<1> QED BY <1>3, <1>4, <1>5, <1>6, <1>7, <1>8, <1>9

(* No number gets lost or into two places, and what leaves is in order. *)
LEMMA FragmentKeepsPlaces ==
    ASSUME HistoryInv, NEW p, NewPacket(p), FeedFragment(p),
           outputs' = outputs \o FeedResult(p)
    PROVE  OutputsInv' /\ PlacesInv' /\ Everything \subseteq Everything'
<1>0. /\ IsArrival(p) /\ p.isFragment /\ AsmInv /\ WindowsTypeOK /\ LiveWindowsIncomplete
      /\ FedInv /\ WindowsInv /\ OutputsInv /\ PlacesInv
  BY DEF NewPacket, FeedFragment, HistoryInv, AsmInv
<1>1. PICK F : F = FeedResult(p)
  OBVIOUS
<1>2. PICK R : R = RestOf(EndedBy(p))
  OBVIOUS
<1>3. PICK m : m = Len(fed) + 1
  OBVIOUS
<1>4. /\ m \notin DOMAIN fed /\ DOMAIN fed' = DOMAIN fed \cup {m}
      /\ \A i \in DOMAIN fed : fed'[i] = fed[i]
      /\ Range(p.payload) \subseteq {m}
  BY <1>0, <1>3, FedAfter
<1>5. \A s \in DOMAIN entries : FromFed(fed', s, entries[s])
  BY <1>0, <1>4, FeedingKeeps DEF WindowsInv
<1>6. /\ IsSeq(R) /\ Once(R) /\ \A x \in Range(R) : GoodOut(fed', x)
      /\ IsSeq(F) /\ Once(F) /\ \A x \in Range(F) : GoodOut(fed', x)
  BY <1>0, <1>1, <1>2, <1>5, EntriesMove, RestOfCarries, FeedResultCarries
<1>7. outputs' = outputs \o F /\ pending' = pending \o R
  BY <1>1, <1>2 DEF FeedFragment, EndedBy
<1>8. /\ IsSeq(outputs') /\ Range(outputs') = Range(outputs) \cup Range(F)
      /\ Carried(outputs') = Carried(outputs) \cup Carried(F)
      /\ IsSeq(pending') /\ Range(pending') = Range(pending) \cup Range(R)
      /\ Carried(pending') = Carried(pending) \cup Carried(R)
  BY <1>0, <1>6, <1>7, ConcatIsSeq, ConcatCarries DEF OutputsInv
<1>9. OutputsInv'
  <2>1. \A out \in Range(outputs) \cup Range(pending) : GoodOut(fed', out)
    BY <1>0, <1>4, FeedingKeeps DEF OutputsInv
  <2>2. PICK f : f = fed'
    OBVIOUS
  <2>3. \A out \in Range(outputs') \cup Range(pending') : GoodOut(f, out)
    BY <1>6, <1>8, <2>1, <2>2
  <2> QED BY <1>8, <2>2, <2>3
          DEF OutputsInv, GoodOut, HasAll, OneDatagram, Frag, IsAggregate
<1>10. PICK E, T :
              /\ E \subseteq DOMAIN entries
              /\ Carried(R) = UNION {Pieces(entries[s]) : s \in E}
              /\ T = IF p.stream \in DOMAIN entries \ E THEN Pieces(entries[p.stream])
                     ELSE {}
              /\ Completes(p) => Carried(F) = T \cup Range(p.payload)
              /\ ~ Completes(p) => Carried(F) = {}
              /\ \A s \in DOMAIN entries' : s # p.stream =>
                    s \in DOMAIN entries \ E /\ entries'[s] = entries[s]
              /\ \A s \in DOMAIN entries \ E : s # p.stream => s \in DOMAIN entries'
              /\ p.stream \in DOMAIN entries' =>
                    /\ ~ Completes(p)
                    /\ T \subseteq Pieces(entries'[p.stream])
                    /\ Pieces(entries'[p.stream]) \subseteq T \cup Range(p.payload)
              /\ p.stream \in DOMAIN entries \ E /\ ~ Completes(p) =>
                    p.stream \in DOMAIN entries'
  BY <1>1, <1>2, FragmentMoves
<1>11. \A s \in DOMAIN entries : \A i \in Pieces(entries[s]) :
          i \in DOMAIN fed /\ fed[i].stream = s
  BY <1>0, PiecesAreOwned DEF WindowsInv
<1>12. \A s \in DOMAIN entries : Pieces(entries[s]) \subseteq Held
  BY DEF Held
<1>13. PICK O : O = Carried(outputs) \cup Carried(pending)
  OBVIOUS
<1>14. O \subseteq DOMAIN fed /\ Held \cap O = {} /\ Carried(outputs) \cap Carried(pending) = {}
  BY <1>0, <1>13 DEF PlacesInv
<1>15. /\ T \subseteq Held /\ Carried(R) \subseteq Held /\ Held \subseteq DOMAIN fed
       /\ T \cap Carried(R) = {}
  <2>1. T \subseteq Held /\ Carried(R) \subseteq Held
    BY <1>10, <1>12
  <2>2. Held \subseteq DOMAIN fed
    BY <1>11 DEF Held
  <2>3. T \cap Carried(R) = {}
    BY <1>10, <1>11
  <2> QED BY <2>1, <2>2, <2>3
<1>16. Carried(F) \subseteq T \cup {m}
  BY <1>4, <1>10
<1>17. PICK H : H = Held'
  OBVIOUS
<1>18. /\ H \cap Carried(R) = {}
       /\ H \cap Carried(F) = {}
       /\ H \subseteq Held \cup {m}
  <2>1. ASSUME NEW s \in DOMAIN entries', NEW i \in Pieces(entries'[s])
        PROVE  i \notin Carried(R) /\ i \notin Carried(F) /\ i \in Held \cup {m}
    <3>1. CASE s # p.stream
      <4>1. s \in DOMAIN entries \ E /\ entries'[s] = entries[s]
        BY <1>10, <3>1
      <4>2. i \in Pieces(entries[s]) /\ i \in DOMAIN fed /\ fed[i].stream = s /\ i \in Held
        BY <1>11, <1>12, <2>1, <4>1
      <4>3. i \notin Carried(R)
        BY <1>10, <1>11, <4>1, <4>2
      <4>4. i \notin T
        BY <1>10, <1>11, <3>1, <4>2
      <4> QED BY <1>4, <1>16, <4>2, <4>3, <4>4
    <3>2. CASE s = p.stream
      <4>1. Carried(F) = {} /\ i \in T \cup {m}
        BY <1>4, <1>10, <2>1, <3>2
      <4>2. m \notin Carried(R)
        BY <1>4, <1>15
      <4> QED BY <1>15, <4>1, <4>2
    <3> QED BY <3>1, <3>2
  <2>2. H = UNION {Pieces(entries'[s]) : s \in DOMAIN entries'}
    BY <1>17 DEF Held, Pieces
  <2> QED BY <2>1, <2>2
<1>19. PlacesInv'
  <2>1. Once(outputs \o F)
    <3>1. Carried(outputs) \cap Carried(F) = {}
      BY <1>4, <1>13, <1>14, <1>15, <1>16
    <3> QED BY <1>0, <1>6, <3>1, ConcatOnce DEF OutputsInv, PlacesInv
  <2>2. Once(pending \o R)
    <3>1. Carried(pending) \cap Carried(R) = {}
      BY <1>13, <1>14, <1>15
    <3> QED BY <1>0, <1>6, <3>1, ConcatOnce DEF OutputsInv, PlacesInv
  <2>3. PICK o, q : o = outputs' /\ q = pending'
    OBVIOUS
  <2>4. Once(o) /\ Once(q)
    BY <1>7, <2>1, <2>2, <2>3
  <2>5. Carried(o) = Carried(outputs) \cup Carried(F)
        /\ Carried(q) = Carried(pending) \cup Carried(R)
    BY <1>8, <2>3
  <2>6. Carried(o) \cap Carried(q) = {}
    BY <1>4, <1>13, <1>14, <1>15, <1>16, <2>5
  <2>7. H \cap (Carried(o) \cup Carried(q)) = {}
    BY <1>4, <1>13, <1>14, <1>15, <1>18, <2>5
  <2>8. Carried(o) \cup Carried(q) \subseteq DOMAIN fed'
    BY <1>4, <1>13, <1>14, <1>15, <1>16, <2>5
  <2>9. Once(outputs)' /\ Once(pending)'
    BY ZenonT(30), <2>3, <2>4 DEF Once
  <2>10. Carried(outputs)' = Carried(o) /\ Carried(pending)' = Carried(q)
    BY <2>3 DEF Carried
  <2> QED BY <1>17, <2>6, <2>7, <2>8, <2>9, <2>10 DEF PlacesInv
<1>20. Everything \subseteq Everything'
  <2>1. ASSUME NEW s \in DOMAIN entries, NEW i \in Pieces(entries[s])
        PROVE  i \in H \cup Carried(F) \cup Carried(R)
    <3>0. \A u \in DOMAIN entries' : Pieces(entries'[u]) \subseteq H
      BY <1>17 DEF Held, Pieces
    <3>1. CASE s \in E
      BY <1>10, <2>1, <3>1
    <3>2. CASE s \notin E /\ s # p.stream
      BY <1>10, <2>1, <3>0, <3>2
    <3>3. CASE s \notin E /\ s = p.stream
      <4>1. i \in T
        BY <1>10, <2>1, <3>3
      <4>2. CASE Completes(p)
        BY <1>10, <4>1, <4>2
      <4>3. CASE ~ Completes(p)
        BY <1>10, <3>0, <3>3, <4>1, <4>3
      <4> QED BY <4>2, <4>3
    <3> QED BY <3>1, <3>2, <3>3
  <2>2. Held \subseteq H \cup Carried(F) \cup Carried(R)
    BY <2>1 DEF Held
  <2>3. Everything' = H \cup Carried(outputs') \cup Carried(pending')
    BY <1>17 DEF Everything, Carried
  <2> QED BY <1>8, <2>2, <2>3 DEF Everything
<1> QED BY <1>9, <1>19, <1>20

-----------------------------------------------------------------------------
(* The other steps *)

(* A packet that is no fragment is put out at once. *)
LEMMA PassKeeps ==
    ASSUME HistoryInv, NEW p, NewPacket(p), PassThrough(p),
           outputs' = outputs \o FeedResult(p)
    PROVE  HistoryInv' /\ Everything \subseteq Everything'
<1>0. /\ AsmInv /\ LiveWindowsIncomplete /\ FedInv /\ WindowsInv /\ OutputsInv /\ PlacesInv
  BY DEF HistoryInv
<1>1. /\ UNCHANGED <<entries, order, pending>>
      /\ outputs' = outputs \o << p >>
  BY DEF PassThrough, FeedResult
<1>2. PICK m : m = Len(fed) + 1
  OBVIOUS
<1>3. /\ m \notin DOMAIN fed /\ DOMAIN fed' = DOMAIN fed \cup {m}
      /\ \A i \in DOMAIN fed : fed'[i] = fed[i]
      /\ Range(p.payload) \subseteq {m} /\ FedInv'
  BY <1>0, <1>2, FedAfter
<1>4. AsmInv' /\ LiveWindowsIncomplete'
  BY <1>0, <1>1, UnchangedWindows DEF LiveWindowsIncomplete, Complete
<1>5. PICK f : f = fed'
  OBVIOUS
<1>6. /\ \A s, w : FromFed(fed, s, w) => FromFed(f, s, w)
      /\ \A out : GoodOut(fed, out) => GoodOut(f, out)
  BY <1>3, <1>5, FeedingKeeps
<1>7. WindowsInv'
  <2>1. \A s \in DOMAIN entries : FromFed(f, s, entries[s])
    BY <1>0, <1>6 DEF WindowsInv
  <2> QED BY <1>1, <1>5, <2>1 DEF WindowsInv, FromFed, Frag
<1>8. /\ IsSeq(<< p >>) /\ Range(<< p >>) = {p} /\ Once(<< p >>)
      /\ Carried(<< p >>) = Range(p.payload)
  BY SmallLists
<1>9. PICK o : o = outputs'
  OBVIOUS
<1>10. /\ IsSeq(o) /\ Range(o) = Range(outputs) \cup {p}
       /\ Carried(o) = Carried(outputs) \cup Range(p.payload)
  BY <1>0, <1>1, <1>8, <1>9, ConcatIsSeq, ConcatCarries DEF OutputsInv
<1>11. GoodOut(f, p)
  BY DEF NewPacket, GoodOut, IsAggregate
<1>12. \A out \in Range(o) \cup Range(pending) : GoodOut(f, out)
  BY <1>0, <1>6, <1>10, <1>11 DEF OutputsInv
<1>13. OutputsInv'
  BY <1>0, <1>1, <1>5, <1>9, <1>10, <1>12
     DEF OutputsInv, GoodOut, HasAll, OneDatagram, Frag, IsAggregate
<1>14. Once(o)
  <2>1. Carried(outputs) \cap Carried(<< p >>) = {}
    BY <1>0, <1>3, <1>8 DEF PlacesInv
  <2> QED BY <1>0, <1>1, <1>8, <1>9, <2>1, ConcatOnce DEF OutputsInv, PlacesInv
<1>15. /\ Held' = Held /\ Carried(outputs)' = Carried(o) /\ Carried(pending)' = Carried(pending)
       /\ Once(outputs)' /\ Once(pending)'
  <2>1. Held' = Held /\ Carried(outputs)' = Carried(o) /\ Carried(pending)' = Carried(pending)
    BY <1>1, <1>9 DEF Held, Pieces, Carried
  <2>2. Once(outputs)' /\ Once(pending)'
    BY <1>0, <1>1, <1>9, <1>14 DEF Once, PlacesInv
  <2> QED BY <2>1, <2>2
<1>16. Held \subseteq DOMAIN fed
  BY <1>0, PiecesAreOwned DEF Held, WindowsInv
<1>17. PlacesInv'
  BY <1>0, <1>3, <1>10, <1>15, <1>16 DEF PlacesInv
<1>18. Everything \subseteq Everything'
  BY <1>10, <1>15 DEF Everything
<1> QED BY <1>3, <1>4, <1>7, <1>13, <1>17, <1>18 DEF HistoryInv

(* A list of results r leaves after the pending ones, with what the windows*)
(* hold that are taken out: nothing is lost on the way. *)
LEMMA LeavingKeeps ==
    ASSUME HistoryInv, UNCHANGED fed, pending' = << >>,
           NEW r, IsSeq(r), Once(r), \A x \in Range(r) : GoodOut(fed, x),
           outputs' = outputs \o (pending \o r),
           Held = Held' \cup Carried(r), Held' \cap Carried(r) = {}
    PROVE  OutputsInv' /\ PlacesInv' /\ Everything \subseteq Everything'
<1>0. FedInv /\ WindowsInv /\ OutputsInv /\ PlacesInv
  BY DEF HistoryInv
<1>1. PICK q : q = pending \o r
  OBVIOUS
<1>2. PICK o : o = outputs'
  OBVIOUS
<1>3. PICK H : H = Held'
  OBVIOUS
<1>4. /\ IsSeq(q) /\ Range(q) = Range(pending) \cup Range(r)
      /\ Carried(q) = Carried(pending) \cup Carried(r)
  BY <1>0, <1>1, ConcatIsSeq, ConcatCarries DEF OutputsInv
<1>5. /\ IsSeq(o) /\ Range(o) = Range(outputs) \cup Range(q)
      /\ Carried(o) = Carried(outputs) \cup Carried(q)
  BY <1>0, <1>1, <1>2, <1>4, ConcatIsSeq, ConcatCarries DEF OutputsInv
<1>6. Held = H \cup Carried(r) /\ H \cap Carried(r) = {}
  BY <1>3
<1>7. Once(q)
  BY <1>0, <1>1, <1>6, ConcatOnce DEF OutputsInv, PlacesInv
<1>8. Once(o)
  <2>1. Carried(outputs) \cap Carried(q) = {}
    BY <1>0, <1>4, <1>6 DEF PlacesInv
  <2> QED BY <1>0, <1>1, <1>2, <1>4, <1>7, <2>1, ConcatOnce DEF OutputsInv, PlacesInv
<1>9. Held \subseteq DOMAIN fed
  BY <1>0, PiecesAreOwned DEF Held, WindowsInv
<1>10. /\ Carried(outputs)' = Carried(o) /\ Carried(pending)' = {}
       /\ Once(outputs)' /\ Once(pending)'
  <2>1. Carried(outputs)' = Carried(o) /\ Carried(pending)' = {}
    BY <1>2 DEF Carried
  <2>2. Once(outputs)'
    BY ZenonT(30), <1>2, <1>8 DEF Once
  <2>3. Once(pending)'
    BY SmallLists DEF Once
  <2> QED BY <2>1, <2>2, <2>3
<1>11. \A out \in Range(o) \cup Range(<< >>) : GoodOut(fed, out)
  BY <1>0, <1>4, <1>5, EmptyIsSeq DEF OutputsInv
<1>12. OutputsInv'
  BY <1>2, <1>5, <1>11, EmptyIsSeq
     DEF OutputsInv, GoodOut, HasAll, OneDatagram, Frag, IsAggregate
<1>13. PlacesInv'
  <2>1. H \cap Carried(o) = {} /\ Carried(o) \subseteq DOMAIN fed
    BY <1>0, <1>4, <1>5, <1>6, <1>9 DEF PlacesInv
  <2> QED BY <1>3, <1>10, <2>1 DEF PlacesInv
<1>14. Everything \subseteq Everything'
  BY <1>3, <1>4, <1>5, <1>6, <1>10 DEF Everything
<1> QED BY <1>12, <1>13, <1>14

(* Drain returns the pending results. *)
LEMMA DrainKeeps ==
    ASSUME HistoryInv, HistoryDrain
    PROVE  HistoryInv' /\ Everything \subseteq Everything'
<1>0. /\ AsmInv /\ LiveWindowsIncomplete /\ FedInv /\ WindowsInv /\ OutputsInv
  BY DEF HistoryInv
<1>1. /\ UNCHANGED <<entries, order, fed>> /\ pending' = << >>
      /\ outputs' = outputs \o pending
  BY DEF HistoryDrain, Drain
<1>2. AsmInv' /\ LiveWindowsIncomplete' /\ FedInv'
  BY <1>0, <1>1, UnchangedWindows DEF LiveWindowsIncomplete, Complete, FedInv, IsArrival
<1>3. WindowsInv'
  BY <1>0, <1>1 DEF WindowsInv, FromFed, Frag
<1>4. pending \o << >> = pending
  BY <1>0, ConcatEmptySeq DEF OutputsInv, IsSeq
<1>5. outputs' = outputs \o (pending \o << >>)
  BY <1>1, <1>4
<1>6. Held' = Held
  BY <1>1 DEF Held, Pieces
<1>7. OutputsInv' /\ PlacesInv' /\ Everything \subseteq Everything'
  BY <1>1, <1>5, <1>6, SmallLists, LeavingKeeps
<1> QED BY <1>2, <1>3, <1>7 DEF HistoryInv

(* The final flush returns them and the rest of every live window. *)
LEMMA FlushKeeps ==
    ASSUME HistoryInv, HistoryFlush
    PROVE  HistoryInv' /\ Everything \subseteq Everything'
<1>0. /\ AsmInv /\ LiveWindowsIncomplete /\ FedInv /\ WindowsInv /\ OutputsInv /\ PlacesInv
      /\ WindowsTypeOK /\ NoOrphanWindow
  BY DEF HistoryInv, AsmInv
<1>1. FlushExpired /\ UNCHANGED fed /\ outputs' = outputs \o FlushResult
  BY DEF HistoryFlush
<1>2. AsmInv' /\ LiveWindowsIncomplete' /\ FedInv'
  BY <1>0, <1>1, FlushKeepsInv, FlushKeepsIncomplete DEF FedInv, IsArrival
<1>3. DOMAIN entries' = {} /\ Flushable = DOMAIN entries
  BY <1>0, <1>1, FlushClearsWindows DEF NoOrphanWindow, Flushable
<1>4. WindowsInv' /\ Held' = {}
  BY <1>3 DEF WindowsInv, Held
<1>5. CASE Flushable = {}
  <2>1. UNCHANGED <<pending, fed>> /\ outputs' = outputs
    <3>1. outputs' = outputs \o << >> /\ pending' = pending
      BY <1>1, <1>5 DEF FlushResult, FlushExpired
    <3> QED BY <1>0, <1>1, <3>1, ConcatEmptySeq DEF OutputsInv, IsSeq
  <2>2. Held = {}
    BY <1>3, <1>5 DEF Held
  <2>3. OutputsInv'
    BY <1>0, <2>1 DEF OutputsInv, GoodOut, HasAll, OneDatagram, Frag, IsAggregate
  <2>4. PlacesInv'
    BY SMTT(30), <1>0, <1>4, <2>1, <2>2 DEF PlacesInv, Once, Carried
  <2>5. Everything' = Everything
    BY <1>4, <2>1, <2>2 DEF Everything, Carried
  <2> QED BY <1>2, <1>4, <2>3, <2>4, <2>5 DEF HistoryInv
<1>6. CASE Flushable # {}
  <2>1. PICK r : r = RestOf(order)
    OBVIOUS
  <2>2. pending' = << >> /\ outputs' = outputs \o (pending \o r)
    BY <1>1, <1>6, <2>1 DEF FlushResult, FlushExpired
  <2>3. Len(order) \in Nat /\ DOMAIN order = 1 .. Len(order)
    BY <1>0 DEF WindowsTypeOK
  <2>4. Ended(order) = DOMAIN entries
    BY <1>0, <2>3 DEF NoOrphanWindow, Range, Ended
  <2>5. /\ IsSeq(r) /\ Once(r) /\ \A x \in Range(r) : GoodOut(fed, x)
        /\ Carried(r) = Held
    BY <1>0, <2>1, <2>3, <2>4, RestOfCarries DEF WindowsInv, Held
  <2>6. OutputsInv' /\ PlacesInv' /\ Everything \subseteq Everything'
    BY <1>1, <1>4, <2>2, <2>5, LeavingKeeps
  <2> QED BY <1>2, <1>4, <2>6 DEF HistoryInv
<1> QED BY <1>5, <1>6

(* Every step keeps the invariant and loses no number that was in a place. *)
LEMMA HistoryInvStep ==
    ASSUME HistoryInv, [HistoryNext]_historyVars
    PROVE  HistoryInv' /\ Everything \subseteq Everything' /\ DOMAIN fed \subseteq DOMAIN fed'
<1>1. ASSUME NEW pkt \in Arrivals, HistoryFeed(pkt)
      PROVE  HistoryInv' /\ Everything \subseteq Everything' /\ DOMAIN fed \subseteq DOMAIN fed'
  <2>1. PICK p : p = Tagged(pkt)
    OBVIOUS
  <2>2. NewPacket(p) /\ Feed(p) /\ outputs' = outputs \o FeedResult(p)
    BY <1>1, <2>1, TaggedIsNew DEF HistoryFeed
  <2>3. FedInv' /\ DOMAIN fed \subseteq DOMAIN fed'
    BY <2>2, FedAfter DEF HistoryInv
  <2>4. CASE PassThrough(p)
    BY <2>2, <2>3, <2>4, PassKeeps
  <2>5. CASE FeedFragment(p)
    <3>1. AsmInv' /\ LiveWindowsIncomplete'
      BY <2>2, <2>5, FragmentKeepsInv, FragmentKeepsIncomplete DEF HistoryInv, NewPacket
    <3>2. WindowsInv' /\ OutputsInv' /\ PlacesInv' /\ Everything \subseteq Everything'
      BY <2>2, <2>5, FragmentKeepsWindows, FragmentKeepsPlaces
    <3> QED BY <2>3, <3>1, <3>2 DEF HistoryInv
  <2> QED BY <2>2, <2>4, <2>5 DEF Feed
<1>2. CASE HistoryDrain
  BY <1>2, DrainKeeps DEF HistoryDrain
<1>3. CASE HistoryFlush
  BY <1>3, FlushKeeps DEF HistoryFlush
<1>4. CASE UNCHANGED historyVars
  <2>1. UNCHANGED <<entries, order, pending, asmStats, fed, outputs, accepted>>
    BY <1>4 DEF historyVars
  <2>2. AsmInv' /\ LiveWindowsIncomplete' /\ FedInv'
    BY <2>1, UnchangedWindows DEF HistoryInv, LiveWindowsIncomplete, Complete, FedInv, IsArrival
  <2>3. WindowsInv' /\ OutputsInv'
    BY <2>1 DEF HistoryInv, WindowsInv, FromFed, OutputsInv, GoodOut, HasAll, OneDatagram,
                Frag, IsAggregate
  <2>4. /\ Held' = Held /\ Carried(outputs)' = Carried(outputs)
        /\ Carried(pending)' = Carried(pending)
    BY <2>1 DEF Held, Pieces, Carried
  <2>5. Once(outputs)' = Once(outputs) /\ Once(pending)' = Once(pending)
    BY <2>1 DEF Once
  <2>6. PlacesInv' /\ Everything' = Everything
    BY <2>1, <2>4, <2>5 DEF HistoryInv, PlacesInv, Everything
  <2> QED BY <2>1, <2>2, <2>3, <2>6 DEF HistoryInv
<1> QED BY <1>1, <1>2, <1>3, <1>4 DEF HistoryNext

(* Every reachable state satisfies the inductive invariant. *)
LEMMA HistoryInvHolds == HistorySpec => []HistoryInv
<1>1. HistoryInit => HistoryInv
  <2> SUFFICES ASSUME HistoryInit PROVE HistoryInv
    OBVIOUS
  <2>1. /\ DOMAIN entries = {} /\ pending = << >> /\ fed = << >> /\ outputs = << >>
    BY DEF HistoryInit, AsmInit
  <2>2. AsmInv /\ LiveWindowsIncomplete
    BY <2>1, AsmInvInit DEF HistoryInit, LiveWindowsIncomplete
  <2>3. FedInv /\ WindowsInv /\ OutputsInv
    BY <2>1, EmptyIsSeq DEF FedInv, WindowsInv, OutputsInv
  <2>4. PlacesInv
    BY <2>1, SmallLists DEF PlacesInv, Held
  <2> QED BY <2>2, <2>3, <2>4 DEF HistoryInv
<1>2. HistoryInv /\ [HistoryNext]_historyVars => HistoryInv'
  BY HistoryInvStep
<1> QED BY <1>1, <1>2, PTL DEF HistorySpec

-----------------------------------------------------------------------------
(* The pieces of one datagram are never mixed with those of another and    *)
(* leave in the order of their offsets, for every limit, every number of   *)
(* streams and every order of arrival (assembler.go:45-127, window.go).    *)
THEOREM AggregatesStayWithinDatagram == HistorySpec => []AggregatesAreOneDatagram
<1>1. ASSUME HistoryInv PROVE AggregatesAreOneDatagram
  <2>1. \A x \in Range(Results) : GoodOut(fed, x)
    BY <1>1, ConcatIsSeq DEF HistoryInv, OutputsInv, Results
  <2>2. ASSUME NEW n \in DOMAIN Results, IsAggregate(Results[n])
        PROVE  OneDatagram(fed, Results[n].payload, Results[n].stream, Results[n].seq)
    BY <2>1, <2>2 DEF GoodOut, Range
  <2> QED BY <2>2 DEF AggregatesAreOneDatagram, OneDatagram, Frag
<1> QED BY <1>1, HistoryInvHolds, PTL

(* What Feed returns as reassembled is whole (window.go:56-77): it has the *)
(* payload of every offset below a total that one of its fragments declared*)
(* unless that fragment had none, the wrap of a total of 0 to the largest  *)
(* uint32 included (window.go:32).                                         *)
THEOREM ReassembledStaysWhole == HistorySpec => []ReassembledIsWhole
<1>1. ASSUME HistoryInv PROVE ReassembledIsWhole
  <2> SUFFICES ASSUME NEW n \in DOMAIN outputs,
                      outputs[n].id.kind = "reassembled",
                      NEW parts,
                      parts = {i \in DOMAIN fed : /\ fed[i].isFragment
                                                  /\ fed[i].stream = outputs[n].stream
                                                  /\ fed[i].seq = outputs[n].seq}
               PROVE  \E i \in parts : \A off \in 0 .. (fed[i].total - 1) % Modulus :
                         \E j \in parts :
                            /\ fed[j].off = off
                            /\ fed[j].payload = << >> \/ j \in Range(outputs[n].payload)
    BY DEF ReassembledIsWhole
  <2>1. HasAll(fed, outputs[n].payload, outputs[n].stream, outputs[n].seq)
    BY <1>1 DEF HistoryInv, OutputsInv, GoodOut, Range
  <2>2. \A i : Frag(fed, i, outputs[n].stream, outputs[n].seq) => i \in parts
    BY DEF Frag
  <2> QED BY <2>1, <2>2 DEF HasAll
<1> QED BY <1>1, HistoryInvHolds, PTL

(* In how many places a number is *)
PlacesCount ==
    \A i \in DOMAIN fed : Places(i) = IF i \in Everything THEN 1 ELSE 0

(* A number is in one place, or in none: evicted by the Feed that fed it,  *)
(* dropped by it, or never in a fragment.                                  *)
LEMMA PlacesOf ==
    ASSUME HistoryInv, NEW i \in DOMAIN fed
    PROVE  Places(i) = IF i \in Everything THEN 1 ELSE 0
<1>0. WindowsInv /\ OutputsInv /\ PlacesInv
  BY DEF HistoryInv
<1>1. \A s \in DOMAIN entries : s \in LivePlaces(i) <=> i \in Pieces(entries[s])
  <2>1. ASSUME NEW s \in DOMAIN entries, s \in LivePlaces(i) PROVE i \in Pieces(entries[s])
    <3>1. PICK off \in DOMAIN entries[s].frags : entries[s].frags[off] = << i >>
      BY <2>1 DEF LivePlaces
    <3>2. i \in Range(<< i >>)
      BY SingleIsSeq
    <3> QED BY <3>1, <3>2 DEF Pieces
  <2>2. ASSUME NEW s \in DOMAIN entries, i \in Pieces(entries[s]) PROVE s \in LivePlaces(i)
    <3>1. PICK off \in DOMAIN entries[s].frags : i \in Range(entries[s].frags[off])
      BY <2>2 DEF Pieces
    <3>2. entries[s].frags[off] # << >>
      BY <3>1, EmptyIsSeq
    <3>3. PICK j : entries[s].frags[off] = << j >>
      BY <1>0, <3>2 DEF WindowsInv, FromFed
    <3>4. i = j
      BY <3>1, <3>3, SingleIsSeq
    <3> QED BY <3>3, <3>4 DEF LivePlaces
  <2> QED BY <2>1, <2>2
<1>2. LivePlaces(i) \subseteq DOMAIN entries
  BY DEF LivePlaces
<1>3. \A s, u \in LivePlaces(i) : s = u
  <2>1. \A s \in LivePlaces(i) : fed[i].stream = s
    BY <1>0, <1>1, <1>2, PiecesAreOwned DEF WindowsInv
  <2> QED BY <2>1
<1>4. LivePlaces(i) # {} <=> i \in Held
  BY <1>1, <1>2 DEF Held
<1>5. PICK r : r = Results
  OBVIOUS
<1>6. IsSeq(r) /\ Carried(r) = Carried(outputs) \cup Carried(pending) /\ Once(r)
  BY <1>0, <1>5, ConcatIsSeq, ConcatCarries, ConcatOnce DEF Results, OutputsInv, PlacesInv
<1>7. OutPlaces(i) = {n \in DOMAIN r : i \in Range(r[n].payload)}
  BY <1>5 DEF OutPlaces, Range
<1>8. \A n, l \in OutPlaces(i) : n = l
  BY <1>6, <1>7 DEF Once
<1>9. OutPlaces(i) # {} <=> i \in Carried(outputs) \cup Carried(pending)
  BY <1>6, <1>7 DEF Carried
<1>10. LivePlaces(i) = {} \/ OutPlaces(i) = {}
  BY <1>0, <1>4, <1>9 DEF PlacesInv
<1>11. ASSUME NEW S, \A x, y \in S : x = y
       PROVE  Cardinality(S) = IF S = {} THEN 0 ELSE 1
  <2>1. CASE S = {}
    BY <2>1, FS_EmptySet
  <2>2. CASE S # {}
    <3>1. PICK x : x \in S
      BY <2>2
    <3>2. S = {x}
      BY <1>11, <3>1
    <3>3. Cardinality({x}) = 1
      BY FS_Singleton, Zenon
    <3> QED BY <2>2, <3>2, <3>3
  <2> QED BY <2>1, <2>2
<1>12. Cardinality(LivePlaces(i)) = IF LivePlaces(i) = {} THEN 0 ELSE 1
  BY <1>3, <1>11
<1>13. Cardinality(OutPlaces(i)) = IF OutPlaces(i) = {} THEN 0 ELSE 1
  BY <1>8, <1>11
<1>14. i \in Everything <=> LivePlaces(i) # {} \/ OutPlaces(i) # {}
  BY <1>4, <1>9 DEF Everything
<1> QED BY <1>10, <1>12, <1>13, <1>14 DEF Places

(* No piece of payload leaves twice or leaves and stays, whatever is       *)
(* evicted, replaced, completed or flushed in between (assembler.go).      *)
THEOREM NoFragmentLeavesTwice == HistorySpec => []NoFragmentTwice
<1>1. HistoryInv => NoFragmentTwice
  BY PlacesOf DEF NoFragmentTwice
<1> QED BY <1>1, HistoryInvHolds, PTL

(* What a window holds stays in it until a result carries it out: no       *)
(* eviction, replacement, completion or flush loses what was held before   *)
(* it (assembler.go:94-127, 140-167).                                      *)
THEOREM HeldStaysOrLeaves == HistorySpec => HeldIsNeverLost
<1>1. HistoryInv => PlacesCount
  BY PlacesOf DEF PlacesCount
<1>2. HistoryInv /\ PlacesCount /\ PlacesCount' /\ [HistoryNext]_historyVars
        => [\A i \in DOMAIN fed : Places(i) = 1 => (Places(i) = 1)']_historyVars
  <2> SUFFICES ASSUME HistoryInv, PlacesCount, PlacesCount', [HistoryNext]_historyVars,
                      NEW i \in DOMAIN fed, Places(i) = 1
               PROVE  (Places(i) = 1)'
    OBVIOUS
  <2>1. i \in Everything
    BY DEF PlacesCount
  <2>2. i \in DOMAIN fed' /\ i \in Everything'
    BY <2>1, HistoryInvStep
  <2> QED BY <2>2 DEF PlacesCount
<1> QED BY <1>1, <1>2, HistoryInvHolds, PTL DEF HistorySpec, HeldIsNeverLost

=============================================================================
