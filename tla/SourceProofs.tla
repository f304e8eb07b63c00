---------------------------- MODULE SourceProofs -----------------------------
(***************************************************************************)
(* The file source for every list of files and any number of sessions that *)
(* share it without a lock: the types hold whatever they do to each other, *)
(* and a session during which no other one is at work reads all files from *)
(* start to end and leaves nothing open, whatever the ones before it left  *)
(* behind.                                                                 *)
(***************************************************************************)
EXTENDS FileSource, FiniteSetTheorems, SequenceLemmas

-----------------------------------------------------------------------------
(* What stands before a position                                           *)

(* The packets of the first n files, and of the first n lines of a file.   *)
FirstFiles(fs, n) == FlattenSeq([f \in 1 .. n |-> PacketsOf(fs[f])])
FirstLines(file, n) == FlattenSeq([l \in 1 .. n |-> Given(file[l])])

(* What a session was given when it stands behind line l of file f. *)
Upto(fs, f, l) == FirstFiles(fs, f - 1) \o FirstLines(fs[f], l)

(* All packets there are, so that the pieces are sequences over one set. *)
PacketSet(fs) ==
    UNION {{ParsePacketLine(fs[f][l]) : l \in DOMAIN fs[f]} : f \in DOMAIN fs}

(* A list of files and the files in it are sequences. *)
IsFileList(fs) ==
    /\ fs \in Seq(Range(fs)) /\ fs # << >>
    /\ \A f \in DOMAIN fs : fs[f] \in Seq(Range(fs[f]))

(* The first n parts of s, flattened. *)
Joined(s, n) == FlattenSeq([i \in 1 .. n |-> s[i]])

(* Flattening one part more appends that part. *)
LEMMA FlattenOneMore ==
    ASSUME NEW T, NEW s, NEW n \in Nat, \A i \in 1 .. n + 1 : s[i] \in Seq(T)
    PROVE  Joined(s, n + 1) = Joined(s, n) \o s[n + 1]
<1> DEFINE a == [i \in 1 .. n + 1 |-> s[i]]
           b == [i \in 1 .. n |-> s[i]]
<1>1. a \in Seq(Seq(T)) /\ Len(a) = n + 1 /\ b \in Seq(Seq(T)) /\ Len(b) = n
  OBVIOUS
<1>2. /\ \A i \in 1 .. n + 1 : a[i] = s[i]
      /\ \A i \in 1 .. n : b[i] = s[i]
  OBVIOUS
<1> HIDE DEF a, b
<1>3. PICK f : /\ f[1] = a[1]
               /\ \A i \in 1 .. n : f[i + 1] = f[i] \o a[i + 1]
               /\ FlattenSeq(a) = f[n + 1]
  <2>1. Len(a) \in Nat /\ Len(a) # 0 /\ Len(a) - 1 = n
    BY <1>1
  <2> QED BY <1>1, <2>1, FlattenStep
<1>4. CASE n = 0
  <2>1. FlattenSeq(b) = << >>
    <3>1. b = << >> /\ Len(b) = 0
      BY <1>1, <1>4
    <3> QED BY <3>1 DEF FlattenSeq
  <2>2. FlattenSeq(a) = s[1]
    BY <1>2, <1>3, <1>4
  <2>3. s[1] \in Seq(T)
    OBVIOUS
  <2> QED BY <1>4, <2>1, <2>2, <2>3 DEF a, b, Joined
<1>5. CASE n # 0
  <2>1. PICK g : /\ g[1] = b[1]
                 /\ \A i \in 1 .. n - 1 : g[i + 1] = g[i] \o b[i + 1]
                 /\ FlattenSeq(b) = g[n]
    BY <1>1, <1>5, FlattenStep
  <2> DEFINE S == {k \in Nat : k \in 1 .. n => f[k] = g[k]}
  <2>2. 0 \in S
    OBVIOUS
  <2>3. ASSUME NEW k \in Nat, k \in S PROVE k + 1 \in S
    <3> SUFFICES ASSUME k + 1 \in 1 .. n PROVE f[k + 1] = g[k + 1]
      OBVIOUS
    <3>1. a[k + 1] = b[k + 1]
      BY <1>2
    <3>2. CASE k = 0
      BY <1>3, <2>1, <3>1, <3>2
    <3>3. CASE k # 0
      <4>1. k \in 1 .. n /\ k \in 1 .. n - 1
        BY <3>3
      <4>2. f[k] = g[k]
        BY <2>3, <4>1
      <4> QED BY <1>3, <2>1, <3>1, <4>1, <4>2
    <3> QED BY <3>2, <3>3
  <2> HIDE DEF S
  <2>4. Nat \subseteq S
    BY <2>2, <2>3, NatInductionSet
  <2>5. f[n] = g[n]
    BY <1>5, <2>4 DEF S
  <2>6. f[n + 1] = f[n] \o a[n + 1]
    <3>1. n \in 1 .. n
      BY <1>5
    <3> QED BY <1>3, <3>1
  <2>7. a[n + 1] = s[n + 1]
    BY <1>2
  <2>8. FlattenSeq(a) = FlattenSeq(b) \o s[n + 1]
    BY <1>3, <2>1, <2>5, <2>6, <2>7
  <2> QED BY <2>8 DEF a, b, Joined
<1> QED BY <1>4, <1>5

(* One sequence goes on where another one ends. *)
GoesOn(long, short, T) == \E rest \in Seq(T) : long = short \o rest

(* What is flattened later is behind what was flattened before. *)
LEMMA FlattenGrows ==
    ASSUME NEW T, NEW s, NEW n \in Nat, \A i \in 1 .. n : s[i] \in Seq(T),
           NEW k \in 0 .. n
    PROVE  GoesOn(Joined(s, n), Joined(s, k), T)
<1> DEFINE Follows(m) == \E rest \in Seq(T) : Joined(s, m) = Joined(s, k) \o rest
           S == {m \in Nat : m \in k .. n => Follows(m)}
<1>1. ASSUME NEW m \in 0 .. n PROVE Joined(s, m) \in Seq(T)
  <2>1. [i \in 1 .. m |-> s[i]] \in Seq(Seq(T))
    OBVIOUS
  <2> QED BY <2>1, FlattenType DEF Joined
<1>2. ASSUME NEW m \in Nat, m + 1 \in 0 .. n PROVE Joined(s, m + 1) = Joined(s, m) \o s[m + 1]
  <2>1. \A i \in 1 .. m + 1 : s[i] \in Seq(T)
    BY <1>2
  <2> QED BY <2>1, FlattenOneMore
<1>3. Follows(k)
  <2>1. Joined(s, k) \in Seq(T) /\ << >> \in Seq(T)
    BY <1>1
  <2>2. Joined(s, k) = Joined(s, k) \o << >>
    BY <2>1
  <2> QED BY <2>1, <2>2
<1>4. ASSUME NEW m \in Nat, m \in k .. n, m + 1 \in k .. n, Follows(m) PROVE Follows(m + 1)
  <2>1. PICK rest : rest \in Seq(T) /\ Joined(s, m) = Joined(s, k) \o rest
    BY <1>4
  <2>2. m + 1 \in 0 .. n /\ m + 1 \in 1 .. n
    BY <1>4
  <2>3. Joined(s, m + 1) = Joined(s, m) \o s[m + 1]
    BY <1>2, <2>2
  <2>4. s[m + 1] \in Seq(T) /\ Joined(s, k) \in Seq(T)
    BY <1>1, <2>2
  <2>5. (Joined(s, k) \o rest) \o s[m + 1] = Joined(s, k) \o (rest \o s[m + 1])
    <3>1. \A x, y, z \in Seq(T) : (x \o y) \o z = x \o (y \o z)
      BY ConcatAssociative
    <3> QED BY <2>1, <2>4, <3>1
  <2>6. Joined(s, m + 1) = Joined(s, k) \o (rest \o s[m + 1]) /\ rest \o s[m + 1] \in Seq(T)
    BY <2>1, <2>3, <2>4, <2>5
  <2> QED BY <2>6
<1> HIDE DEF Follows
<1>5. 0 \in S
  BY <1>3
<1>6. ASSUME NEW m \in Nat, m \in S PROVE m + 1 \in S
  <2> SUFFICES ASSUME m + 1 \in k .. n PROVE Follows(m + 1)
    OBVIOUS
  <2>1. CASE m + 1 = k
    BY <1>3, <2>1
  <2>2. CASE m + 1 # k
    <3>1. m \in k .. n
      BY <2>2
    <3> QED BY <1>4, <1>6, <3>1
  <2> QED BY <2>1, <2>2
<1> HIDE DEF S
<1>7. Nat \subseteq S
  BY <1>5, <1>6, NatInductionSet
<1>8. Follows(n)
  BY <1>7 DEF S
<1> QED BY <1>8 DEF Follows, GoesOn

(* The lines of a file and the packets of the files are sequences of       *)
(* packets. *)
LEMMA PieceTypes ==
    ASSUME NEW fs, IsFileList(fs)
    PROVE  /\ Len(fs) \in Nat \ {0} /\ DOMAIN fs = 1 .. Len(fs)
           /\ \A f \in DOMAIN fs :
                 /\ Len(fs[f]) \in Nat /\ DOMAIN fs[f] = 1 .. Len(fs[f])
                 /\ \A l \in DOMAIN fs[f] : Given(fs[f][l]) \in Seq(PacketSet(fs))
                 /\ PacketsOf(fs[f]) = FirstLines(fs[f], Len(fs[f]))
                 /\ \A n \in 0 .. Len(fs[f]) : FirstLines(fs[f], n) \in Seq(PacketSet(fs))
                 /\ PacketsOf(fs[f]) \in Seq(PacketSet(fs))
           /\ \A n \in 0 .. Len(fs) : FirstFiles(fs, n) \in Seq(PacketSet(fs))
<1> DEFINE T == PacketSet(fs)
<1>1. Len(fs) \in Nat \ {0} /\ DOMAIN fs = 1 .. Len(fs)
  BY DEF IsFileList
<1>2. ASSUME NEW f \in DOMAIN fs
      PROVE  /\ Len(fs[f]) \in Nat /\ DOMAIN fs[f] = 1 .. Len(fs[f])
             /\ \A l \in DOMAIN fs[f] : Given(fs[f][l]) \in Seq(T)
             /\ PacketsOf(fs[f]) = FirstLines(fs[f], Len(fs[f]))
             /\ \A n \in 0 .. Len(fs[f]) : FirstLines(fs[f], n) \in Seq(T)
             /\ PacketsOf(fs[f]) \in Seq(T)
  <2>1. Len(fs[f]) \in Nat /\ DOMAIN fs[f] = 1 .. Len(fs[f])
    BY DEF IsFileList
  <2>2. ASSUME NEW l \in DOMAIN fs[f] PROVE Given(fs[f][l]) \in Seq(T)
    <3>1. ParsePacketLine(fs[f][l]) \in T
      BY DEF PacketSet
    <3> HIDE DEF T
    <3> QED BY <3>1 DEF Given
  <2> HIDE DEF T
  <2>3. PacketsOf(fs[f]) = FirstLines(fs[f], Len(fs[f]))
    BY <2>1 DEF PacketsOf, FirstLines
  <2>4. ASSUME NEW n \in 0 .. Len(fs[f]) PROVE FirstLines(fs[f], n) \in Seq(T)
    <3>1. \A l \in 1 .. n : Given(fs[f][l]) \in Seq(T)
      BY <2>1, <2>2
    <3>2. n \in Nat
      BY <2>1
    <3>3. [l \in 1 .. n |-> Given(fs[f][l])] \in Seq(Seq(T))
      BY <3>1, <3>2
    <3> QED BY <3>3, FlattenType DEF FirstLines
  <2>5. PacketsOf(fs[f]) \in Seq(T)
    BY <2>1, <2>3, <2>4
  <2> QED BY <2>1, <2>2, <2>3, <2>4, <2>5
<1>3. ASSUME NEW n \in 0 .. Len(fs) PROVE FirstFiles(fs, n) \in Seq(T)
  <2>1. \A f \in 1 .. n : PacketsOf(fs[f]) \in Seq(T)
    BY <1>1, <1>2
  <2>2. n \in Nat
    BY <1>1
  <2> HIDE DEF T
  <2>3. [f \in 1 .. n |-> PacketsOf(fs[f])] \in Seq(Seq(T))
    BY <2>1, <2>2
  <2> QED BY <2>3, FlattenType DEF FirstFiles
<1> QED BY <1>1, <1>2, <1>3

(* Positions: the start, the next line, the next file and the end. *)
LEMMA UptoSteps ==
    ASSUME NEW fs, IsFileList(fs)
    PROVE  /\ Upto(fs, 1, 0) = << >>
           /\ \A f \in DOMAIN fs : \A l \in 1 .. Len(fs[f]) :
                 /\ Upto(fs, f, l - 1) \in Seq(PacketSet(fs))
                 /\ Upto(fs, f, l) = Upto(fs, f, l - 1) \o Given(fs[f][l])
           /\ \A f \in DOMAIN fs :
                 Upto(fs, f, Len(fs[f])) = FirstFiles(fs, f)
           /\ \A f \in DOMAIN fs :
                 f + 1 \in DOMAIN fs => Upto(fs, f + 1, 0) = FirstFiles(fs, f)
           /\ FirstFiles(fs, Len(fs)) = FlattenSeq([f \in DOMAIN fs |-> PacketsOf(fs[f])])
<1> DEFINE T == PacketSet(fs)
<1>1. /\ Len(fs) \in Nat \ {0} /\ DOMAIN fs = 1 .. Len(fs)
      /\ \A f \in DOMAIN fs :
            /\ Len(fs[f]) \in Nat /\ DOMAIN fs[f] = 1 .. Len(fs[f])
            /\ \A l \in DOMAIN fs[f] : Given(fs[f][l]) \in Seq(T)
            /\ PacketsOf(fs[f]) = FirstLines(fs[f], Len(fs[f]))
            /\ \A n \in 0 .. Len(fs[f]) : FirstLines(fs[f], n) \in Seq(T)
            /\ PacketsOf(fs[f]) \in Seq(T)
      /\ \A n \in 0 .. Len(fs) : FirstFiles(fs, n) \in Seq(T)
  BY PieceTypes
<1> HIDE DEF T
<1>2. \A x : FlattenSeq([i \in 1 .. 0 |-> x[i]]) = << >>
  <2> SUFFICES ASSUME NEW x PROVE FlattenSeq([i \in 1 .. 0 |-> x[i]]) = << >>
    OBVIOUS
  <2>1. [i \in 1 .. 0 |-> x[i]] = << >> /\ Len([i \in 1 .. 0 |-> x[i]]) = 0
    OBVIOUS
  <2> QED BY <2>1 DEF FlattenSeq
<1>3. FirstFiles(fs, 0) = << >>
  <2>1. [f \in 1 .. 0 |-> PacketsOf(fs[f])] = << >> /\ Len(<< >>) = 0
    OBVIOUS
  <2> QED BY <2>1 DEF FirstFiles, FlattenSeq
<1>4. ASSUME NEW file PROVE FirstLines(file, 0) = << >>
  <2>1. [l \in 1 .. 0 |-> Given(file[l])] = << >> /\ Len(<< >>) = 0
    OBVIOUS
  <2> QED BY <2>1 DEF FirstLines, FlattenSeq
<1>5. Upto(fs, 1, 0) = << >>
  <2>1. 1 - 1 = 0 /\ << >> \o << >> = << >>
    OBVIOUS
  <2> QED BY <1>3, <1>4, <2>1 DEF Upto
<1>6. ASSUME NEW f \in DOMAIN fs, NEW l \in 1 .. Len(fs[f])
      PROVE  /\ Upto(fs, f, l - 1) \in Seq(T)
             /\ Upto(fs, f, l) = Upto(fs, f, l - 1) \o Given(fs[f][l])
  <2>1. f - 1 \in 0 .. Len(fs) /\ l - 1 \in 0 .. Len(fs[f]) /\ l - 1 \in Nat /\ (l - 1) + 1 = l
    BY <1>1
  <2>2. /\ FirstFiles(fs, f - 1) \in Seq(T)
        /\ FirstLines(fs[f], l - 1) \in Seq(T)
        /\ Given(fs[f][l]) \in Seq(T)
    BY <1>1, <2>1
  <2>3. FirstLines(fs[f], l) = FirstLines(fs[f], l - 1) \o Given(fs[f][l])
    <3> DEFINE s == [i \in 1 .. Len(fs[f]) |-> Given(fs[f][i])]
    <3>1. \A i \in 1 .. (l - 1) + 1 : s[i] = Given(fs[f][i]) /\ s[i] \in Seq(T)
      BY SMTT(30), <1>1, <2>1
    <3>2. /\ [i \in 1 .. (l - 1) + 1 |-> s[i]] = [i \in 1 .. l |-> Given(fs[f][i])]
          /\ [i \in 1 .. l - 1 |-> s[i]] = [i \in 1 .. l - 1 |-> Given(fs[f][i])]
          /\ s[(l - 1) + 1] = Given(fs[f][l])
      BY <1>1, <2>1
    <3> HIDE DEF s
    <3>3. Joined(s, (l - 1) + 1) = Joined(s, l - 1) \o s[(l - 1) + 1]
      BY <2>1, <3>1, FlattenOneMore
    <3> QED BY <3>2, <3>3 DEF FirstLines, Joined
  <2>4. (FirstFiles(fs, f - 1) \o FirstLines(fs[f], l - 1)) \o Given(fs[f][l])
          = FirstFiles(fs, f - 1) \o (FirstLines(fs[f], l - 1) \o Given(fs[f][l]))
    BY <2>2, ConcatAssociative
  <2> QED BY <2>2, <2>3, <2>4, ConcatProperties DEF Upto
<1>7. ASSUME NEW f \in DOMAIN fs PROVE Upto(fs, f, Len(fs[f])) = FirstFiles(fs, f)
  <2>1. f - 1 \in Nat /\ (f - 1) + 1 = f
    BY <1>1
  <2> DEFINE s == [i \in 1 .. Len(fs) |-> PacketsOf(fs[i])]
  <2>2. \A i \in 1 .. (f - 1) + 1 : s[i] = PacketsOf(fs[i]) /\ s[i] \in Seq(T)
    <3>1. \A i \in 1 .. (f - 1) + 1 : i \in 1 .. Len(fs) /\ i \in DOMAIN fs
      BY <1>1
    <3> QED BY <1>1, <3>1
  <2>3. /\ [i \in 1 .. (f - 1) + 1 |-> s[i]] = [i \in 1 .. f |-> PacketsOf(fs[i])]
        /\ [i \in 1 .. f - 1 |-> s[i]] = [i \in 1 .. f - 1 |-> PacketsOf(fs[i])]
        /\ s[(f - 1) + 1] = PacketsOf(fs[f])
    BY <1>1, <2>1
  <2> HIDE DEF s
  <2>4. Joined(s, (f - 1) + 1) = Joined(s, f - 1) \o s[(f - 1) + 1]
    BY <2>1, <2>2, FlattenOneMore
  <2>5. FirstFiles(fs, f) = FirstFiles(fs, f - 1) \o PacketsOf(fs[f])
    BY <2>3, <2>4 DEF FirstFiles, Joined
  <2> QED BY <1>1, <2>5 DEF Upto
<1>8. ASSUME NEW f \in DOMAIN fs, f + 1 \in DOMAIN fs
      PROVE  Upto(fs, f + 1, 0) = FirstFiles(fs, f)
  <2>1. (f + 1) - 1 = f /\ FirstFiles(fs, f) \in Seq(T)
    BY <1>1
  <2> QED BY <1>4, <2>1, ConcatEmptySeq DEF Upto
<1>9. FirstFiles(fs, Len(fs)) = FlattenSeq([f \in DOMAIN fs |-> PacketsOf(fs[f])])
  BY <1>1 DEF FirstFiles
<1> QED BY <1>5, <1>6, <1>7, <1>8, <1>9 DEF T

(* What stands before a position is a prefix of all there is. *)
LEMMA UptoIsPrefix ==
    ASSUME NEW fs, IsFileList(fs), NEW f \in DOMAIN fs, NEW l \in 0 .. Len(fs[f])
    PROVE  IsPrefix(Upto(fs, f, l), FirstFiles(fs, Len(fs)))
<1> DEFINE T == PacketSet(fs)
<1>1. /\ Len(fs) \in Nat \ {0} /\ DOMAIN fs = 1 .. Len(fs)
      /\ \A g \in DOMAIN fs :
            /\ Len(fs[g]) \in Nat /\ DOMAIN fs[g] = 1 .. Len(fs[g])
            /\ \A n \in DOMAIN fs[g] : Given(fs[g][n]) \in Seq(T)
            /\ PacketsOf(fs[g]) = FirstLines(fs[g], Len(fs[g]))
            /\ \A n \in 0 .. Len(fs[g]) : FirstLines(fs[g], n) \in Seq(T)
            /\ PacketsOf(fs[g]) \in Seq(T)
      /\ \A n \in 0 .. Len(fs) : FirstFiles(fs, n) \in Seq(T)
  BY PieceTypes
<1> HIDE DEF T
<1>2. PICK a : a \in Seq(T) /\ FirstLines(fs[f], Len(fs[f])) = FirstLines(fs[f], l) \o a
  <2> DEFINE n == Len(fs[f])
             s == [i \in 1 .. n |-> Given(fs[f][i])]
  <2>1. /\ n \in Nat /\ l \in 0 .. n
        /\ \A i \in 1 .. n : s[i] = Given(fs[f][i])
        /\ \A i \in 1 .. n : s[i] \in Seq(T)
    BY <1>1
  <2>2. /\ [i \in 1 .. n |-> s[i]] = [i \in 1 .. n |-> Given(fs[f][i])]
        /\ [i \in 1 .. l |-> s[i]] = [i \in 1 .. l |-> Given(fs[f][i])]
    BY <2>1
  <2> HIDE DEF n, s
  <2>3. GoesOn(Joined(s, n), Joined(s, l), T)
    BY <2>1, FlattenGrows
  <2> QED BY <2>2, <2>3 DEF FirstLines, Joined, GoesOn, n
<1>3. PICK b : b \in Seq(T) /\ FirstFiles(fs, Len(fs)) = FirstFiles(fs, f) \o b
  <2> DEFINE n == Len(fs)
             s == [i \in 1 .. n |-> PacketsOf(fs[i])]
  <2>1. /\ n \in Nat /\ f \in 0 .. n
        /\ \A i \in 1 .. n : s[i] = PacketsOf(fs[i])
        /\ \A i \in 1 .. n : s[i] \in Seq(T)
    <3>1. n \in Nat /\ DOMAIN fs = 1 .. n /\ f \in 0 .. n
      BY <1>1
    <3> HIDE DEF n
    <3> QED BY <1>1, <3>1
  <2>2. /\ [i \in 1 .. n |-> s[i]] = [i \in 1 .. n |-> PacketsOf(fs[i])]
        /\ [i \in 1 .. f |-> s[i]] = [i \in 1 .. f |-> PacketsOf(fs[i])]
    BY <2>1
  <2> HIDE DEF n, s
  <2>3. GoesOn(Joined(s, n), Joined(s, f), T)
    BY <2>1, FlattenGrows
  <2> QED BY <2>2, <2>3 DEF FirstFiles, Joined, GoesOn, n
<1>4. /\ FirstFiles(fs, f - 1) \in Seq(T) /\ FirstLines(fs[f], l) \in Seq(T)
      /\ FirstFiles(fs, f) \in Seq(T)
  <2>1. f - 1 \in 0 .. Len(fs) /\ f \in 0 .. Len(fs)
    BY <1>1
  <2> QED BY <1>1, <2>1
<1>0. \A x, y, z \in Seq(T) : (x \o y) \o z = x \o (y \o z)
  BY SMTT(30), ConcatAssociative
<1>5. FirstFiles(fs, f) = Upto(fs, f, l) \o a
  <2>1. FirstFiles(fs, f) = FirstFiles(fs, f - 1) \o (FirstLines(fs[f], l) \o a)
    BY <1>2, UptoSteps DEF Upto
  <2> QED BY <1>0, <1>2, <1>4, <2>1 DEF Upto
<1>6. Upto(fs, f, l) \in Seq(T)
  BY <1>4, ConcatProperties DEF Upto
<1>7. a \o b \in Seq(T)
  BY <1>2, <1>3
<1>8. FirstFiles(fs, Len(fs)) = Upto(fs, f, l) \o (a \o b)
  <2>1. a \in Seq(T) /\ b \in Seq(T)
    BY <1>2, <1>3
  <2>2. (Upto(fs, f, l) \o a) \o b = Upto(fs, f, l) \o (a \o b)
    BY <1>0, <1>6, <2>1
  <2> QED BY <1>3, <1>5, <2>2
<1> HIDE DEF Upto
<1> QED BY <1>6, <1>7, <1>8 DEF IsPrefix

-----------------------------------------------------------------------------
(* The invariant                                                           *)

FieldsInv ==
    /\ files \in FileLists
    /\ closed \in BOOLEAN
    /\ current \in Nat
    /\ index \in 0 .. Len(files) - 1
    /\ scanner \in [id : Nat, file : DOMAIN files, pos : Nat, tok : Nat, err : BOOLEAN]
    /\ scanner.pos <= Len(files[scanner.file])
    /\ scanner.tok <= Len(files[scanner.file])
    /\ scanner.id = 0 => scanner = Nil

HandlesInv ==
    /\ IsFiniteSet(handles)
    /\ handles \subseteq [id : Nat \ {0}, by : Readers \X Nat]
    /\ \A h \in handles : h.by[2] <= runs[h.by[1]]

Places == {"idle", "open", "openfile", "loop", "check", "scanned", "text", "err", "advance",
           "close", "forget", "done"}

Results == {"none", "stopped", "eof", "error"}

PlacesInv ==
    /\ pc \in [Readers -> Places]
    /\ result \in [Readers -> Results]
    /\ panicked \in Readers \cup {Nobody}

CountsInv ==
    /\ at \in [Readers -> Nat] /\ \A g \in Readers : at[g] <= Len(files)
    /\ runs \in [Readers -> Nat]
    /\ alone \in [Readers -> BOOLEAN]
    /\ DOMAIN delivered = Readers

ScansInv ==
    /\ mine \in [Readers -> Nat]
    /\ from \in [Readers -> Nat]
    /\ torn \in [Readers -> BOOLEAN]
    /\ \A g \in Readers : mine[g] # 0 => pc[g] = "scanned"
    /\ \A g \in Readers : panicked = Nobody /\ pc[g] = "scanned" => mine[g] # 0

LocalsInv == PlacesInv /\ CountsInv /\ ScansInv

TypesInv == FieldsInv /\ HandlesInv /\ LocalsInv

(* Nobody is at work beside a session that is alone, and it meets nobody   *)
(* inside Scan. *)
AloneInv ==
    /\ \A g, h \in Readers : alone[g] /\ Active(g) /\ h # g => ~ Active(h)
    /\ \A g \in Readers : torn[g] => pc[g] = "scanned" /\ ~ alone[g]

(* The handles that this run of a session opened and nobody closed.        *)
Own(g) == {h \in handles : h.by = <<g, runs[g]>>}

OwnIsCurrent(g) == \A h \in Own(g) : h.id = current

(* What a session may have been given when it has ended. *)
Ended(g) ==
    /\ IsPrefix(delivered[g], FirstFiles(files, Len(files)))
    /\ result[g] = "eof" => delivered[g] = FirstFiles(files, Len(files))

Resting(g) == Own(g) = {} /\ Ended(g)

(* The scanner of a session that is alone reads the file at the index,     *)
(* through the handle that will be closed.                                 *)
Reading(g) ==
    /\ result[g] = "none"
    /\ current # 0 /\ scanner.id = current
    /\ scanner.file = index + 1
    /\ OwnIsCurrent(g)

(* The files up to the index are read, and there are more. *)
Rotating(g) ==
    /\ index + 1 < Len(files)
    /\ delivered[g] = FirstFiles(files, index + 1)

Opening(g) ==
    /\ result[g] = "none" /\ Own(g) = {}
    /\ at[g] = 0 => delivered[g] = << >>
    /\ at[g] # 0 => at[g] < Len(files) /\ delivered[g] = FirstFiles(files, at[g])

AtLine(g) ==
    /\ Reading(g)
    /\ ~ scanner.err
    /\ delivered[g] = Upto(files, scanner.file, scanner.pos)

InText(g) ==
    /\ Reading(g)
    /\ ~ scanner.err
    /\ scanner.pos # 0 /\ scanner.tok = scanner.pos
    /\ delivered[g] = Upto(files, scanner.file, scanner.pos - 1)

AtEnd(g) ==
    /\ Reading(g)
    /\ delivered[g] = Upto(files, scanner.file, scanner.pos)
    /\ ~ scanner.err => scanner.pos = Len(files[scanner.file])

(* Where a session that is alone stands in the files, for each place in the *)
(* code. *)
Working(g) ==
    /\ pc[g] = "open" => result[g] = "none" /\ Own(g) = {} /\ delivered[g] = << >>
    /\ pc[g] = "openfile" => Opening(g)
    /\ pc[g] \in {"loop", "check", "scanned"} => AtLine(g)
    /\ pc[g] = "scanned" => mine[g] = scanner.id /\ from[g] = scanner.pos
    /\ pc[g] = "text" => InText(g)
    /\ pc[g] = "err" => AtEnd(g)
    /\ pc[g] = "advance" => result[g] = "none" /\ OwnIsCurrent(g) /\ Rotating(g)
    /\ pc[g] = "close" => result[g] # "none" /\ OwnIsCurrent(g) /\ Ended(g)
    /\ pc[g] = "forget" => /\ Own(g) = {}
                           /\ result[g] = "none" => Rotating(g)
                           /\ result[g] # "none" => Ended(g)

Sound(g) ==
    /\ panicked # g
    /\ Active(g) => Working(g)
    /\ ~ Active(g) => Resting(g)

SessionsInv == \A g \in Readers : alone[g] => Sound(g)

SourceInv == TypesInv /\ AloneInv /\ SessionsInv

(* A list of files is what the lemmas about positions ask for. *)
LEMMA FilesAreLists == FieldsInv => IsFileList(files) /\ Len(files) \in Nat \ {0}
<1> SUFFICES ASSUME FieldsInv PROVE IsFileList(files) /\ Len(files) \in Nat \ {0}
  OBVIOUS
<1>1. IsFileList(files)
  BY FilesAssumption DEF FieldsInv, IsFileList
<1> QED BY <1>1, PieceTypes

(* At the start everything is nil and nobody is at work. *)
LEMMA SourceInvInit == SourceInit => SourceInv
<1> SUFFICES ASSUME SourceInit PROVE SourceInv
  OBVIOUS
<1>1. files \in FileLists /\ IsFileList(files)
  BY FilesAssumption DEF SourceInit, IsFileList
<1>2. Len(files) \in Nat \ {0} /\ DOMAIN files = 1 .. Len(files) /\ Len(files[1]) \in Nat
  BY <1>1, PieceTypes
<1>3. FieldsInv
  <2>1. scanner = [id |-> 0, file |-> 1, pos |-> 0, tok |-> 0, err |-> FALSE]
    BY DEF SourceInit, Nil, NewScanner
  <2>2. scanner \in [id : Nat, file : DOMAIN files, pos : Nat, tok : Nat, err : BOOLEAN]
    BY <1>2, <2>1
  <2>3. closed = FALSE /\ current = 0 /\ index = 0 /\ scanner = Nil
    BY DEF SourceInit
  <2>4. scanner.file = 1 /\ scanner.pos = 0 /\ scanner.tok = 0
    BY <2>1
  <2>5. scanner.pos <= Len(files[scanner.file]) /\ scanner.tok <= Len(files[scanner.file])
    BY <1>2, <2>4
  <2>6. current \in Nat /\ index \in 0 .. Len(files) - 1
    BY <1>2, <2>3
  <2> QED BY <1>1, <2>2, <2>3, <2>5, <2>6 DEF FieldsInv
<1>4. HandlesInv
  BY FS_EmptySet DEF SourceInit, HandlesInv
<1>5. LocalsInv
  BY <1>2 DEF SourceInit, LocalsInv, PlacesInv, CountsInv, ScansInv, Places, Results
<1>6. AloneInv
  BY DEF SourceInit, AloneInv, Active
<1>7. ASSUME NEW g \in Readers PROVE Sound(g)
  <2>1. panicked # g /\ ~ Active(g) /\ result[g] = "none" /\ delivered[g] = << >>
    BY FilesAssumption DEF SourceInit, Active, Readers
  <2>2. Own(g) = {}
    BY DEF SourceInit, Own
  <2>3. IsPrefix(<< >>, FirstFiles(files, Len(files)))
    <3>1. IsPrefix(Upto(files, 1, 0), FirstFiles(files, Len(files)))
      BY <1>1, <1>2, UptoIsPrefix
    <3> QED BY <1>1, <3>1, UptoSteps
  <2> QED BY <2>1, <2>2, <2>3 DEF Sound, Resting, Ended
<1> QED BY <1>3, <1>4, <1>5, <1>6, <1>7 DEF SourceInv, TypesInv, SessionsInv

-----------------------------------------------------------------------------
(* Types                                                                   *)

(* There is a number no handle has, and the least one is taken. *)
LEMMA FreshHandle ==
    ASSUME NEW used, IsFiniteSet(used)
    PROVE  Min(1 .. Cardinality(used) + 1 \ used) \in Nat \ {0}
<1> DEFINE c == Cardinality(used)
           free == 1 .. c + 1 \ used
<1>1. c \in Nat
  BY FS_CardinalityType
<1>2. IsFiniteSet(1 .. c + 1) /\ Cardinality(1 .. c + 1) = c + 1
  <2>1. c + 1 \in Nat /\ 1 \in Nat
    BY <1>1
  <2> HIDE DEF c
  <2> QED BY <1>1, <2>1, FS_Interval
<1>3. free # {}
  <2> SUFFICES ASSUME 1 .. c + 1 \subseteq used PROVE FALSE
    OBVIOUS
  <2>1. Cardinality(1 .. c + 1) <= Cardinality(used)
    BY FS_Subset
  <2> QED BY <1>1, <1>2, <2>1
<1>4. \E n \in free : \A m \in free : n <= m
  <2>1. free \subseteq Nat
    BY <1>1
  <2> HIDE DEF free
  <2> QED BY <1>3, <2>1, LeastNat
<1>5. Min(free) \in free
  <2> HIDE DEF free
  <2> QED BY <1>4 DEF Min
<1>6. free \subseteq Nat \ {0}
  BY <1>1
<1> QED BY <1>5, <1>6

(* The handles in use are finitely many. *)
LEMMA UsedIsFinite ==
    ASSUME TypesInv
    PROVE  IsFiniteSet({h.id : h \in handles} \cup {mine[h] : h \in Readers}
                         \cup {current, scanner.id})
<1>1. IsFiniteSet({h.id : h \in handles})
  <2> DEFINE f == [h \in handles |-> h.id]
  <2>1. f \in Surjection(handles, {h.id : h \in handles}) /\ IsFiniteSet(handles)
    BY DEF Surjection, TypesInv, HandlesInv
  <2> QED BY <2>1, FS_Surjection
<1>2. IsFiniteSet({mine[h] : h \in Readers})
  <2>1. mine \in Surjection(Readers, {mine[h] : h \in Readers}) /\ IsFiniteSet(Readers)
    BY FilesAssumption DEF Surjection, TypesInv, LocalsInv, ScansInv, Readers
  <2> QED BY <2>1, FS_Surjection
<1>3. IsFiniteSet({current, scanner.id})
  <2>1. IsFiniteSet({current}) /\ {current, scanner.id} = {current} \cup {scanner.id}
    BY FS_Singleton
  <2> QED BY <2>1, FS_AddElement
<1> QED BY <1>1, <1>2, <1>3, FS_Union

(* Every step leaves the list of files as it is. *)
LEMMA FilesStay ==
    ASSUME SourceNext
    PROVE  files' = files
BY DEF SourceNext, Step, Start, Open, OpenFile, Next, Continue, Scanned, Text, Err, CloseFile,
       Forget, fieldVars

(* The scanner, the index and the handle keep their types. *)
LEMMA FieldsStep ==
    ASSUME TypesInv, SourceNext
    PROVE  FieldsInv'
<1>0. /\ files' = files /\ Len(files) \in Nat \ {0} /\ DOMAIN files = 1 .. Len(files)
      /\ \A f \in DOMAIN files : Len(files[f]) \in Nat
  BY FilesAreLists, FilesStay, PieceTypes DEF TypesInv
<1>1. CASE UNCHANGED <<closed, current, scanner, index>>
  BY <1>0, <1>1 DEF TypesInv, FieldsInv
<1>2. ASSUME NEW g \in Readers, Open(g) PROVE FieldsInv'
  BY <1>0, <1>2 DEF Open, TypesInv, FieldsInv
<1>3. ASSUME NEW g \in Readers, OpenFile(g), OpenSucceeds(g) PROVE FieldsInv'
  <2> DEFINE used == {h.id : h \in handles} \cup {mine[h] : h \in Readers}
                       \cup {current, scanner.id}
             fresh == Min(1 .. Cardinality(used) + 1 \ used)
  <2>1. fresh \in Nat \ {0}
    BY UsedIsFinite, FreshHandle
  <2>2. at[g] \in Nat /\ at[g] < Len(files)
    BY <1>3 DEF OpenSucceeds, TypesInv, LocalsInv, CountsInv
  <2>3. /\ current' = fresh /\ index' = at[g] /\ closed' = closed
        /\ scanner' = [id |-> fresh, file |-> at[g] + 1, pos |-> 0, tok |-> 0, err |-> FALSE]
    BY <1>3 DEF OpenSucceeds, OpenFile, OpenedIndex, NewScanner
  <2> HIDE DEF fresh
  <2>4. at[g] + 1 \in DOMAIN files
    BY <1>0, <2>2
  <2>5. scanner' \in [id : Nat, file : DOMAIN files, pos : Nat, tok : Nat, err : BOOLEAN]
    BY <2>1, <2>3, <2>4
  <2>6. scanner'.pos = 0 /\ scanner'.tok = 0 /\ scanner'.file = at[g] + 1 /\ scanner'.id # 0
    BY <2>1, <2>3
  <2>7. /\ scanner'.pos <= Len(files[scanner'.file])
        /\ scanner'.tok <= Len(files[scanner'.file])
    BY <1>0, <2>4, <2>6
  <2>8. current' \in Nat /\ index' \in 0 .. Len(files) - 1
    BY <1>0, <2>1, <2>2, <2>3
  <2> QED BY <1>0, <2>3, <2>5, <2>6, <2>7, <2>8 DEF TypesInv, FieldsInv
<1>4. ASSUME NEW g \in Readers, Scanned(g), panicked = Nobody PROVE FieldsInv'
  <2>0. UNCHANGED <<closed, current, index>>
    BY <1>4 DEF Scanned
  <2>1. CASE scanner' = scanner
    BY <1>1, <2>0, <2>1
  <2>2. CASE scanner' # scanner
    <3>1. PICK o \in ScanOutcomes(g) :
             scanner' = [scanner EXCEPT !.pos = IF o > 0 THEN o ELSE @,
                                        !.tok = IF o > 0 THEN o ELSE 0,
                                        !.err = @ \/ o = -1]
      BY <1>4, <2>2 DEF Scanned
    <3>2. mine[g] = scanner.id /\ pc[g] = "scanned"
      BY <1>4, <2>2 DEF Scanned
    <3>3. scanner.id # 0
      BY <1>4, <3>2 DEF TypesInv, LocalsInv, ScansInv
    <3>4. /\ scanner \in [id : Nat, file : DOMAIN files, pos : Nat, tok : Nat, err : BOOLEAN]
          /\ scanner.pos <= Len(files[scanner.file])
          /\ from[g] \in Nat /\ Len(files[scanner.file]) \in Nat
      BY <1>0 DEF TypesInv, FieldsInv, LocalsInv, CountsInv, ScansInv
    <3>5. o \in Int /\ o <= Len(files[scanner.file])
      BY <3>1, <3>4 DEF ScanOutcomes
    <3> DEFINE pos == IF o > 0 THEN o ELSE scanner.pos
               tok == IF o > 0 THEN o ELSE 0
               err == scanner.err \/ o = -1
    <3>6. scanner' = [id |-> scanner.id, file |-> scanner.file, pos |-> pos, tok |-> tok,
                      err |-> err]
      BY <3>1, <3>4
    <3>7. /\ pos \in Nat /\ pos <= Len(files[scanner.file])
          /\ tok \in Nat /\ tok <= Len(files[scanner.file])
          /\ err \in BOOLEAN
      BY <3>4, <3>5
    <3> HIDE DEF pos, tok, err
    <3>8. /\ scanner' \in [id : Nat, file : DOMAIN files, pos : Nat, tok : Nat, err : BOOLEAN]
          /\ scanner'.file = scanner.file /\ scanner'.pos = pos /\ scanner'.tok = tok
          /\ scanner'.id # 0
      BY <3>3, <3>4, <3>6, <3>7
    <3> QED BY <1>0, <2>0, <3>7, <3>8 DEF TypesInv, FieldsInv
  <2> QED BY <2>1, <2>2
<1>5. ASSUME NEW g \in Readers, CloseFile(g) PROVE FieldsInv'
  BY <1>0, <1>5 DEF CloseFile, TypesInv, FieldsInv
<1>6. ASSUME NEW g \in Readers, Forget(g) PROVE FieldsInv'
  <2>1. Nil \in [id : Nat, file : DOMAIN files, pos : Nat, tok : Nat, err : BOOLEAN]
        /\ Nil.pos = 0 /\ Nil.tok = 0 /\ Nil.file = 1
    BY <1>0 DEF Nil, NewScanner
  <2>2. 0 <= Len(files[1])
    BY <1>0
  <2> QED BY <1>0, <1>6, <2>1, <2>2 DEF Forget, TypesInv, FieldsInv
<1>7. ASSUME NEW g \in Readers, OpenFile(g), OpenFails(g) PROVE FieldsInv'
  BY <1>1, <1>7 DEF OpenFile, OpenFails
<1>8. ASSUME NEW g \in Readers, Start(g) \/ Next(g) \/ Continue(g) \/ Text(g) \/ Err(g)
      PROVE  FieldsInv'
  BY <1>1, <1>8 DEF Start, Next, Continue, Text, Err, fieldVars
<1> QED BY <1>2, <1>3, <1>4, <1>5, <1>6, <1>7, <1>8 DEF SourceNext, Step, OpenFile

(* Handles are known by numbers from one on, and by a run that has begun. *)
LEMMA HandlesStep ==
    ASSUME TypesInv, SourceNext
    PROVE  HandlesInv'
<1>0. /\ IsFiniteSet(handles)
      /\ \A h \in handles : /\ h \in [id : Nat \ {0}, by : Readers \X Nat]
                            /\ h.by[1] \in Readers
                            /\ h.by[2] <= runs[h.by[1]]
      /\ runs \in [Readers -> Nat]
  BY DEF TypesInv, HandlesInv, LocalsInv, CountsInv
<1>1. CASE UNCHANGED <<handles, runs>>
  BY <1>0, <1>1 DEF HandlesInv
<1>2. ASSUME NEW g \in Readers, Start(g) PROVE HandlesInv'
  <2>1. handles' = handles /\ runs' = [runs EXCEPT ![g] = @ + 1]
    BY <1>2 DEF Start
  <2>2. \A k \in Readers : runs[k] <= runs'[k]
    BY <1>0, <2>1
  <2>3. ASSUME NEW h \in handles PROVE h.by[2] <= runs'[h.by[1]]
    <3>1. h.by[2] \in Nat /\ runs[h.by[1]] \in Nat /\ runs'[h.by[1]] \in Nat
      BY <1>0, <2>1
    <3> QED BY <1>0, <2>2, <3>1
  <2> QED BY <1>0, <2>1, <2>3 DEF HandlesInv
<1>3. ASSUME NEW g \in Readers, OpenFile(g), OpenSucceeds(g) PROVE HandlesInv'
  <2> DEFINE used == {h.id : h \in handles} \cup {mine[h] : h \in Readers}
                       \cup {current, scanner.id}
             fresh == Min(1 .. Cardinality(used) + 1 \ used)
             new == [id |-> fresh, by |-> <<g, runs[g]>>]
  <2>1. fresh \in Nat \ {0}
    BY UsedIsFinite, FreshHandle
  <2>2. handles' = handles \cup {new} /\ runs' = runs
    BY <1>3 DEF OpenSucceeds, OpenFile
  <2> HIDE DEF fresh
  <2>3. /\ new \in [id : Nat \ {0}, by : Readers \X Nat]
        /\ new.by[1] = g /\ new.by[2] = runs[g]
    BY <1>0, <2>1
  <2> HIDE DEF new
  <2>4. IsFiniteSet(handles \cup {new})
    BY <1>0, FS_AddElement
  <2>5. new.by[2] <= runs[new.by[1]]
    BY <1>0, <2>3
  <2> QED BY <1>0, <2>2, <2>3, <2>4, <2>5 DEF HandlesInv
<1>4. ASSUME NEW g \in Readers, CloseFile(g) PROVE HandlesInv'
  <2>1. handles' \in SUBSET handles /\ runs' = runs
    BY <1>4 DEF CloseFile
  <2>2. IsFiniteSet(handles')
    BY <1>0, <2>1, FS_Subset
  <2> QED BY <1>0, <2>1, <2>2 DEF HandlesInv
<1>5. ASSUME NEW g \in Readers, OpenFile(g), OpenFails(g) PROVE HandlesInv'
  BY <1>1, <1>5 DEF OpenFile, OpenFails
<1>6. ASSUME NEW g \in Readers,
             Open(g) \/ Next(g) \/ Continue(g) \/ Scanned(g) \/ Text(g) \/ Err(g) \/ Forget(g)
      PROVE  HandlesInv'
  BY <1>1, <1>6 DEF Open, Next, Continue, Scanned, Text, Err, Forget
<1> QED BY <1>2, <1>3, <1>4, <1>5, <1>6 DEF SourceNext, Step, OpenFile

(* A session is somewhere in the code, ends in one of four ways, and takes *)
(* the process with it only when it is one of the readers. *)
LEMMA PlacesStep ==
    ASSUME PlacesInv, SourceNext
    PROVE  PlacesInv'
<1>1. PICK g \in Readers : Step(g) \/ Start(g)
  BY DEF SourceNext
<1>3. \/ pc' = pc
      \/ \E p \in Places : pc' = [pc EXCEPT ![g] = p]
  BY <1>1 DEF Step, Start, Open, OpenFile, OpenFails, OpenSucceeds, Next, Continue, BeginScan,
       Scanned, AfterScan, Text, ParseText, Skip, Deliver, Malformed, Err, OnError, CloseFile,
       Forget, AfterClose, Goto, End, Panic, Places
<1>4. \/ result' = result
      \/ \E r \in Results : result' = [result EXCEPT ![g] = r]
  BY <1>1 DEF Step, Start, Open, OpenFile, OpenFails, OpenSucceeds, Next, Continue, BeginScan,
       Scanned, Text, ParseText, Skip, Deliver, Malformed, Err, OnError, CloseFile,
       Forget, End, Panic, Results
<1>5. panicked' \in {panicked, g}
  BY <1>1 DEF Step, Start, Open, OpenFile, Next, Continue, BeginScan, Scanned, Text, Err,
       CloseFile, Forget, Panic
<1>6. pc' \in [Readers -> Places]
  BY <1>3 DEF PlacesInv
<1>7. result' \in [Readers -> Results]
  BY <1>4 DEF PlacesInv
<1> QED BY <1>5, <1>6, <1>7 DEF PlacesInv

(* The file to open is the first one or the one behind the index. *)
LEMMA CountsStep ==
    ASSUME TypesInv, SourceNext
    PROVE  CountsInv'
<1>0. /\ files' = files /\ Len(files) \in Nat \ {0}
      /\ index \in 0 .. Len(files) - 1 /\ CountsInv
  BY FilesAreLists, FilesStay DEF TypesInv, FieldsInv, LocalsInv
<1>1. PICK g \in Readers : Step(g) \/ Start(g)
  BY DEF SourceNext
<1>2. \/ at' = at
      \/ at' = [at EXCEPT ![g] = 0]
      \/ at' = [at EXCEPT ![g] = index + 1]
  BY <1>1 DEF Step, Start, Open, OpenFile, Next, Continue, Scanned, Text, Err, CloseFile,
       Forget, AfterClose
<1>3. runs' = runs \/ runs' = [runs EXCEPT ![g] = @ + 1]
  BY <1>1 DEF Step, Start, Open, OpenFile, Next, Continue, Scanned, Text, Err, CloseFile, Forget
<1>4. alone' = alone \/ alone' \in [Readers -> BOOLEAN]
  <2>1. CASE Start(g)
    BY <1>0, <2>1 DEF Start, CountsInv
  <2>2. CASE Step(g)
    BY <2>2 DEF Step, Open, OpenFile, Next, Continue, Scanned, Text, Err, CloseFile, Forget,
         historyVars
  <2> QED BY <1>1, <2>1, <2>2
<1>5. DOMAIN delivered' = Readers
  <2>1. CASE Start(g)
    BY <2>1 DEF Start
  <2>2. CASE Text(g)
    BY <1>0, <2>2 DEF Text, ParseText, Skip, Deliver, Malformed, CountsInv
  <2>3. CASE Step(g) /\ ~ Text(g)
    BY <1>0, <2>3 DEF Step, Open, OpenFile, Next, Continue, Scanned, Err, CloseFile, Forget,
         historyVars, CountsInv
  <2> QED BY <1>1, <2>1, <2>2, <2>3
<1>6. at' \in [Readers -> Nat] /\ \A k \in Readers : at'[k] <= Len(files)
  <2>1. index + 1 \in Nat /\ index + 1 <= Len(files) /\ 0 \in Nat /\ 0 <= Len(files)
    BY <1>0
  <2>2. at \in [Readers -> Nat] /\ \A k \in Readers : at[k] <= Len(files)
    BY <1>0 DEF CountsInv
  <2>3. CASE at' = at
    BY <2>2, <2>3
  <2>4. CASE at' = [at EXCEPT ![g] = 0]
    BY <2>1, <2>2, <2>4
  <2>5. CASE at' = [at EXCEPT ![g] = index + 1]
    BY <2>1, <2>2, <2>5
  <2> QED BY <1>2, <2>3, <2>4, <2>5
<1>7. runs' \in [Readers -> Nat] /\ alone' \in [Readers -> BOOLEAN]
  BY SMTT(30), <1>0, <1>3, <1>4 DEF CountsInv
<1> QED BY <1>0, <1>5, <1>6, <1>7 DEF CountsInv

(* A session holds a scanner exactly while it is inside Scan. *)
LEMMA ScansStep ==
    ASSUME TypesInv, SourceNext
    PROVE  ScansInv'
<1>0. /\ scanner \in [id : Nat, file : DOMAIN files, pos : Nat, tok : Nat, err : BOOLEAN]
      /\ scanner.id = 0 => scanner = Nil
      /\ pc \in [Readers -> Places]
      /\ mine \in [Readers -> Nat] /\ from \in [Readers -> Nat] /\ torn \in [Readers -> BOOLEAN]
      /\ \A g \in Readers : mine[g] # 0 <=> pc[g] = "scanned"
  BY DEF TypesInv, FieldsInv, LocalsInv, PlacesInv, ScansInv, SourceNext, Step
<1>1. PICK g \in Readers : Step(g) \/ Start(g)
  BY DEF SourceNext
<1>2. ASSUME UNCHANGED scanVars, pc[g] # "scanned",
             NEW p \in Places, p # "scanned", pc' = pc \/ pc' = [pc EXCEPT ![g] = p]
      PROVE  ScansInv'
  <2>1. \A k \in Readers : pc'[k] = "scanned" <=> pc[k] = "scanned"
    BY <1>0, <1>2
  <2> QED BY <1>0, <1>2, <2>1 DEF scanVars, ScansInv
<1>3. CASE Scanned(g)
  <2>1. /\ mine' = [mine EXCEPT ![g] = 0]
        /\ from' = [from EXCEPT ![g] = 0]
        /\ torn' = [torn EXCEPT ![g] = FALSE]
        /\ pc[g] = "scanned"
    BY <1>3 DEF Scanned
  <2>2. \/ pc' = [pc EXCEPT ![g] = "text"]
        \/ pc' = [pc EXCEPT ![g] = "err"]
        \/ pc' = pc /\ panicked' = g
    BY <1>3 DEF Scanned, AfterScan, Goto, Panic
  <2>3. panicked' = g => panicked' # Nobody
    BY FilesAssumption DEF Readers
  <2>4. \A k \in Readers : k # g => mine'[k] = mine[k] /\ pc'[k] = pc[k]
    BY <1>0, <2>1, <2>2
  <2>5. mine'[g] = 0 /\ (pc'[g] = "scanned" => panicked' # Nobody)
    BY <1>0, <2>1, <2>2, <2>3
  <2>6. /\ mine' \in [Readers -> Nat] /\ from' \in [Readers -> Nat]
        /\ torn' \in [Readers -> BOOLEAN]
    BY <1>0, <2>1
  <2>7. \A k \in Readers : mine'[k] # 0 => pc'[k] = "scanned"
    BY <1>0, <2>4, <2>5
  <2>8. \A k \in Readers : panicked' = Nobody /\ pc'[k] = "scanned" => mine'[k] # 0
    BY <1>0, <2>4, <2>5
  <2> QED BY <2>6, <2>7, <2>8 DEF ScansInv
<1>4. CASE BeginScan(g) /\ ~ UNCHANGED scanVars
  <2>0. scanner # Nil
    BY <1>4 DEF BeginScan
  <2>1. scanner.id \in Nat \ {0} /\ scanner.pos \in Nat
    BY <1>0, <2>0
  <2>2. /\ mine' = [mine EXCEPT ![g] = scanner.id]
        /\ from' = [from EXCEPT ![g] = scanner.pos]
        /\ pc' = [pc EXCEPT ![g] = "scanned"]
    BY <1>4 DEF BeginScan, Goto
  <2>3. torn' \in [Readers -> BOOLEAN]
    BY ZenonT(30), <1>0, <1>4 DEF BeginScan
  <2>4. mine' \in [Readers -> Nat] /\ from' \in [Readers -> Nat]
    BY <1>0, <2>1, <2>2
  <2>5. \A k \in Readers : mine'[k] # 0 <=> pc'[k] = "scanned"
    BY <1>0, <2>1, <2>2
  <2> QED BY <2>3, <2>4, <2>5 DEF ScansInv
<1>5. CASE /\ Step(g) \/ Start(g)
           /\ ~ Scanned(g)
           /\ ~ (BeginScan(g) /\ ~ UNCHANGED scanVars)
  <2>1. UNCHANGED scanVars /\ pc[g] # "scanned"
    BY <1>5 DEF Step, Start, Active, Open, OpenFile, Next, Continue, BeginScan, Text, Err,
         CloseFile, Forget
  <2>2. ~ (scanner # Nil /\ mine' = [mine EXCEPT ![g] = scanner.id])
    BY <1>0, <2>1 DEF scanVars
  <2>3. pc' = pc \/ \E p \in Places : p # "scanned" /\ pc' = [pc EXCEPT ![g] = p]
    BY <1>5, <2>2 DEF Step, Start, Open, OpenFile, OpenFails, OpenSucceeds, Next, Continue,
         BeginScan, Text, ParseText, Skip, Deliver, Malformed, Err, OnError, CloseFile,
         Forget, AfterClose, Goto, End, Panic, Places
  <2> QED BY <1>2, <2>1, <2>3 DEF Places
<1> QED BY <1>1, <1>3, <1>4, <1>5

(* Whatever sessions do to each other, the types stay. *)
LEMMA TypesStep == TypesInv /\ [SourceNext]_sourceVars => TypesInv'
<1>1. TypesInv /\ SourceNext => TypesInv'
  BY FieldsStep, HandlesStep, PlacesStep, CountsStep, ScansStep DEF TypesInv, LocalsInv
<1>2. TypesInv /\ UNCHANGED sourceVars => TypesInv'
  BY DEF sourceVars, fieldVars, localVars, scanVars, historyVars, TypesInv, FieldsInv,
         HandlesInv, LocalsInv, PlacesInv, CountsInv, ScansInv
<1> QED BY <1>1, <1>2

(* The fields and the sessions keep their types when any number of sessions *)
(* open, rotate, rewind and close the source under each other, torn reads   *)
(* included (file_source.go:48-118). *)
THEOREM SourceTypeCorrect == SourceSpec => []SourceTypeOK
<1>1. SourceInit => TypesInv
  BY SourceInvInit DEF SourceInv
<1>2. TypesInv => SourceTypeOK
  <2> SUFFICES ASSUME TypesInv PROVE SourceTypeOK
    OBVIOUS
  <2>1. /\ files \in FileLists /\ closed \in BOOLEAN /\ current \in Nat
        /\ index \in 0 .. Len(files) - 1
        /\ scanner \in [id : Nat, file : DOMAIN files, pos : Nat, tok : Nat, err : BOOLEAN]
        /\ scanner.pos <= Len(files[scanner.file])
        /\ scanner.tok <= Len(files[scanner.file])
        /\ scanner.id = 0 => scanner = Nil
        /\ Len(files) \in Nat /\ Len(files[scanner.file]) \in Nat
    BY FilesAreLists, PieceTypes DEF TypesInv, FieldsInv
  <2>2. scanner = Nil => scanner.id = 0
    BY DEF Nil, NewScanner
  <2>3. {scanner.pos, scanner.tok} \subseteq 0 .. Len(files[scanner.file])
    BY <2>1
  <2>4. ASSUME NEW g \in Readers
        PROVE  /\ pc[g] \in Places /\ result[g] \in Results
               /\ at[g] \in 0 .. Len(files)
               /\ mine[g] # 0 => pc[g] = "scanned"
    BY <2>1 DEF TypesInv, LocalsInv, PlacesInv, CountsInv, ScansInv
  <2>5. panicked \in Readers \cup {Nobody}
    BY DEF TypesInv, LocalsInv, PlacesInv
  <2> QED BY <2>1, <2>2, <2>3, <2>4, <2>5 DEF SourceTypeOK, Places, Results
<1> QED BY <1>1, <1>2, TypesStep, PTL DEF SourceSpec

-----------------------------------------------------------------------------
(* Beside each other                                                       *)

(* What a step of g leaves to the others: those that are alone afterwards  *)
(* were not at work. *)
Frame(g) ==
    /\ files' = files
    /\ panicked = Nobody /\ panicked' \in {Nobody, g}
    /\ \A h \in handles' : h \in handles \/ h.by[1] = g
    /\ \A h \in Readers \ {g} :
          /\ pc'[h] = pc[h] /\ result'[h] = result[h] /\ runs'[h] = runs[h]
          /\ alone'[h] => alone[h] /\ ~ Active(h) /\ delivered'[h] = delivered[h]
    /\ alone'[g] => \A h \in Readers \ {g} : ~ Active(h)

(* A step of a session at work touches no other session. *)
LEMMA StepFrame ==
    ASSUME TypesInv, AloneInv, NEW g \in Readers, Step(g)
    PROVE  Frame(g) /\ alone' = alone /\ Active(g)
<1>0. /\ pc \in [Readers -> Places] /\ result \in [Readers -> Results]
      /\ runs \in [Readers -> Nat] /\ DOMAIN delivered = Readers
  BY DEF TypesInv, LocalsInv, PlacesInv, CountsInv
<1>1. Active(g) /\ alone' = alone /\ runs' = runs
  BY DEF Active, Step, Open, OpenFile, Next, Continue, Scanned, Text, Err, CloseFile, Forget,
         historyVars
<1>2. panicked = Nobody /\ panicked' \in {Nobody, g}
  BY DEF Step, Open, OpenFile, Next, Continue, BeginScan, Scanned, Text, Err, CloseFile, Forget,
         Panic
<1>3. files' = files
  BY FilesStay DEF SourceNext
<1>4. ASSUME NEW h \in handles' PROVE h \in handles \/ h.by[1] = g
  <2>1. CASE OpenFile(g) /\ OpenSucceeds(g)
    BY <2>1 DEF OpenSucceeds
  <2>2. CASE ~ (OpenFile(g) /\ OpenSucceeds(g))
    BY <2>2 DEF Step, Open, OpenFile, OpenFails, Next, Continue, Scanned, Text, Err, CloseFile,
         Forget
  <2> QED BY <2>1, <2>2
<1>5. \/ pc' = pc
      \/ \E p : pc' = [pc EXCEPT ![g] = p]
  BY DEF Step, Open, OpenFile, OpenFails, OpenSucceeds, Next, Continue, BeginScan,
         Scanned, Text, ParseText, Skip, Deliver, Malformed, Err, OnError, CloseFile,
         Forget, AfterClose, Goto, End, Panic
<1>6. \/ result' = result
      \/ \E r : result' = [result EXCEPT ![g] = r]
  BY DEF Step, Open, OpenFile, OpenFails, OpenSucceeds, Next, Continue, BeginScan,
         Scanned, Text, ParseText, Skip, Deliver, Malformed, Err, OnError, CloseFile,
         Forget, End, Panic
<1>7. \/ delivered' = delivered
      \/ \E d : delivered' = [delivered EXCEPT ![g] = d]
  BY DEF Step, Open, OpenFile, Next, Continue, Scanned, Text, ParseText, Skip, Deliver,
         Malformed, Err, CloseFile, Forget, historyVars
<1>8. ASSUME NEW h \in Readers \ {g}
      PROVE  pc'[h] = pc[h] /\ result'[h] = result[h] /\ delivered'[h] = delivered[h]
  BY <1>0, <1>5, <1>6, <1>7
<1>9. \A h \in Readers \ {g} : alone[h] \/ alone[g] => ~ Active(h)
  BY <1>1 DEF AloneInv
<1> QED BY <1>1, <1>2, <1>3, <1>4, <1>8, <1>9 DEF Frame

(* Who starts beside others is not alone, nor are they. *)
LEMMA StartFrame ==
    ASSUME TypesInv, AloneInv, NEW g \in Readers, Start(g), panicked = Nobody
    PROVE  Frame(g) /\ ~ Active(g)
<1>0. /\ pc \in [Readers -> Places] /\ result \in [Readers -> Results]
      /\ runs \in [Readers -> Nat] /\ DOMAIN delivered = Readers
  BY DEF TypesInv, LocalsInv, PlacesInv, CountsInv
<1>1. /\ ~ Active(g) /\ files' = files /\ panicked' = panicked /\ handles' = handles
      /\ pc' = [pc EXCEPT ![g] = "open"]
      /\ runs' = [runs EXCEPT ![g] = @ + 1]
      /\ result' = [result EXCEPT ![g] = "none"]
  BY DEF Start, Goto, fieldVars
<1>2. ASSUME NEW h \in Readers \ {g}
      PROVE  pc'[h] = pc[h] /\ result'[h] = result[h] /\ runs'[h] = runs[h]
  BY <1>0, <1>1
<1> DEFINE met == {h \in Readers \ {g} : Active(h)}
           meet == IF met = {} THEN {} ELSE met \cup {g}
<1>3. /\ alone' = [h \in Readers |-> h \notin meet /\ (h = g \/ alone[h])]
      /\ delivered' = [h \in Readers |-> IF h = g \/ h \in meet THEN << >> ELSE delivered[h]]
  BY DEF Start
<1>4. ASSUME NEW h \in Readers \ {g}, alone'[h]
      PROVE  alone[h] /\ ~ Active(h) /\ delivered'[h] = delivered[h]
  BY <1>3, <1>4
<1>5. ASSUME alone'[g], NEW h \in Readers \ {g} PROVE ~ Active(h)
  BY <1>3, <1>5
<1> QED BY <1>1, <1>2, <1>4, <1>5 DEF Frame

(* So nobody is at work beside a session that is alone, and only sessions  *)
(* that meet inside Scan race there. *)
LEMMA AloneStep ==
    ASSUME TypesInv, AloneInv, NEW g \in Readers, panicked = Nobody, Step(g) \/ Start(g)
    PROVE  AloneInv'
<1>0. torn \in [Readers -> BOOLEAN] /\ pc \in [Readers -> Places]
  BY DEF TypesInv, LocalsInv, ScansInv, PlacesInv
<1>1. Frame(g)
  BY StepFrame, StartFrame
<1>2. ASSUME NEW k \in Readers, NEW h \in Readers, alone'[k], Active(k)', h # k
      PROVE  ~ Active(h)'
  <2>1. CASE k = g
    <3>1. ~ Active(h) /\ pc'[h] = pc[h]
      BY <1>1, <1>2, <2>1 DEF Frame
    <3> QED BY <3>1 DEF Active
  <2>2. CASE k # g
    <3>1. ~ Active(k) /\ pc'[k] = pc[k]
      BY <1>1, <1>2, <2>2 DEF Frame
    <3> QED BY <1>2, <3>1 DEF Active
  <2> QED BY <2>1, <2>2
<1>3. ASSUME NEW h \in Readers, torn'[h] PROVE pc'[h] = "scanned" /\ ~ alone'[h]
  <2>1. CASE UNCHANGED torn /\ pc[g] # "scanned"
    <3>1. torn[h] /\ pc[h] = "scanned" /\ ~ alone[h] /\ h # g
      BY <1>3, <2>1 DEF AloneInv
    <3> QED BY <1>1, <3>1 DEF Frame
  <2>2. CASE Scanned(g)
    <3>1. torn' = [torn EXCEPT ![g] = FALSE]
      BY <2>2 DEF Scanned
    <3>2. h # g /\ torn[h]
      BY <1>0, <1>3, <3>1
    <3>3. pc[h] = "scanned" /\ ~ alone[h]
      BY <3>2 DEF AloneInv
    <3> QED BY <1>1, <3>2, <3>3 DEF Frame
  <2>3. CASE BeginScan(g) /\ ~ UNCHANGED torn /\ pc[g] \in {"loop", "check"} /\ Step(g)
    <3>1. /\ torn' = [k \in Readers |-> torn[k] \/ (InScan(g) # {} /\ k \in InScan(g) \cup {g})]
          /\ pc' = [pc EXCEPT ![g] = "scanned"]
      BY <2>3 DEF BeginScan, Goto, scanVars
    <3>2. alone' = alone
      BY <2>3, StepFrame
    <3>3. Active(g)
      BY <2>3 DEF Active
    <3>4. CASE torn[h]
      <4>1. pc[h] = "scanned" /\ ~ alone[h]
        BY <3>4 DEF AloneInv
      <4> QED BY <1>0, <3>1, <3>2, <4>1
    <3>5. CASE ~ torn[h]
      <4>1. InScan(g) # {} /\ h \in InScan(g) \cup {g}
        BY <1>3, <3>1, <3>5
      <4>2. PICK k \in Readers \ {g} : pc[k] = "scanned"
        BY <4>1 DEF InScan
      <4>3. Active(k)
        BY <4>2 DEF Active
      <4>4. h = g \/ (h # g /\ pc[h] = "scanned")
        BY <4>1 DEF InScan
      <4>5. ~ alone[h]
        <5>1. CASE h = g
          BY <3>3, <4>2, <4>3, <5>1 DEF AloneInv
        <5>2. CASE h # g
          <6>1. Active(h)
            BY <4>4, <5>2 DEF Active
          <6> QED BY <3>3, <5>2, <6>1 DEF AloneInv
        <5> QED BY <5>1, <5>2
      <4> QED BY <1>0, <3>1, <3>2, <4>4, <4>5
    <3> QED BY <3>4, <3>5
  <2>4. \/ UNCHANGED torn /\ pc[g] # "scanned"
        \/ Scanned(g)
        \/ BeginScan(g) /\ ~ UNCHANGED torn /\ pc[g] \in {"loop", "check"} /\ Step(g)
    BY DEF Step, Start, Active, Open, OpenFile, Next, Continue, BeginScan, Text, Err,
         CloseFile, Forget, scanVars
  <2> QED BY <2>1, <2>2, <2>3, <2>4
<1> QED BY <1>2, <1>3 DEF AloneInv

(* A session that is done keeps what it was given, and none of its handles *)
(* comes back. *)
LEMMA OthersRest ==
    ASSUME SessionsInv, NEW g \in Readers, Frame(g), NEW h \in Readers \ {g}, alone'[h]
    PROVE  Sound(h)'
<1>1. /\ alone[h] /\ ~ Active(h) /\ pc'[h] = pc[h] /\ result'[h] = result[h]
      /\ runs'[h] = runs[h] /\ delivered'[h] = delivered[h] /\ files' = files
      /\ panicked' \in {Nobody, g}
  BY DEF Frame
<1>2. Own(h) = {} /\ Ended(h)
  BY <1>1 DEF SessionsInv, Sound, Resting
<1>3. Own(h)' = {}
  <2> SUFFICES ASSUME NEW x \in handles', x.by = <<h, runs'[h]>> PROVE FALSE
    BY DEF Own
  <2>1. x.by[1] # g
    OBVIOUS
  <2>2. x \in handles
    BY <2>1 DEF Frame
  <2> QED BY <1>1, <1>2, <2>2 DEF Own
<1>4. Ended(h)'
  BY <1>1, <1>2 DEF Ended
<1>5. ~ Active(h)'
  BY <1>1 DEF Active
<1>6. panicked' # h
  BY <1>1, FilesAssumption DEF Readers
<1> QED BY <1>3, <1>4, <1>5, <1>6 DEF Sound, Resting

-----------------------------------------------------------------------------
(* A session that is alone                                                 *)

(* What is known of it before a step: nobody is inside Scan with it. *)
LEMMA AloneFacts ==
    ASSUME SourceInv, NEW g \in Readers, alone[g], Step(g)
    PROVE  /\ Working(g) /\ panicked = Nobody /\ panicked # g
           /\ InScan(g) = {} /\ ~ torn[g]
           /\ files' = files /\ alone' = alone
<1>1. Frame(g) /\ alone' = alone /\ Active(g)
  BY StepFrame DEF SourceInv
<1>2. Sound(g)
  BY DEF SourceInv, SessionsInv
<1>3. \A h \in Readers \ {g} : pc[h] # "scanned"
  BY <1>1 DEF Frame, Active
<1>4. ~ torn[g]
  BY DEF SourceInv, AloneInv
<1> QED BY <1>1, <1>2, <1>3, <1>4 DEF Sound, InScan, Frame

(* The types a step of it reads. *)
LEMMA AloneTypes ==
    ASSUME SourceInv, NEW g \in Readers
    PROVE  /\ IsFileList(files) /\ Len(files) \in Nat \ {0} /\ DOMAIN files = 1 .. Len(files)
           /\ \A f \in DOMAIN files : Len(files[f]) \in Nat
           /\ current \in Nat /\ index \in 0 .. Len(files) - 1
           /\ scanner \in [id : Nat, file : DOMAIN files, pos : Nat, tok : Nat, err : BOOLEAN]
           /\ scanner.file \in DOMAIN files
           /\ scanner.pos \in 0 .. Len(files[scanner.file])
           /\ scanner.tok \in 0 .. Len(files[scanner.file])
           /\ \A h \in handles : h.id \in Nat \ {0}
           /\ pc \in [Readers -> Places] /\ result \in [Readers -> Results]
           /\ at \in [Readers -> Nat] /\ mine \in [Readers -> Nat] /\ from \in [Readers -> Nat]
           /\ runs \in [Readers -> Nat] /\ DOMAIN delivered = Readers
           /\ alone \in [Readers -> BOOLEAN]
<1>1. /\ IsFileList(files) /\ Len(files) \in Nat \ {0} /\ DOMAIN files = 1 .. Len(files)
      /\ \A f \in DOMAIN files : Len(files[f]) \in Nat
  BY FilesAreLists, PieceTypes DEF SourceInv, TypesInv
<1>2. \A h \in handles : h.id \in Nat \ {0}
  BY DEF SourceInv, TypesInv, HandlesInv
<1>3. /\ current \in Nat /\ index \in 0 .. Len(files) - 1
      /\ scanner \in [id : Nat, file : DOMAIN files, pos : Nat, tok : Nat, err : BOOLEAN]
      /\ scanner.pos <= Len(files[scanner.file])
      /\ scanner.tok <= Len(files[scanner.file])
  BY DEF SourceInv, TypesInv, FieldsInv
<1>4. scanner.pos \in Nat /\ scanner.tok \in Nat /\ scanner.file \in DOMAIN files
  BY <1>3
<1>5. Len(files[scanner.file]) \in Nat
  BY <1>1, <1>4
<1>6. /\ scanner.pos \in 0 .. Len(files[scanner.file])
      /\ scanner.tok \in 0 .. Len(files[scanner.file])
  BY <1>3, <1>4, <1>5
<1>7. /\ pc \in [Readers -> Places] /\ result \in [Readers -> Results]
      /\ at \in [Readers -> Nat] /\ mine \in [Readers -> Nat] /\ from \in [Readers -> Nat]
      /\ runs \in [Readers -> Nat] /\ DOMAIN delivered = Readers
      /\ alone \in [Readers -> BOOLEAN]
  BY DEF SourceInv, TypesInv, LocalsInv, PlacesInv, CountsInv, ScansInv
<1> QED BY <1>1, <1>2, <1>3, <1>4, <1>6, <1>7

(* Wherever it stands, what it was given so far is a prefix of what it is  *)
(* to be given. *)
LEMMA SoFarIsPrefix ==
    ASSUME IsFileList(files)
    PROVE  /\ \A f \in DOMAIN files : \A l \in 0 .. Len(files[f]) :
                 IsPrefix(Upto(files, f, l), FirstFiles(files, Len(files)))
           /\ \A f \in DOMAIN files :
                 IsPrefix(FirstFiles(files, f), FirstFiles(files, Len(files)))
           /\ IsPrefix(<< >>, FirstFiles(files, Len(files)))
<1>1. /\ Len(files) \in Nat \ {0} /\ DOMAIN files = 1 .. Len(files)
      /\ \A f \in DOMAIN files : Len(files[f]) \in Nat
  BY PieceTypes
<1>2. \A f \in DOMAIN files : \A l \in 0 .. Len(files[f]) :
         IsPrefix(Upto(files, f, l), FirstFiles(files, Len(files)))
  BY UptoIsPrefix
<1>3. ASSUME NEW f \in DOMAIN files
      PROVE  IsPrefix(FirstFiles(files, f), FirstFiles(files, Len(files)))
  <2>1. Len(files[f]) \in 0 .. Len(files[f])
    BY <1>1
  <2>2. Upto(files, f, Len(files[f])) = FirstFiles(files, f)
    BY UptoSteps
  <2> QED BY <1>2, <2>1, <2>2
<1>4. IsPrefix(<< >>, FirstFiles(files, Len(files)))
  <2>1. 1 \in DOMAIN files
    BY <1>1
  <2>2. 0 \in 0 .. Len(files[1])
    BY <1>1, <2>1
  <2>3. Upto(files, 1, 0) = << >>
    BY UptoSteps
  <2> QED BY <1>2, <2>1, <2>2, <2>3
<1> QED BY <1>2, <1>3, <1>4

(* The session begins with nothing of its own. *)
LEMMA StartIsSound ==
    ASSUME SourceInv, NEW g \in Readers, Start(g), panicked = Nobody
    PROVE  Sound(g)'
<1>1. /\ pc \in [Readers -> Places] /\ result \in [Readers -> Results]
      /\ runs \in [Readers -> Nat]
  BY AloneTypes
<1>2. /\ pc'[g] = "open" /\ result'[g] = "none" /\ runs'[g] = runs[g] + 1
      /\ delivered'[g] = << >> /\ handles' = handles /\ panicked' = Nobody
  BY <1>1 DEF Start, Goto
<1>3. Own(g)' = {}
  <2> SUFFICES ASSUME NEW h \in handles, h.by = <<g, runs[g] + 1>> PROVE FALSE
    BY <1>2 DEF Own
  <2>1. h.by[2] <= runs[h.by[1]]
    BY DEF SourceInv, TypesInv, HandlesInv
  <2>2. h.by[1] = g /\ h.by[2] = runs[g] + 1
    OBVIOUS
  <2> QED BY <1>1, <2>1, <2>2
<1>4. panicked' # g
  BY <1>2, FilesAssumption DEF Readers
<1> QED BY <1>2, <1>3, <1>4 DEF Sound, Working, Active

(* Open, then openFile, which fails or puts it before the first line. *)
LEMMA OpenIsSound ==
    ASSUME SourceInv, NEW g \in Readers, alone[g], Step(g), Open(g) \/ OpenFile(g)
    PROVE  Sound(g)'
<1>0. /\ IsFileList(files) /\ Len(files) \in Nat \ {0} /\ DOMAIN files = 1 .. Len(files)
      /\ pc \in [Readers -> Places] /\ result \in [Readers -> Results]
      /\ at \in [Readers -> Nat] /\ runs \in [Readers -> Nat]
  BY AloneTypes
<1>1. Working(g) /\ panicked # g /\ files' = files
  BY AloneFacts
<1>2. CASE Open(g)
  <2>1. /\ pc[g] = "open" /\ pc'[g] = "openfile" /\ at'[g] = 0
        /\ UNCHANGED <<handles, runs, result, panicked, delivered>>
    BY <1>0, <1>2 DEF Open, Goto, historyVars
  <2>2. Opening(g)'
    BY <1>1, <2>1 DEF Working, Opening, Own
  <2> QED BY <1>1, <2>1, <2>2 DEF Sound, Working, Active
<1>3. CASE OpenFile(g) /\ OpenFails(g)
  <2>1. /\ pc[g] = "openfile"
        /\ UNCHANGED <<current, handles, runs, panicked, delivered>>
    BY <1>3 DEF OpenFile, OpenFails, historyVars
  <2>2. /\ Own(g) = {}
        /\ at[g] = 0 => delivered[g] = << >>
        /\ at[g] # 0 => at[g] < Len(files) /\ delivered[g] = FirstFiles(files, at[g])
    BY <1>1, <2>1 DEF Working, Opening
  <2>3. Own(g)' = {}
    BY <2>1, <2>2 DEF Own
  <2>4. IsPrefix(delivered[g], FirstFiles(files, Len(files)))
    <3>1. at[g] # 0 => at[g] \in DOMAIN files
      BY <1>0, <2>2
    <3> QED BY <1>0, <2>2, <3>1, SoFarIsPrefix
  <2>5. CASE at[g] = 0
    <3>1. pc'[g] = "done" /\ result'[g] = "error"
      BY <1>0, <1>3, <2>5 DEF OpenFails, Goto
    <3>2. Resting(g)'
      BY <1>1, <2>1, <2>3, <2>4, <3>1 DEF Resting, Ended
    <3> QED BY <1>1, <2>1, <3>1, <3>2 DEF Sound, Active
  <2>6. CASE at[g] # 0
    <3>1. pc'[g] = "close" /\ result'[g] = "error"
      BY <1>0, <1>3, <2>2, <2>6 DEF OpenFails, Goto, End
    <3>2. Ended(g)' /\ OwnIsCurrent(g)'
      BY <1>1, <2>1, <2>3, <2>4, <3>1 DEF Ended, OwnIsCurrent
    <3> QED BY <1>1, <2>1, <3>1, <3>2 DEF Sound, Active, Working
  <2> QED BY <2>5, <2>6
<1>4. CASE OpenFile(g) /\ OpenSucceeds(g)
  <2> DEFINE used == {h.id : h \in handles} \cup {mine[h] : h \in Readers}
                       \cup {current, scanner.id}
             fresh == Min(1 .. Cardinality(used) + 1 \ used)
             new == [id |-> fresh, by |-> <<g, runs[g]>>]
  <2>1. fresh \in Nat \ {0}
    BY UsedIsFinite, FreshHandle DEF SourceInv
  <2>2. /\ pc[g] = "openfile" /\ at[g] < Len(files)
        /\ handles' = handles \cup {new} /\ current' = fresh /\ index' = at[g]
        /\ scanner' = [id |-> fresh, file |-> at[g] + 1, pos |-> 0, tok |-> 0, err |-> FALSE]
        /\ UNCHANGED <<runs, panicked, delivered, result>>
    BY <1>4 DEF OpenFile, OpenSucceeds, NewScanner, OpenedIndex, historyVars
  <2> HIDE DEF fresh
  <2>3. pc'[g] \in {"loop", "check"}
    BY <1>0, <1>4 DEF OpenSucceeds, Goto
  <2>4. /\ Own(g) = {} /\ result[g] = "none"
        /\ at[g] = 0 => delivered[g] = << >>
        /\ at[g] # 0 => delivered[g] = FirstFiles(files, at[g])
    BY <1>1, <2>2 DEF Working, Opening
  <2>5. /\ scanner'.id = fresh /\ scanner'.file = at[g] + 1 /\ scanner'.pos = 0
        /\ ~ scanner'.err
    BY <2>2
  <2>6. delivered[g] = Upto(files, at[g] + 1, 0)
    <3>1. CASE at[g] = 0
      <4>1. at[g] + 1 = 1 /\ delivered[g] = << >>
        BY <2>4, <3>1
      <4>2. Upto(files, 1, 0) = << >>
        BY <1>0, UptoSteps
      <4> QED BY <4>1, <4>2
    <3>2. CASE at[g] # 0
      <4>1. at[g] \in DOMAIN files /\ at[g] + 1 \in DOMAIN files
        BY <1>0, <2>2, <3>2
      <4> QED BY <1>0, <2>4, <3>2, <4>1, UptoSteps
    <3> QED BY <3>1, <3>2
  <2>7. \A h \in Own(g)' : h.id = fresh
    <3>1. \A h \in Own(g)' : h \in Own(g) \/ h = new
      BY <2>2 DEF Own
    <3> QED BY <2>4, <3>1
  <2> HIDE DEF new
  <2>8. AtLine(g)'
    BY <1>1, <2>1, <2>2, <2>4, <2>5, <2>6, <2>7 DEF AtLine, Reading, OwnIsCurrent
  <2> QED BY <1>1, <2>2, <2>3, <2>8 DEF Sound, Working, Active
<1> QED BY <1>2, <1>3, <1>4 DEF OpenFile

(* Nobody clears the fields under a session that is alone. *)
LEMMA NothingVanishes ==
    ASSUME SourceInv, NEW g \in Readers, alone[g], Step(g)
    PROVE  ~ Vanishes(g)
<1>1. Active(g)
  BY StepFrame DEF SourceInv
<1>2. ASSUME NEW h \in Readers \ {g}, pc[h] = "forget" PROVE FALSE
  <2>1. Active(h)
    BY <1>2 DEF Active
  <2> QED BY <1>1, <2>1 DEF SourceInv, AloneInv
<1> QED BY <1>2 DEF Vanishes

(* A call of Scan starts where the scanner stands; a session that leaves   *)
(* its loop has been given a prefix. *)
LEMMA ScanIsSound ==
    ASSUME SourceInv, NEW g \in Readers, alone[g], Step(g), Next(g) \/ Continue(g)
    PROVE  Sound(g)'
<1>0. /\ IsFileList(files) /\ scanner.file \in DOMAIN files
      /\ scanner.pos \in 0 .. Len(files[scanner.file])
      /\ pc \in [Readers -> Places] /\ result \in [Readers -> Results]
      /\ mine \in [Readers -> Nat] /\ from \in [Readers -> Nat]
  BY AloneTypes
<1>1. Working(g) /\ panicked # g /\ files' = files
  BY AloneFacts
<1>2. /\ pc[g] \in {"loop", "check"}
      /\ UNCHANGED <<closed, current, scanner, index, handles, runs, panicked, delivered>>
  BY NothingVanishes DEF Next, Continue, BeginScan, fieldVars, historyVars
<1>3. AtLine(g)
  BY <1>1, <1>2 DEF Working
<1>4. Own(g)' = Own(g)
  BY <1>2 DEF Own
<1>5. scanner # Nil
  BY <1>3 DEF AtLine, Reading, Nil, NewScanner
<1>6. CASE End(g, "stopped") \/ End(g, "error")
  <2>1. pc'[g] = "close" /\ result'[g] \in {"stopped", "error"}
    BY <1>0, <1>6 DEF End, Goto
  <2>2. IsPrefix(delivered[g], FirstFiles(files, Len(files)))
    BY <1>0, <1>3, SoFarIsPrefix DEF AtLine
  <2>3. Ended(g)'
    BY <1>1, <1>2, <2>1, <2>2 DEF Ended
  <2>4. OwnIsCurrent(g)'
    BY <1>2, <1>3, <1>4 DEF AtLine, Reading, OwnIsCurrent
  <2> QED BY <1>1, <1>2, <2>1, <2>3, <2>4 DEF Sound, Working, Active
<1>7. CASE BeginScan(g)
  <2>1. /\ pc'[g] = "scanned" /\ mine'[g] = scanner.id /\ from'[g] = scanner.pos
        /\ result' = result
    BY <1>0, <1>5, <1>7, NothingVanishes DEF BeginScan, Goto
  <2>2. AtLine(g)'
    BY <1>1, <1>2, <1>3, <1>4, <2>1 DEF AtLine, Reading, OwnIsCurrent
  <2> QED BY <1>1, <1>2, <2>1, <2>2 DEF Sound, Working, Active
<1> QED BY <1>6, <1>7 DEF Next, Continue

(* Scan returns the next line, an error, or false at the end of the file. *)
LEMMA ScannedIsSound ==
    ASSUME SourceInv, NEW g \in Readers, alone[g], Step(g), Scanned(g)
    PROVE  Sound(g)'
<1>0. /\ IsFileList(files) /\ scanner.file \in DOMAIN files
      /\ \A f \in DOMAIN files : Len(files[f]) \in Nat
      /\ scanner.pos \in 0 .. Len(files[scanner.file])
      /\ scanner \in [id : Nat, file : DOMAIN files, pos : Nat, tok : Nat, err : BOOLEAN]
      /\ pc \in [Readers -> Places]
  BY AloneTypes
<1>1. Working(g) /\ panicked # g /\ files' = files /\ ~ torn[g]
  BY AloneFacts
<1>2. /\ pc[g] = "scanned"
      /\ UNCHANGED <<closed, current, index, handles, runs, delivered>>
  BY DEF Scanned, historyVars
<1>3. AtLine(g) /\ mine[g] = scanner.id /\ from[g] = scanner.pos
  BY <1>1, <1>2 DEF Working
<1>4. Own(g)' = Own(g)
  BY <1>2 DEF Own
<1>5. /\ UNCHANGED <<result, panicked>>
      /\ \E o \in ScanOutcomes(g) :
            /\ scanner' = [scanner EXCEPT !.pos = IF o > 0 THEN o ELSE @,
                                          !.tok = IF o > 0 THEN o ELSE 0,
                                          !.err = @ \/ o = -1]
            /\ Goto(g, AfterScan(o))
  BY <1>1, <1>3 DEF Scanned
<1>6. PICK o \in ScanOutcomes(g) :
            /\ scanner' = [scanner EXCEPT !.pos = IF o > 0 THEN o ELSE @,
                                          !.tok = IF o > 0 THEN o ELSE 0,
                                          !.err = @ \/ o = -1]
            /\ Goto(g, AfterScan(o))
  BY <1>5
<1>7. \/ o = -1
      \/ o = 0 /\ scanner.pos = Len(files[scanner.file])
      \/ o = scanner.pos + 1
  <2>1. Len(files[scanner.file]) \in Nat
    BY <1>0
  <2>2. scanner.pos >= Len(files[scanner.file]) => scanner.pos = Len(files[scanner.file])
    BY <1>0, <2>1
  <2> QED BY <1>0, <1>1, <1>3, <2>1, <2>2 DEF ScanOutcomes
<1>8. scanner'.id = scanner.id /\ scanner'.file = scanner.file
  BY <1>0, <1>6
<1>9. Reading(g)'
  BY <1>2, <1>3, <1>4, <1>5, <1>8 DEF AtLine, Reading, OwnIsCurrent
<1>10. CASE o = scanner.pos + 1
  <2>1. o > 0 /\ o # -1 /\ o # 0 /\ o - 1 = scanner.pos
    BY <1>0, <1>10
  <2>2. scanner'.pos = o /\ scanner'.tok = o /\ ~ scanner'.err
    BY <1>0, <1>3, <1>6, <2>1 DEF AtLine
  <2>3. pc'[g] = "text"
    BY <1>0, <1>6, <2>1 DEF Goto, AfterScan
  <2>4. delivered[g] = Upto(files, scanner.file, o - 1)
    BY <1>3, <2>1 DEF AtLine
  <2>5. InText(g)'
    BY <1>1, <1>2, <1>8, <1>9, <2>1, <2>2, <2>4 DEF InText
  <2> QED BY <1>1, <1>5, <2>3, <2>5 DEF Sound, Working, Active
<1>11. CASE o = -1 \/ (o = 0 /\ scanner.pos = Len(files[scanner.file]))
  <2>1. ~ (o > 0)
    BY <1>11
  <2>2. scanner'.pos = scanner.pos
    BY <1>0, <1>6, <2>1
  <2>3. pc'[g] = "err"
    BY <1>0, <1>6, <2>1 DEF Goto, AfterScan
  <2>4. o = -1 => scanner'.err
    BY <1>0, <1>6
  <2>5. AtEnd(g)'
    BY <1>1, <1>2, <1>3, <1>8, <1>9, <1>11, <2>2, <2>4 DEF AtEnd, AtLine
  <2> QED BY <1>1, <1>5, <2>3, <2>5 DEF Sound, Working, Active
<1> QED BY <1>7, <1>10, <1>11

(* The line is skipped, delivered, or ends the session. *)
LEMMA TextIsSound ==
    ASSUME SourceInv, NEW g \in Readers, alone[g], Step(g), Text(g)
    PROVE  Sound(g)'
<1>0. /\ IsFileList(files) /\ scanner.file \in DOMAIN files
      /\ \A f \in DOMAIN files : Len(files[f]) \in Nat
      /\ scanner.pos \in 0 .. Len(files[scanner.file])
      /\ pc \in [Readers -> Places] /\ result \in [Readers -> Results]
      /\ DOMAIN delivered = Readers
  BY AloneTypes
<1>1. Working(g) /\ panicked # g /\ files' = files /\ InScan(g) = {}
  BY AloneFacts
<1>2. /\ pc[g] = "text"
      /\ UNCHANGED <<closed, current, scanner, index, handles, runs>>
  BY DEF Text, fieldVars
<1>3. InText(g) /\ Reading(g)
  BY <1>1, <1>2 DEF Working, InText
<1>4. Own(g)' = Own(g)
  BY <1>2 DEF Own
<1>5. ParseText(g) /\ UNCHANGED panicked
  <2>1. scanner # Nil
    BY <1>3 DEF Reading, Nil, NewScanner
  <2> QED BY <1>1, <2>1 DEF Text
<1> DEFINE line == files[scanner.file][scanner.pos]
           before == Upto(files, scanner.file, scanner.pos - 1)
<1>6. /\ before \in Seq(PacketSet(files))
      /\ Upto(files, scanner.file, scanner.pos) = before \o Given(line)
      /\ delivered[g] = before
  <2>1. scanner.pos \in 1 .. Len(files[scanner.file])
    BY <1>0, <1>3 DEF InText
  <2>2. /\ before \in Seq(PacketSet(files))
        /\ Upto(files, scanner.file, scanner.pos) = before \o Given(line)
    BY <1>0, <2>1, UptoSteps
  <2> QED BY <1>3, <2>2 DEF InText
<1>7. scanner.tok = scanner.pos /\ scanner.tok # 0
  BY <1>3 DEF InText
<1> HIDE DEF before
<1>8. CASE Skip(g) /\ line.skip
  <2>1. pc'[g] = "check" /\ result' = result /\ delivered' = delivered
    BY <1>0, <1>8 DEF Skip, Goto
  <2>2. Given(line) = << >>
    BY <1>8 DEF Given
  <2>3. delivered[g] = Upto(files, scanner.file, scanner.pos)
    BY <1>6, <2>2, ConcatEmptySeq
  <2>4. Reading(g)'
    BY <1>1, <1>2, <1>3, <1>4, <2>1 DEF Reading, OwnIsCurrent
  <2>5. AtLine(g)'
    BY <1>1, <1>2, <1>3, <2>1, <2>3, <2>4 DEF AtLine, InText
  <2> QED BY <1>1, <1>2, <1>5, <2>1, <2>5 DEF Sound, Working, Active
<1>9. CASE Deliver(g, line) /\ ~ line.skip
  <2>1. pc'[g] = "loop" /\ result' = result
    BY <1>0, <1>9 DEF Deliver, Goto
  <2>2. delivered'[g] = Append(delivered[g], ParsePacketLine(line))
    BY <1>0, <1>9 DEF Deliver
  <2>3. Given(line) = <<ParsePacketLine(line)>>
    BY <1>9 DEF Given
  <2>4. delivered'[g] = Upto(files, scanner.file, scanner.pos)
    <3>1. Append(before, ParsePacketLine(line)) = before \o <<ParsePacketLine(line)>>
      BY <1>6
    <3> QED BY <1>6, <2>2, <2>3, <3>1
  <2>5. Reading(g)'
    BY <1>1, <1>2, <1>3, <1>4, <2>1 DEF Reading, OwnIsCurrent
  <2>6. AtLine(g)'
    BY <1>1, <1>2, <1>3, <2>4, <2>5 DEF AtLine, InText
  <2> QED BY <1>1, <1>2, <1>5, <2>1, <2>6 DEF Sound, Working, Active
<1>10. CASE Malformed(g)
  <2>1. pc'[g] = "close" /\ result'[g] = "error" /\ delivered' = delivered
    BY <1>0, <1>10 DEF Malformed, End, Goto
  <2>2. IsPrefix(delivered[g], FirstFiles(files, Len(files)))
    <3>1. scanner.pos - 1 \in 0 .. Len(files[scanner.file])
      BY <1>0, <1>7
    <3> QED BY <1>0, <1>3, <3>1, SoFarIsPrefix DEF InText
  <2>3. Ended(g)'
    BY <1>1, <2>1, <2>2 DEF Ended
  <2>4. OwnIsCurrent(g)'
    BY <1>2, <1>3, <1>4 DEF Reading, OwnIsCurrent
  <2> QED BY <1>1, <1>5, <2>1, <2>3, <2>4 DEF Sound, Working, Active
<1>11. \/ Skip(g) /\ line.skip
       \/ Deliver(g, line) /\ ~ line.skip
       \/ Malformed(g)
  BY <1>5, <1>7 DEF ParseText
<1> QED BY <1>8, <1>9, <1>10, <1>11

(* Scan returned false: an error ends the session, and so does the end of  *)
(* the last file, when all is read. *)
LEMMA ErrIsSound ==
    ASSUME SourceInv, NEW g \in Readers, alone[g], Step(g), Err(g)
    PROVE  Sound(g)'
<1>0. /\ IsFileList(files) /\ scanner.file \in DOMAIN files
      /\ Len(files) \in Nat \ {0} /\ index \in 0 .. Len(files) - 1
      /\ scanner.pos \in 0 .. Len(files[scanner.file])
      /\ pc \in [Readers -> Places] /\ result \in [Readers -> Results]
  BY AloneTypes
<1>1. Working(g) /\ panicked # g /\ files' = files /\ InScan(g) = {}
  BY AloneFacts
<1>2. /\ pc[g] = "err"
      /\ UNCHANGED <<closed, current, scanner, index, handles, runs, delivered>>
  BY DEF Err, fieldVars, historyVars
<1>3. AtEnd(g) /\ Reading(g)
  BY <1>1, <1>2 DEF Working, AtEnd
<1>4. Own(g)' = Own(g) /\ OwnIsCurrent(g)'
  BY <1>2, <1>3 DEF Own, Reading, OwnIsCurrent
<1>5. scanner # Nil
  BY <1>3 DEF Reading, Nil, NewScanner
<1>6. /\ UNCHANGED panicked
      /\ CASE scanner.err -> OnError(g)
           [] ~ scanner.err /\ IsLast -> End(g, "eof")
           [] OTHER -> Goto(g, "advance") /\ UNCHANGED result
  BY <1>1, <1>5 DEF Err
<1>7. ~ scanner.err => delivered[g] = FirstFiles(files, index + 1)
  <2>1. ~ scanner.err => delivered[g] = Upto(files, scanner.file, Len(files[scanner.file]))
    BY <1>3 DEF AtEnd
  <2>2. Upto(files, scanner.file, Len(files[scanner.file])) = FirstFiles(files, scanner.file)
    BY <1>0, UptoSteps
  <2>3. scanner.file = index + 1
    BY <1>3 DEF Reading
  <2> QED BY <2>1, <2>2, <2>3
<1>8. CASE scanner.err
  <2>1. pc'[g] = "close" /\ result'[g] = "error"
    BY <1>0, <1>6, <1>8 DEF OnError, End, Goto
  <2>2. Ended(g)'
    BY <1>0, <1>1, <1>2, <1>3, <2>1, SoFarIsPrefix DEF AtEnd, Ended
  <2> QED BY <1>1, <1>4, <1>6, <2>1, <2>2 DEF Sound, Working, Active
<1>9. CASE ~ scanner.err /\ IsLast
  <2>1. pc'[g] = "close" /\ result'[g] = "eof"
    BY <1>0, <1>6, <1>9 DEF End, Goto
  <2>2. index + 1 = Len(files) /\ delivered[g] = FirstFiles(files, Len(files))
    <3>1. index + 1 = Len(files)
      BY <1>0, <1>9 DEF IsLast
    <3> QED BY <1>7, <1>9, <3>1
  <2>3. IsPrefix(delivered[g], FirstFiles(files, Len(files)))
    BY <1>0, <1>3, SoFarIsPrefix DEF AtEnd
  <2>4. Ended(g)'
    BY <1>1, <1>2, <2>2, <2>3 DEF Ended
  <2> QED BY <1>1, <1>4, <1>6, <2>1, <2>4 DEF Sound, Working, Active
<1>10. CASE ~ scanner.err /\ ~ IsLast
  <2>1. pc'[g] = "advance" /\ result' = result
    BY <1>0, <1>6, <1>10 DEF Goto
  <2>2. index + 1 < Len(files)
    BY <1>0, <1>10 DEF IsLast
  <2>3. Rotating(g)'
    BY <1>1, <1>2, <1>7, <1>10, <2>2 DEF Rotating
  <2>4. result'[g] = "none"
    BY <1>3, <2>1 DEF Reading
  <2> QED BY <1>1, <1>4, <1>6, <2>1, <2>3, <2>4 DEF Sound, Working, Active
<1> QED BY <1>8, <1>9, <1>10

(* Nothing of it is open any more: a rotation goes on with the next file,  *)
(* Close returns. *)
LEMMA AfterCloseIsSound ==
    ASSUME SourceInv, NEW g \in Readers, AfterClose(g), Own(g)' = {},
           UNCHANGED <<files, index, result, panicked, delivered>>, panicked # g,
           result[g] = "none" => Rotating(g), result[g] # "none" => Ended(g)
    PROVE  Sound(g)'
<1>0. /\ IsFileList(files) /\ Len(files) \in Nat \ {0} /\ index \in 0 .. Len(files) - 1
      /\ pc \in [Readers -> Places] /\ at \in [Readers -> Nat]
  BY AloneTypes
<1>1. CASE result[g] = "none"
  <2>1. pc'[g] = "openfile" /\ at'[g] = index + 1
    BY <1>0, <1>1 DEF AfterClose, Goto
  <2>2. at'[g] # 0
    BY <1>0, <2>1
  <2>3. Opening(g)'
    BY <1>1, <2>1, <2>2 DEF Opening, Rotating
  <2> QED BY <2>1, <2>3 DEF Sound, Working, Active
<1>2. CASE result[g] # "none"
  <2>1. pc'[g] = "done"
    BY <1>0, <1>2 DEF AfterClose, Goto
  <2>2. Resting(g)'
    BY <1>2 DEF Resting, Ended
  <2> QED BY <2>1, <2>2 DEF Sound, Active
<1> QED BY <1>1, <1>2

(* The file that is closed is the one it opened. *)
LEMMA CloseIsSound ==
    ASSUME SourceInv, NEW g \in Readers, alone[g], Step(g), CloseFile(g) \/ Forget(g)
    PROVE  Sound(g)'
<1>0. /\ pc \in [Readers -> Places] /\ \A h \in handles : h.id \in Nat \ {0}
  BY AloneTypes
<1>1. Working(g) /\ panicked # g /\ files' = files
  BY AloneFacts
<1>2. CASE CloseFile(g)
  <2>1. /\ pc[g] \in {"advance", "close"}
        /\ UNCHANGED <<current, index, runs, result, panicked, delivered>>
    BY <1>2, NothingVanishes DEF CloseFile, historyVars
  <2>2. /\ OwnIsCurrent(g)
        /\ result[g] = "none" => Rotating(g)
        /\ result[g] # "none" => Ended(g)
    BY <1>1, <2>1 DEF Working
  <2>3. CASE HasFile(g)
    <3>1. handles' = {h \in handles : h.id # current} /\ pc'[g] = "forget"
      BY <1>0, <1>2, <2>3, NothingVanishes DEF CloseFile, Goto
    <3>2. Own(g)' = {}
      BY <2>1, <2>2, <3>1 DEF Own, OwnIsCurrent
    <3>3. /\ (result[g] = "none" => Rotating(g))'
          /\ (result[g] # "none" => Ended(g))'
      BY <1>1, <2>1, <2>2 DEF Rotating, Ended
    <3> QED BY <1>1, <2>1, <3>1, <3>2, <3>3 DEF Sound, Working, Active
  <2>4. CASE ~ HasFile(g)
    <3>1. handles' = handles /\ AfterClose(g) /\ current = 0
      BY <1>2, <2>4 DEF CloseFile, HasFile
    <3>2. Own(g)' = {}
      BY <1>0, <2>1, <2>2, <3>1 DEF Own, OwnIsCurrent
    <3> QED BY <1>1, <2>1, <2>2, <3>1, <3>2, AfterCloseIsSound
  <2> QED BY <2>3, <2>4
<1>3. CASE Forget(g)
  <2>1. /\ pc[g] = "forget" /\ AfterClose(g)
        /\ UNCHANGED <<index, handles, runs, result, panicked, delivered>>
    BY <1>3 DEF Forget, historyVars
  <2>2. /\ Own(g) = {}
        /\ result[g] = "none" => Rotating(g)
        /\ result[g] # "none" => Ended(g)
    BY <1>1, <2>1 DEF Working
  <2>3. Own(g)' = {}
    BY <2>1, <2>2 DEF Own
  <2> QED BY <1>1, <2>1, <2>2, <2>3, AfterCloseIsSound
<1> QED BY <1>2, <1>3

(* A session that is alone stays where it should be, at each of its steps. *)
LEMMA OwnStep ==
    ASSUME SourceInv, NEW g \in Readers, alone[g], Step(g)
    PROVE  Sound(g)'
BY OpenIsSound, ScanIsSound, ScannedIsSound, TextIsSound, ErrIsSound, CloseIsSound DEF Step

(* So the invariant survives every step of every session, ...              *)
LEMMA SourceInvStep == SourceInv /\ [SourceNext]_sourceVars => SourceInv'
<1> SUFFICES ASSUME SourceInv, [SourceNext]_sourceVars PROVE SourceInv'
  OBVIOUS
<1>1. TypesInv'
  BY TypesStep DEF SourceInv
<1>2. ASSUME NEW g \in Readers, panicked = Nobody, Step(g) \/ Start(g) PROVE SourceInv'
  <2>1. AloneInv'
    BY <1>2, AloneStep DEF SourceInv
  <2>2. Frame(g)
    BY <1>2, StepFrame, StartFrame DEF SourceInv
  <2>3. ASSUME NEW h \in Readers \ {g}, alone'[h] PROVE Sound(h)'
    BY <2>2, <2>3, OthersRest DEF SourceInv
  <2>4. ASSUME alone'[g] PROVE Sound(g)'
    <3>1. CASE Start(g)
      BY <1>2, <3>1, StartIsSound
    <3>2. CASE Step(g)
      <4>1. alone[g]
        BY <2>4, <3>2, StepFrame DEF SourceInv
      <4> QED BY <3>2, <4>1, OwnStep
    <3> QED BY <1>2, <3>1, <3>2
  <2>5. SessionsInv'
    BY <2>3, <2>4 DEF SessionsInv
  <2> QED BY <1>1, <2>1, <2>5 DEF SourceInv
<1>3. CASE UNCHANGED sourceVars
  <2>1. AloneInv'
    BY <1>3 DEF sourceVars, localVars, scanVars, historyVars, SourceInv, AloneInv, Active
  <2>2. SessionsInv'
    BY <1>3 DEF sourceVars, fieldVars, localVars, scanVars, historyVars, SourceInv, SessionsInv,
         Sound, Active, Working, Resting, Ended, Own, OwnIsCurrent, Reading, Rotating, Opening,
         AtLine, InText, AtEnd
  <2> QED BY <1>1, <2>1, <2>2 DEF SourceInv
<1>4. CASE SourceNext
  BY <1>2, <1>4 DEF SourceNext, Step
<1> QED BY <1>3, <1>4

(* ... and holds at any time.                                              *)
LEMMA SourceInvariant == SourceSpec => []SourceInv
BY SourceInvInit, SourceInvStep, PTL DEF SourceSpec

(* A session during which no other one was at work is given the packets of *)
(* all files in order, whatever earlier sessions left behind (Next and     *)
(* advance, file_source.go:69-106). *)
THEOREM AloneSessionReadsAll == SourceSpec => []AloneReadsAll
<1>1. SourceInv => AloneReadsAll
  <2> SUFFICES ASSUME SourceInv, NEW g \in Readers, alone[g]
               PROVE  /\ IsPrefix(delivered[g], Expected)
                      /\ result[g] = "eof" => delivered[g] = Expected
    BY DEF AloneReadsAll
  <2>0. /\ IsFileList(files) /\ Len(files) \in Nat \ {0} /\ index \in 0 .. Len(files) - 1
        /\ DOMAIN files = 1 .. Len(files) /\ scanner.file \in DOMAIN files
        /\ \A f \in DOMAIN files : Len(files[f]) \in Nat
        /\ scanner.pos \in 0 .. Len(files[scanner.file])
        /\ pc \in [Readers -> Places] /\ at \in [Readers -> Nat]
    BY AloneTypes
  <2>1. Expected = FirstFiles(files, Len(files))
    BY <2>0, UptoSteps DEF Expected
  <2>2. Sound(g)
    BY DEF SourceInv, SessionsInv
  <2>3. CASE ~ Active(g) \/ (Active(g) /\ Ended(g))
    BY <2>1, <2>2, <2>3 DEF Sound, Resting, Ended
  <2>4. CASE Active(g) /\ ~ Ended(g)
    <3>1. Working(g)
      BY <2>2, <2>4 DEF Sound
    <3>2. pc[g] \in Places \ {"idle", "done"}
      BY <2>0, <2>4 DEF Active
    <3>3. result[g] = "none"
      BY <2>4, <3>1, <3>2 DEF Places, Working, Opening, AtLine, InText, AtEnd, Reading
    <3>4. \/ delivered[g] = << >>
          \/ \E l \in 0 .. Len(files[scanner.file]) :
                delivered[g] = Upto(files, scanner.file, l)
          \/ \E f \in DOMAIN files : delivered[g] = FirstFiles(files, f)
      <4>1. CASE pc[g] \in {"loop", "check", "scanned"}
        BY <2>0, <3>1, <4>1 DEF Working, AtLine
      <4>2. CASE pc[g] = "text"
        <5>1. InText(g)
          BY <3>1, <4>2 DEF Working
        <5>2. scanner.pos - 1 \in 0 .. Len(files[scanner.file])
          BY <2>0, <5>1 DEF InText
        <5> QED BY <5>1, <5>2 DEF InText
      <4>3. CASE pc[g] = "err"
        BY <2>0, <3>1, <4>3 DEF Working, AtEnd
      <4>4. CASE pc[g] \in {"advance", "forget"}
        <5>1. Rotating(g)
          BY <3>1, <3>3, <4>4 DEF Working
        <5>2. index + 1 \in DOMAIN files
          BY <2>0
        <5> QED BY <5>1, <5>2 DEF Rotating
      <4>5. CASE pc[g] = "openfile"
        <5>1. Opening(g)
          BY <3>1, <4>5 DEF Working
        <5>2. at[g] # 0 => at[g] \in DOMAIN files
          BY <2>0, <5>1 DEF Opening
        <5> QED BY <5>1, <5>2 DEF Opening
      <4>6. CASE pc[g] \in {"open", "close"}
        BY <2>4, <3>1, <4>6 DEF Working
      <4> QED BY <3>2, <4>1, <4>2, <4>3, <4>4, <4>5, <4>6 DEF Places
    <3>5. IsPrefix(delivered[g], FirstFiles(files, Len(files)))
      BY <2>0, <3>4, SoFarIsPrefix
    <3> QED BY <2>1, <3>3, <3>5
  <2> QED BY <2>3, <2>4
<1> QED BY <1>1, SourceInvariant, PTL

(* Such a session never dereferences nil, has one file open at most, and   *)
(* none when it is done (openFile, advance and Close,                 *)
(* file_source.go:53-66, 109-118). *)
THEOREM AloneSessionIsTidy == SourceSpec => []AloneIsTidy
<1>1. SourceInv => AloneIsTidy
  <2> SUFFICES ASSUME SourceInv, NEW g \in Readers, alone[g]
               PROVE  /\ panicked # g
                      /\ Cardinality(Own(g)) <= 1
                      /\ pc[g] = "done" => Own(g) = {}
    BY DEF AloneIsTidy, Own
  <2>1. Sound(g) /\ pc \in [Readers -> Places]
    BY AloneTypes DEF SourceInv, SessionsInv
  <2>2. pc[g] = "done" => Own(g) = {}
    BY <2>1 DEF Sound, Active, Resting
  <2>3. OwnIsCurrent(g)
    <3>1. CASE ~ Active(g)
      BY <2>1, <3>1 DEF Sound, Resting, OwnIsCurrent
    <3>2. CASE Active(g)
      <4>1. Working(g) /\ pc[g] \in Places \ {"idle", "done"}
        BY <2>1, <3>2 DEF Sound, Active
      <4> QED BY <4>1 DEF Places, Working, Opening, AtLine, InText, AtEnd, Reading, OwnIsCurrent
    <3> QED BY <3>1, <3>2
  <2>4. Cardinality(Own(g)) <= 1
    <3> DEFINE the == [id |-> current, by |-> <<g, runs[g]>>]
    <3>1. \A h \in Own(g) : h = the
      <4>1. handles \subseteq [id : Nat \ {0}, by : Readers \X Nat]
        BY DEF SourceInv, TypesInv, HandlesInv
      <4> QED BY <2>3, <4>1 DEF Own, OwnIsCurrent
    <3> HIDE DEF the
    <3>2. Own(g) \subseteq {the}
      BY <3>1
    <3>3. IsFiniteSet({the}) /\ Cardinality({the}) = 1
      BY FS_Singleton, Zenon
    <3>4. Cardinality(Own(g)) <= Cardinality({the})
      BY <3>2, <3>3, FS_Subset
    <3> QED BY <3>3, <3>4
  <2> QED BY <2>1, <2>2, <2>4 DEF Sound
<1> QED BY <1>1, SourceInvariant, PTL

=============================================================================
