------------------------ MODULE ArchiveSessionProofs ------------------------
(***************************************************************************)
(* An archive written is the archive read, for archives of any size, any   *)
(* names and contents, either traversal and every version: each folder and *)
(* each file is found again at the index, the string and the bytes that    *)
(* write gave it.  And so a session that edits, writes and reads over and  *)
(* over keeps an archive sound, leaves files that verify, and loses        *)
(* nothing; and a file read and written comes out as it was.               *)
(*                                                                         *)
(* The proof goes up as write does: sequences put end to end and the       *)
(* counters that index them; the order of the visits; the folder and file  *)
(* tables; the blob, the hashes and the strings; one entry of each table   *)
(* as a reader finds it; the tree load_folder puts together, from the      *)
(* leaves up; the edits in memory; and the session, whose invariant is     *)
(* that the file is one that write lays out, of some sound archive.  For   *)
(* the round trip: the archive read is the one written but for the order   *)
(* of its files, which the places of their bytes tell; strings that either *)
(* layout writes make one file of the two; and the edits keep the files    *)
(* that are left in their order.                                           *)
(***************************************************************************)
EXTENDS ArchiveSession, ArchiveEditsProofs

(***************************************************************************)
(* Sequences of sequences put into one, and the counters of write.         *)
(***************************************************************************)
\* What FlattenSeq computes, up to n.
IsFlat(seqs, n, f) == f = [i \in 1 .. n |-> IF i = 1 THEN seqs[i] ELSE f[i - 1] \o seqs[i]]

\* The sequence of the first n of them, as one.
FlatTo(seqs, n) == FlattenSeq(SubSeq(seqs, 1, n))

LEMMA FlatAt ==
  ASSUME NEW seqs, NEW n \in Nat, NEW f, IsFlat(seqs, n, f), NEW i \in 1 .. n
  PROVE  f[i] = IF i = 1 THEN seqs[i] ELSE f[i - 1] \o seqs[i]
<1>1. f = [j \in 1 .. n |-> IF j = 1 THEN seqs[j] ELSE f[j - 1] \o seqs[j]]
  BY DEF IsFlat
<1> DEFINE g == [j \in 1 .. n |-> IF j = 1 THEN seqs[j] ELSE f[j - 1] \o seqs[j]]
<1>2. g[i] = IF i = 1 THEN seqs[i] ELSE f[i - 1] \o seqs[i]
  OBVIOUS
<1>3. f = g
  BY <1>1
<1> HIDE DEF g
<1> QED BY <1>2, <1>3

LEMMA FlatExists ==
  ASSUME NEW seqs, NEW N \in Nat
  PROVE  \E f : IsFlat(seqs, N, f)
<1> DEFINE G == {n \in 0 .. N : \E f : IsFlat(seqs, n, f)}
<1>1. 0 \in G
  <2>1. IsFlat(seqs, 0, <<>>)
    <3>1. <<>> = [i \in 1 .. 0 |-> IF i = 1 THEN seqs[i] ELSE (<<>>)[i - 1] \o seqs[i]]
      OBVIOUS
    <3> QED BY <3>1 DEF IsFlat
  <2> QED BY <2>1
<1>2. ASSUME NEW n \in 1 .. N, n - 1 \in G
      PROVE  n \in G
  <2>1. PICK f : IsFlat(seqs, n - 1, f)
    BY <1>2
  <2> DEFINE g == [i \in 1 .. n |-> IF i = n THEN (IF i = 1 THEN seqs[i] ELSE f[i - 1] \o seqs[i]) ELSE f[i]]
             h == [i \in 1 .. n |-> IF i = 1 THEN seqs[i] ELSE g[i - 1] \o seqs[i]]
  <2>2. \A i \in 1 .. n : h[i] = g[i]
    <3> SUFFICES ASSUME NEW i \in 1 .. n PROVE h[i] = g[i]
      OBVIOUS
    <3>1. CASE i = 1 /\ n = 1
      BY <3>1
    <3>2. CASE i = 1 /\ n # 1
      <4>1. f[i] = seqs[i]
        BY <2>1, <3>2, FlatAt
      <4> QED BY <3>2, <4>1
    <3>3. CASE i # 1 /\ i = n
      <4>1. i - 1 \in 1 .. n /\ i - 1 # n
        BY <3>3
      <4>2. g[i - 1] = f[i - 1]
        BY <4>1
      <4>3. h[i] = g[i - 1] \o seqs[i] /\ g[i] = f[i - 1] \o seqs[i]
        BY <3>3
      <4> HIDE DEF g, h
      <4> QED BY <4>2, <4>3
    <3>4. CASE i # 1 /\ i # n
      <4>0. i - 1 \in 1 .. n /\ i - 1 # n /\ i \in 1 .. n - 1 /\ n - 1 \in Nat
        BY <3>4
      <4>1. f[i] = f[i - 1] \o seqs[i]
        <5>1. f[i] = IF i = 1 THEN seqs[i] ELSE f[i - 1] \o seqs[i]
          <6> HIDE DEF g, h
          <6> QED BY <2>1, <4>0, FlatAt
        <5> HIDE DEF g, h
        <5> QED BY <3>4, <5>1
      <4>2. g[i - 1] = f[i - 1]
        BY <4>0
      <4>3. h[i] = g[i - 1] \o seqs[i] /\ g[i] = f[i]
        BY <3>4
      <4> HIDE DEF g, h
      <4> QED BY <4>1, <4>2, <4>3
    <3> QED BY <3>1, <3>2, <3>3, <3>4
  <2>3. h = g
    <3>1. h = [i \in 1 .. n |-> h[i]] /\ g = [i \in 1 .. n |-> g[i]]
      OBVIOUS
    <3> HIDE DEF h, g
    <3> QED BY <2>2, <3>1
  <2>4. g = [i \in 1 .. n |-> IF i = 1 THEN seqs[i] ELSE g[i - 1] \o seqs[i]]
    BY <2>3
  <2>5. IsFlat(seqs, n, g)
    <3> HIDE DEF g
    <3> QED BY <2>4 DEF IsFlat
  <2> QED BY <1>2, <2>5
<1>3. 0 .. N \subseteq G
  <2> HIDE DEF G
  <2> QED BY <1>1, <1>2, StepsReach
<1> QED BY <1>3

LEMMA FlatUnique ==
  ASSUME NEW seqs, NEW r, NEW n \in Nat, NEW m \in Nat, n <= m, \A i \in 1 .. n : r[i] = seqs[i],
         NEW f, IsFlat(r, n, f), NEW g, IsFlat(seqs, m, g)
  PROVE  \A i \in 1 .. n : f[i] = g[i]
<1> DEFINE G == {i \in 0 .. n : i # 0 => f[i] = g[i]}
<1>1. 0 \in G
  OBVIOUS
<1>2. ASSUME NEW i \in 1 .. n, i - 1 \in G
      PROVE  i \in G
  <2>1. f[i] = IF i = 1 THEN r[i] ELSE f[i - 1] \o r[i]
    BY FlatAt
  <2>2. g[i] = IF i = 1 THEN seqs[i] ELSE g[i - 1] \o seqs[i]
    BY FlatAt
  <2> QED BY <1>2, <2>1, <2>2
<1>3. 0 .. n \subseteq G
  <2> HIDE DEF G
  <2> QED BY <1>1, <1>2, StepsReach
<1> QED BY <1>3

LEMMA FlatIs ==
  ASSUME NEW T, NEW seqs \in Seq(T), NEW n \in 1 .. Len(seqs), NEW f, IsFlat(seqs, Len(seqs), f)
  PROVE  FlatTo(seqs, n) = f[n]
<1> DEFINE r == SubSeq(seqs, 1, n)
           E(h) == h = [i \in 1 .. Len(r) |-> IF i = 1 THEN r[i] ELSE h[i - 1] \o r[i]]
           c == CHOOSE h : E(h)
<1>1. Len(r) = n /\ r # <<>> /\ \A i \in 1 .. n : r[i] = seqs[i]
  OBVIOUS
<1>2. FlattenSeq(r) = c[n]
  <2> HIDE DEF r
  <2> QED BY <1>1 DEF FlattenSeq
<1>3. \E h : E(h)
  <2>1. \E h : IsFlat(r, n, h)
    BY FlatExists
  <2> HIDE DEF r
  <2> QED BY <1>1, <2>1 DEF IsFlat
<1>4. E(c)
  <2> HIDE DEF E
  <2> QED BY <1>3
<1>5. IsFlat(r, n, c)
  <2> HIDE DEF r, c
  <2> QED BY <1>1, <1>4 DEF IsFlat
<1>6. c[n] = f[n]
  <2> HIDE DEF r, c
  <2> QED BY <1>1, <1>5, FlatUnique
<1> QED BY <1>2, <1>6 DEF FlatTo

LEMMA FlatSteps ==
  ASSUME NEW S, NEW seqs \in Seq(Seq(S))
  PROVE  /\ FlatTo(seqs, 0) = <<>>
         /\ \A n \in 1 .. Len(seqs) : FlatTo(seqs, n) = FlatTo(seqs, n - 1) \o seqs[n]
         /\ \A n \in 0 .. Len(seqs) : FlatTo(seqs, n) \in Seq(S)
         /\ FlattenSeq(seqs) = FlatTo(seqs, Len(seqs))
<1>0. /\ Len(seqs) \in Nat
      /\ \A n \in 1 .. Len(seqs) : seqs[n] \in Seq(S)
  OBVIOUS
<1>1. FlatTo(seqs, 0) = <<>>
  <2>1. SubSeq(seqs, 1, 0) = <<>>
    OBVIOUS
  <2> QED BY <2>1 DEF FlatTo, FlattenSeq
<1>2. PICK f : IsFlat(seqs, Len(seqs), f)
  BY <1>0, FlatExists
<1>3. \A n \in 1 .. Len(seqs) : FlatTo(seqs, n) = f[n]
  BY <1>2, FlatIs
<1>4. ASSUME NEW n \in 1 .. Len(seqs)
      PROVE  FlatTo(seqs, n) = FlatTo(seqs, n - 1) \o seqs[n]
  <2>1. f[n] = IF n = 1 THEN seqs[n] ELSE f[n - 1] \o seqs[n]
    BY <1>0, <1>2, FlatAt
  <2>2. CASE n = 1
    <3>1. seqs[n] \in Seq(S)
      OBVIOUS
    <3>2. <<>> \o seqs[n] = seqs[n]
      BY <3>1
    <3> QED BY <1>1, <1>3, <2>1, <2>2, <3>2
  <2>3. CASE n # 1
    <3>1. n - 1 \in 1 .. Len(seqs)
      BY <1>0, <2>3
    <3> QED BY <1>3, <2>1, <2>3, <3>1
  <2> QED BY <2>2, <2>3
<1>5. \A n \in 0 .. Len(seqs) : FlatTo(seqs, n) \in Seq(S)
  <2> DEFINE G == {n \in 0 .. Len(seqs) : FlatTo(seqs, n) \in Seq(S)}
  <2>1. 0 \in G
    <3>1. <<>> \in Seq(S)
      OBVIOUS
    <3>2. FlatTo(seqs, 0) \in Seq(S)
      BY <1>1, <3>1
    <3>3. 0 \in 0 .. Len(seqs)
      BY <1>0
    <3> QED BY <3>2, <3>3
  <2>2. ASSUME NEW n \in 1 .. Len(seqs), n - 1 \in G
        PROVE  n \in G
    <3>1. seqs[n] \in Seq(S) /\ FlatTo(seqs, n - 1) \in Seq(S)
      BY <1>0, <2>2
    <3>2. FlatTo(seqs, n) = FlatTo(seqs, n - 1) \o seqs[n]
      BY <1>4
    <3>3. FlatTo(seqs, n) \in Seq(S)
      BY <3>1, <3>2
    <3> QED BY <1>0, <3>3
  <2>3. 0 .. Len(seqs) \subseteq G
    <3> HIDE DEF G
    <3> QED BY <1>0, <2>1, <2>2, StepsReach
  <2> QED BY <2>3
<1>6. FlattenSeq(seqs) = FlatTo(seqs, Len(seqs))
  <2>1. SubSeq(seqs, 1, Len(seqs)) = seqs
    OBVIOUS
  <2> QED BY <2>1 DEF FlatTo
<1> QED BY <1>1, <1>4, <1>5, <1>6

\* The counters grow by what each sequence holds.
Counters(seqs) ==
  /\ Upto(seqs, 0) = 0
  /\ \A n \in 1 .. Len(seqs) : Upto(seqs, n) = Upto(seqs, n - 1) + Len(seqs[n])
  /\ \A n \in 0 .. Len(seqs) : Upto(seqs, n) \in Nat
  /\ Upto(seqs, Len(seqs)) = Len(FlattenSeq(seqs))

LEMMA CountersGrow ==
  ASSUME NEW S, NEW seqs \in Seq(Seq(S))
  PROVE  Counters(seqs)
<1>0. /\ Len(seqs) \in Nat
      /\ \A n \in 1 .. Len(seqs) : seqs[n] \in Seq(S)
  OBVIOUS
<1>1. \A n : Upto(seqs, n) = Len(FlatTo(seqs, n))
  BY DEF Upto, FlatTo
<1>2. /\ FlatTo(seqs, 0) = <<>>
      /\ \A n \in 1 .. Len(seqs) : FlatTo(seqs, n) = FlatTo(seqs, n - 1) \o seqs[n]
      /\ \A n \in 0 .. Len(seqs) : FlatTo(seqs, n) \in Seq(S)
      /\ FlattenSeq(seqs) = FlatTo(seqs, Len(seqs))
  BY FlatSteps
<1>3. Upto(seqs, 0) = 0
  BY <1>1, <1>2
<1>4. ASSUME NEW n \in 1 .. Len(seqs)
      PROVE  Upto(seqs, n) = Upto(seqs, n - 1) + Len(seqs[n])
  <2>1. n - 1 \in 0 .. Len(seqs)
    BY <1>0
  <2>2. FlatTo(seqs, n - 1) \in Seq(S) /\ seqs[n] \in Seq(S)
    BY <1>0, <1>2, <2>1
  <2>3. Len(FlatTo(seqs, n - 1) \o seqs[n]) = Len(FlatTo(seqs, n - 1)) + Len(seqs[n])
    BY <2>2, ConcatProperties
  <2>4. FlatTo(seqs, n) = FlatTo(seqs, n - 1) \o seqs[n]
    BY <1>2
  <2> QED BY <1>1, <2>3, <2>4
<1>5. \A n \in 0 .. Len(seqs) : Upto(seqs, n) \in Nat
  <2> SUFFICES ASSUME NEW n \in 0 .. Len(seqs) PROVE Upto(seqs, n) \in Nat
    OBVIOUS
  <2>1. FlatTo(seqs, n) \in Seq(S)
    BY <1>2
  <2>2. Len(FlatTo(seqs, n)) \in Nat
    BY <2>1, LenProperties
  <2> QED BY <1>1, <2>2
<1>6. Upto(seqs, Len(seqs)) = Len(FlattenSeq(seqs))
  BY <1>1, <1>2
<1> QED BY <1>3, <1>4, <1>5, <1>6 DEF Counters

Ordered(seqs) == \A n, m \in 0 .. Len(seqs) : n <= m => Upto(seqs, n) <= Upto(seqs, m)

LEMMA CountersOrdered ==
  ASSUME NEW S, NEW seqs \in Seq(Seq(S))
  PROVE  Ordered(seqs)
<1>0. /\ Len(seqs) \in Nat
      /\ \A n \in 1 .. Len(seqs) : Len(seqs[n]) \in Nat
  <2>1. \A n \in 1 .. Len(seqs) : seqs[n] \in Seq(S)
    OBVIOUS
  <2>2. \A n \in 1 .. Len(seqs) : Len(seqs[n]) \in Nat
    BY <2>1, LenProperties
  <2> QED BY <2>2
<1>1. Counters(seqs)
  BY CountersGrow
<1> SUFFICES ASSUME NEW n \in 0 .. Len(seqs)
             PROVE  \A m \in 0 .. Len(seqs) : n <= m => Upto(seqs, n) <= Upto(seqs, m)
  BY DEF Ordered
<1> DEFINE G == {m \in 0 .. Len(seqs) : n <= m => Upto(seqs, n) <= Upto(seqs, m)}
<1>2. 0 \in G
  <2>1. n <= 0 => n = 0
    BY <1>0
  <2> QED BY <1>0, <1>1, <2>1 DEF Counters
<1>3. ASSUME NEW m \in 1 .. Len(seqs), m - 1 \in G
      PROVE  m \in G
  <2>1. Upto(seqs, m) = Upto(seqs, m - 1) + Len(seqs[m])
    BY <1>1 DEF Counters
  <2>2. m - 1 \in 0 .. Len(seqs) /\ m \in 0 .. Len(seqs)
    BY <1>0
  <2>3. Upto(seqs, m - 1) \in Nat /\ Upto(seqs, m) \in Nat /\ Upto(seqs, n) \in Nat
    BY <1>1, <2>2 DEF Counters
  <2>4. Upto(seqs, m - 1) <= Upto(seqs, m)
    BY <1>0, <2>1, <2>3
  <2>5. n <= m => n = m \/ n <= m - 1
    BY <1>0
  <2> QED BY <1>3, <2>2, <2>3, <2>4, <2>5
<1>4. 0 .. Len(seqs) \subseteq G
  <2> HIDE DEF G
  <2> QED BY <1>0, <1>2, <1>3, StepsReach
<1> QED BY <1>4

\* Where what was put in is found.
InFlat(seqs, n, k) ==
  /\ Upto(seqs, n - 1) + k \in DOMAIN FlattenSeq(seqs)
  /\ FlattenSeq(seqs)[Upto(seqs, n - 1) + k] = seqs[n][k]

LEMMA FlatHolds ==
  ASSUME NEW S, NEW seqs \in Seq(Seq(S)), NEW n \in 1 .. Len(seqs), NEW k \in 1 .. Len(seqs[n])
  PROVE  InFlat(seqs, n, k)
<1>0. /\ Len(seqs) \in Nat
      /\ \A m \in 1 .. Len(seqs) : seqs[m] \in Seq(S)
  OBVIOUS
<1>1. \A m : Upto(seqs, m) = Len(FlatTo(seqs, m))
  BY DEF Upto, FlatTo
<1>2. /\ FlatTo(seqs, 0) = <<>>
      /\ \A m \in 1 .. Len(seqs) : FlatTo(seqs, m) = FlatTo(seqs, m - 1) \o seqs[m]
      /\ \A m \in 0 .. Len(seqs) : FlatTo(seqs, m) \in Seq(S)
      /\ FlattenSeq(seqs) = FlatTo(seqs, Len(seqs))
  BY FlatSteps
<1>3. Counters(seqs)
  BY CountersGrow
<1> DEFINE at == Upto(seqs, n - 1) + k
           G == {m \in 0 .. Len(seqs) : n <= m => at \in 1 .. Upto(seqs, m) /\ FlatTo(seqs, m)[at] = seqs[n][k]}
<1>4. 0 \in G
  <2>1. ~ n <= 0
    BY <1>0
  <2> QED BY <1>0, <2>1
<1>5. ASSUME NEW m \in 1 .. Len(seqs), m - 1 \in G
      PROVE  m \in G
  <2>1. m - 1 \in 0 .. Len(seqs) /\ m \in 0 .. Len(seqs) /\ n - 1 \in 0 .. Len(seqs)
    BY <1>0
  <2>2. Upto(seqs, m) = Upto(seqs, m - 1) + Len(seqs[m])
    BY <1>3 DEF Counters
  <2>3. Upto(seqs, m - 1) \in Nat /\ Upto(seqs, n - 1) \in Nat /\ Len(seqs[m]) \in Nat
    <3>1. seqs[m] \in Seq(S)
      BY <1>0
    <3> QED BY <1>3, <2>1, <3>1, LenProperties DEF Counters
  <2>4. FlatTo(seqs, m) = FlatTo(seqs, m - 1) \o seqs[m]
    BY <1>2
  <2>5. FlatTo(seqs, m - 1) \in Seq(S) /\ seqs[m] \in Seq(S)
    BY <1>0, <1>2, <2>1
  <2>6. /\ \A j \in 1 .. Upto(seqs, m - 1) : FlatTo(seqs, m)[j] = FlatTo(seqs, m - 1)[j]
        /\ \A j \in 1 .. Len(seqs[m]) : FlatTo(seqs, m)[Upto(seqs, m - 1) + j] = seqs[m][j]
    <3> DEFINE a == FlatTo(seqs, m - 1)
               b == seqs[m]
    <3>1. a \in Seq(S) /\ b \in Seq(S) /\ FlatTo(seqs, m) = a \o b /\ Len(a) = Upto(seqs, m - 1)
      BY <1>1, <2>4, <2>5
    <3>2. /\ \A j \in 1 .. Len(a) : (a \o b)[j] = a[j]
          /\ \A j \in 1 .. Len(b) : (a \o b)[Len(a) + j] = b[j]
      <4> HIDE DEF a, b
      <4>1. Len(a) \in Nat /\ Len(b) \in Nat
        BY <3>1, LenProperties
      <4>2. \A j \in 1 .. Len(a) + Len(b) : (a \o b)[j] = IF j <= Len(a) THEN a[j] ELSE b[j - Len(a)]
        BY <3>1, ConcatProperties
      <4>3. ASSUME NEW j \in 1 .. Len(a)
            PROVE  (a \o b)[j] = a[j]
        BY <4>1, <4>2
      <4>4. ASSUME NEW j \in 1 .. Len(b)
            PROVE  (a \o b)[Len(a) + j] = b[j]
        <5>1. Len(a) + j \in 1 .. Len(a) + Len(b) /\ ~ Len(a) + j <= Len(a) /\ Len(a) + j - Len(a) = j
          BY <4>1
        <5> QED BY <4>2, <5>1
      <4> QED BY <4>3, <4>4
    <3> QED BY <3>1, <3>2
  <2>7. CASE m < n
    BY <1>0, <2>1, <2>7
  <2>8. CASE m = n
    <3>1. at = Upto(seqs, m - 1) + k /\ k \in 1 .. Len(seqs[m])
      BY <2>8
    <3>2. at \in 1 .. Upto(seqs, m)
      <4> HIDE DEF at
      <4> QED BY <2>2, <2>3, <3>1
    <3>3. FlatTo(seqs, m)[at] = seqs[n][k]
      BY <2>6, <2>8
    <3> QED BY <2>1, <3>2, <3>3
  <2>9. CASE n < m
    <3>1. n <= m - 1
      BY <1>0, <2>9
    <3>2. at \in 1 .. Upto(seqs, m - 1) /\ FlatTo(seqs, m - 1)[at] = seqs[n][k]
      BY <1>5, <3>1
    <3>3. FlatTo(seqs, m)[at] = seqs[n][k]
      <4> HIDE DEF at
      <4> QED BY <2>6, <3>2
    <3>4. at \in 1 .. Upto(seqs, m)
      <4> HIDE DEF at
      <4> QED BY <2>2, <2>3, <3>2
    <3> QED BY <2>1, <3>3, <3>4
  <2> QED BY <1>0, <2>7, <2>8, <2>9
<1>6. 0 .. Len(seqs) \subseteq G
  <2> HIDE DEF G
  <2> QED BY <1>0, <1>4, <1>5, StepsReach
<1>7. at \in 1 .. Upto(seqs, Len(seqs)) /\ FlatTo(seqs, Len(seqs))[at] = seqs[n][k]
  <2>1. Len(seqs) \in G
    <3> HIDE DEF G
    <3> QED BY <1>0, <1>6
  <2>2. n <= Len(seqs)
    BY <1>0
  <2> QED BY <2>1, <2>2
<1>8. FlattenSeq(seqs) \in Seq(S) /\ Upto(seqs, Len(seqs)) = Len(FlattenSeq(seqs))
  <2>1. Len(seqs) \in 0 .. Len(seqs)
    BY <1>0
  <2> QED BY <1>1, <1>2, <2>1
<1>9. DOMAIN FlattenSeq(seqs) = 1 .. Len(FlattenSeq(seqs))
  BY <1>8
<1> QED
  <2> HIDE DEF G
  <2> QED BY <1>2, <1>7, <1>8, <1>9 DEF InFlat

\* Nothing else is there.
FromOne(seqs, x, n, k) == n \in 1 .. Len(seqs) /\ k \in 1 .. Len(seqs[n]) /\ x = Upto(seqs, n - 1) + k

LEMMA FlatFrom ==
  ASSUME NEW S, NEW seqs \in Seq(Seq(S)), NEW x \in 1 .. Len(FlattenSeq(seqs))
  PROVE  \E n, k : FromOne(seqs, x, n, k)
<1>0. /\ Len(seqs) \in Nat
      /\ \A m \in 1 .. Len(seqs) : Len(seqs[m]) \in Nat
  <2>1. \A m \in 1 .. Len(seqs) : seqs[m] \in Seq(S)
    OBVIOUS
  <2>2. \A n \in 1 .. Len(seqs) : Len(seqs[n]) \in Nat
    BY <2>1, LenProperties
  <2> QED BY <2>2
<1>1. Counters(seqs)
  BY CountersGrow
<1> DEFINE G == {m \in 0 .. Len(seqs) : x <= Upto(seqs, m) => \E n, k : FromOne(seqs, x, n, k)}
<1>2. 0 \in G
  <2>1. Upto(seqs, 0) = 0 /\ ~ x <= 0
    BY <1>1 DEF Counters
  <2> QED BY <1>0, <2>1
<1>3. ASSUME NEW m \in 1 .. Len(seqs), m - 1 \in G
      PROVE  m \in G
  <2>1. m - 1 \in 0 .. Len(seqs) /\ m \in 0 .. Len(seqs)
    BY <1>0
  <2>2. /\ Upto(seqs, m) = Upto(seqs, m - 1) + Len(seqs[m])
        /\ Upto(seqs, m - 1) \in Nat
    BY <1>1, <2>1 DEF Counters
  <2>3. CASE x <= Upto(seqs, m - 1)
    BY <1>3, <2>1, <2>3
  <2>4. CASE x > Upto(seqs, m - 1) /\ x <= Upto(seqs, m)
    <3>1. x - Upto(seqs, m - 1) \in 1 .. Len(seqs[m]) /\ x = Upto(seqs, m - 1) + (x - Upto(seqs, m - 1))
      BY <1>0, <2>2, <2>4
    <3>2. FromOne(seqs, x, m, x - Upto(seqs, m - 1))
      BY <3>1 DEF FromOne
    <3> QED BY <2>1, <3>2
  <2>5. CASE ~ x <= Upto(seqs, m)
    BY <2>1, <2>5
  <2> QED BY <2>2, <2>3, <2>4, <2>5
<1>4. 0 .. Len(seqs) \subseteq G
  <2> HIDE DEF G
  <2> QED BY <1>0, <1>2, <1>3, StepsReach
<1>5. x <= Upto(seqs, Len(seqs))
  BY <1>1 DEF Counters
<1>6. Len(seqs) \in G
  <2> HIDE DEF G
  <2> QED BY <1>0, <1>4
<1> QED BY <1>5, <1>6

LEMMA FlatTyped ==
  ASSUME NEW S, NEW seqs \in Seq(Seq(S))
  PROVE  FlattenSeq(seqs) \in Seq(S)
<1>1. Len(seqs) \in 0 .. Len(seqs)
  OBVIOUS
<1> QED BY <1>1, FlatSteps

\* The part of it that one sequence is.
LEMMA FlatPart ==
  ASSUME NEW S, NEW seqs \in Seq(Seq(S)), NEW n \in 1 .. Len(seqs)
  PROVE  SubSeq(FlattenSeq(seqs), Upto(seqs, n - 1) + 1, Upto(seqs, n)) = seqs[n]
<1> DEFINE flat == FlattenSeq(seqs)
           a == Upto(seqs, n - 1)
           b == Upto(seqs, n)
           part == SubSeq(flat, a + 1, b)
<1>1. flat \in Seq(S) /\ seqs[n] \in Seq(S) /\ Len(seqs[n]) \in Nat /\ Len(seqs) \in Nat
  BY FlatTyped, LenProperties
<1>2. a \in Nat /\ b = a + Len(seqs[n]) /\ b <= Len(flat)
  <2>1. Counters(seqs) /\ Ordered(seqs)
    BY CountersGrow, CountersOrdered
  <2>2. n - 1 \in 0 .. Len(seqs) /\ n \in 0 .. Len(seqs) /\ Len(seqs) \in 0 .. Len(seqs)
    BY <1>1
  <2>3. Upto(seqs, n) <= Upto(seqs, Len(seqs))
    BY <2>1, <2>2 DEF Ordered
  <2> QED BY <2>1, <2>2, <2>3 DEF Counters
<1>3. Len(part) = Len(seqs[n]) /\ \A k \in 1 .. Len(seqs[n]) : part[k] = flat[a + k]
  <2> HIDE DEF flat, a, b
  <2> QED BY <1>1, <1>2
<1>4. \A k \in 1 .. Len(seqs[n]) : flat[a + k] = seqs[n][k]
  <2> SUFFICES ASSUME NEW k \in 1 .. Len(seqs[n]) PROVE flat[a + k] = seqs[n][k]
    OBVIOUS
  <2>1. InFlat(seqs, n, k)
    BY FlatHolds
  <2> QED BY <2>1 DEF InFlat
<1>5. part \in Seq(S)
  <2> HIDE DEF flat, a, b
  <2>1. a + 1 \in 1 .. Len(flat) + 1 /\ b \in Int /\ b <= Len(flat)
    BY <1>1, <1>2
  <2> QED BY <1>1, <1>2, <2>1, SubSeqProperties
<1>6. part = seqs[n]
  <2>1. \A k \in 1 .. Len(part) : part[k] = seqs[n][k]
    <3> HIDE DEF part, flat, a, b
    <3> QED BY <1>3, <1>4
  <2> HIDE DEF part, flat, a, b
  <2> QED BY <1>1, <1>3, <1>5, <2>1, SeqEqual
<1> QED BY <1>6

(***************************************************************************)
(* The two traversals visit every folder once, and its parent before it.   *)
(***************************************************************************)
LEMMA BreadthFirstOrders ==
  ASSUME NEW t, IsTree(t)
  PROVE  /\ \A p \in DOMAIN t : ~ BreadthFirst(t, p, p)
         /\ \A p, q \in DOMAIN t : p # q => BreadthFirst(t, p, q) \/ BreadthFirst(t, q, p)
         /\ \A p, q, r \in DOMAIN t :
              BreadthFirst(t, p, q) /\ BreadthFirst(t, q, r) => BreadthFirst(t, p, r)
<1>1. \A p \in DOMAIN t : Len(p) \in Nat
  BY FolderParts
<1>2. ASSUME NEW p \in DOMAIN t
      PROVE  ~ BreadthFirst(t, p, p)
  <2>1. ~ DepthFirst(t, p, p)
    BY DepthFirstOrders
  <2>2. ~ Len(p) < Len(p)
    BY <1>1
  <2> QED BY <2>1, <2>2 DEF BreadthFirst
<1>3. ASSUME NEW p \in DOMAIN t, NEW q \in DOMAIN t, p # q
      PROVE  BreadthFirst(t, p, q) \/ BreadthFirst(t, q, p)
  <2>1. DepthFirst(t, p, q) \/ DepthFirst(t, q, p)
    BY <1>3, DepthFirstOrders
  <2>2. Len(p) < Len(q) \/ Len(p) = Len(q) \/ Len(q) < Len(p)
    BY <1>1
  <2> QED BY <2>1, <2>2 DEF BreadthFirst
<1>4. ASSUME NEW p \in DOMAIN t, NEW q \in DOMAIN t, NEW r \in DOMAIN t,
             BreadthFirst(t, p, q), BreadthFirst(t, q, r)
      PROVE  BreadthFirst(t, p, r)
  <2>1. DepthFirst(t, p, q) /\ DepthFirst(t, q, r) => DepthFirst(t, p, r)
    BY DepthFirstOrders
  <2>2. Len(p) \in Nat /\ Len(q) \in Nat /\ Len(r) \in Nat
    BY <1>1
  <2>3. Len(p) < Len(q) \/ (Len(p) = Len(q) /\ DepthFirst(t, p, q))
    BY <1>4 DEF BreadthFirst
  <2>4. Len(q) < Len(r) \/ (Len(q) = Len(r) /\ DepthFirst(t, q, r))
    BY <1>4 DEF BreadthFirst
  <2>5. Len(p) < Len(r) \/ (Len(p) = Len(r) /\ DepthFirst(t, p, r))
    BY <2>1, <2>2, <2>3, <2>4
  <2> QED BY <2>5 DEF BreadthFirst
<1> QED BY <1>2, <1>3, <1>4

WalkOrder(lay, t) ==
  {x \in (DOMAIN t) \X (DOMAIN t) :
     IF lay = "Legacy" THEN DepthFirst(t, x[1], x[2]) ELSE BreadthFirst(t, x[1], x[2])}

LEMMA WalkOrderStrict ==
  ASSUME NEW t, IsTree(t), NEW lay
  PROVE  StrictOrder(DOMAIN t, WalkOrder(lay, t))
<1> DEFINE Comes(p, q) == IF lay = "Legacy" THEN DepthFirst(t, p, q) ELSE BreadthFirst(t, p, q)
           R == WalkOrder(lay, t)
<1>1. \A p, q \in DOMAIN t : <<p, q>> \in R <=> Comes(p, q)
  BY DEF WalkOrder
<1>2. \A p \in DOMAIN t : ~ Comes(p, p)
  BY DepthFirstOrders, BreadthFirstOrders
<1>3. \A p, q \in DOMAIN t : p # q => Comes(p, q) \/ Comes(q, p)
  <2>1. CASE lay = "Legacy"
    BY <2>1, DepthFirstOrders
  <2>2. CASE lay # "Legacy"
    BY <2>2, BreadthFirstOrders
  <2> QED BY <2>1, <2>2
<1>4. \A p, q, r \in DOMAIN t : Comes(p, q) /\ Comes(q, r) => Comes(p, r)
  <2>1. CASE lay = "Legacy"
    BY <2>1, DepthFirstOrders
  <2>2. CASE lay # "Legacy"
    BY <2>2, BreadthFirstOrders
  <2> QED BY <2>1, <2>2
<1> HIDE DEF R, Comes
<1> QED BY <1>1, <1>2, <1>3, <1>4 DEF StrictOrder, R

\* A walk w of a tree.
Walked(t, w) ==
  /\ w \in Seq(DOMAIN t)
  /\ Len(w) \in Nat \ {0}
  /\ \A p \in DOMAIN t : \E k \in 1 .. Len(w) : w[k] = p
  /\ \A k, l \in 1 .. Len(w) : w[k] = w[l] => k = l
  /\ w[1] = <<>>
  /\ \A k, l \in 1 .. Len(w) : w[l] # <<>> /\ w[k] = Front(w[l]) => k < l

LEMMA ParentComesFirst ==
  ASSUME NEW t, IsTree(t), NEW q \in DOMAIN t, q # <<>>, NEW lay
  PROVE  /\ Front(q) \in DOMAIN t /\ <<Front(q), q>> \in WalkOrder(lay, t)
         /\ <<<<>>, q>> \in WalkOrder(lay, t)
<1>1. q \in Seq(Names) /\ Front(q) \in DOMAIN t /\ <<>> \in DOMAIN t /\ Len(q) \in Nat \ {0}
  <2>1. q \in Seq(Names) /\ Front(q) \in DOMAIN t /\ <<>> \in DOMAIN t
    BY DEF IsTree
  <2> QED BY <2>1
<1>2. Len(Front(q)) = Len(q) - 1 /\ \A i \in 1 .. Len(Front(q)) : Front(q)[i] = q[i]
  BY <1>1, FrontAndLast
<1>3. Front(q) \in Seq(Names)
  BY <1>1 DEF IsTree
<1>4. IsPrefix(Front(q), q) /\ Front(q) # q
  <2>1. Len(Front(q)) <= Len(q) /\ Len(Front(q)) # Len(q)
    BY <1>1, <1>2
  <2> QED BY <1>1, <1>2, <1>3, <2>1, PrefixPointwise
<1>5. IsPrefix(<<>>, q)
  <2>1. Len(<<>>) = 0 /\ 0 <= Len(q) /\ SubSeq(q, 1, 0) = <<>>
    BY <1>1
  <2> QED BY <2>1 DEF IsPrefix
<1>6. DepthFirst(t, Front(q), q) /\ DepthFirst(t, <<>>, q)
  BY <1>4, <1>5 DEF DepthFirst, IsStrictPrefix
<1>7. BreadthFirst(t, Front(q), q) /\ BreadthFirst(t, <<>>, q)
  <2>1. Len(Front(q)) < Len(q) /\ Len(<<>>) < Len(q)
    BY <1>1, <1>2
  <2> QED BY <2>1 DEF BreadthFirst
<1> QED BY <1>1, <1>6, <1>7 DEF WalkOrder

LEMMA WalkIs ==
  ASSUME NEW t, IsTree(t), IsFiniteSet(DOMAIN t), NEW lay
  PROVE  Walked(t, Walk(lay, t)) /\ Len(Walk(lay, t)) = Cardinality(DOMAIN t)
<1> DEFINE K == DOMAIN t
           R == WalkOrder(lay, t)
           w == Walk(lay, t)
           C == Cardinality(K)
<1>1. w = Enumerate(K, R)
  BY DEF Walk, WalkOrder
<1>2. StrictOrder(K, R)
  BY WalkOrderStrict
<1>3. /\ C \in Nat /\ w \in [1 .. C -> K]
      /\ \A p \in K : \E k \in 1 .. C : w[k] = p
      /\ \A k, l \in 1 .. C : k < l => <<w[k], w[l]>> \in R
  <2> HIDE DEF K, R, w
  <2>1. IsFiniteSet(K)
    BY DEF K
  <2> QED BY <1>1, <1>2, <2>1, EnumerateInOrder
<1>4. w \in Seq(K) /\ Len(w) = C
  <2> HIDE DEF K, w, C
  <2> QED BY <1>3
<1>5. ASSUME NEW k \in 1 .. C, NEW l \in 1 .. C, <<w[k], w[l]>> \in R
      PROVE  k < l
  <2> HIDE DEF K, R, w, C
  <2>1. w[k] \in K /\ w[l] \in K
    BY <1>3
  <2>2. k # l
    BY <1>2, <1>5, <2>1 DEF StrictOrder
  <2>3. ~ l < k
    <3> SUFFICES ASSUME l < k PROVE FALSE
      OBVIOUS
    <3>1. <<w[l], w[k]>> \in R
      BY <1>3
    <3>2. <<w[k], w[k]>> \in R
      BY <1>2, <1>5, <2>1, <3>1 DEF StrictOrder
    <3> QED BY <1>2, <2>1, <3>2 DEF StrictOrder
  <2> QED BY <1>3, <2>2, <2>3
<1>6. ASSUME NEW k \in 1 .. C, NEW l \in 1 .. C, w[k] = w[l]
      PROVE  k = l
  <2> HIDE DEF K, R, w, C
  <2>1. w[k] \in K /\ <<w[k], w[k]>> \notin R
    BY <1>2, <1>3 DEF StrictOrder
  <2>2. ~ k < l /\ ~ l < k
    BY <1>3, <1>6, <2>1
  <2> QED BY <1>3, <2>2
<1>7. <<>> \in K
  BY DEF IsTree
<1>8. C # 0 /\ w[1] = <<>>
  <2>1. PICK k \in 1 .. C : w[k] = <<>>
    BY <1>3, <1>7
  <2>2. C # 0 /\ 1 \in 1 .. C
    <3> HIDE DEF C
    <3> QED BY <1>3, <2>1
  <2>3. w[1] \in K
    BY <1>3, <2>2
  <2>4. ASSUME w[1] # <<>> PROVE FALSE
    <3>1. <<<<>>, w[1]>> \in R
      <4> HIDE DEF w
      <4> QED BY <2>3, <2>4, ParentComesFirst
    <3>2. k < 1
      <4> HIDE DEF R, w, C
      <4> QED BY <1>5, <2>1, <2>2, <3>1
    <3> QED BY <2>1, <3>2
  <2> QED BY <2>2, <2>4
<1>9. ASSUME NEW k \in 1 .. C, NEW l \in 1 .. C, w[l] # <<>>, w[k] = Front(w[l])
      PROVE  k < l
  <2>1. w[l] \in K
    BY <1>3
  <2>2. <<Front(w[l]), w[l]>> \in R
    <3> HIDE DEF w
    <3> QED BY <1>9, <2>1, ParentComesFirst
  <2> HIDE DEF R, w, C
  <2> QED BY <1>5, <1>9, <2>2
<1> HIDE DEF w, C
<1> QED BY <1>3, <1>4, <1>6, <1>8, <1>9 DEF Walked, w, C

(***************************************************************************)
(* The visits of an archive.                                               *)
(***************************************************************************)
VisitsOf(ts) == UNION {{[toc |-> i, path |-> p] : p \in DOMAIN ts[i].tree} : i \in DOMAIN ts}

Visited(ts, visits) ==
  /\ visits \in Seq(VisitsOf(ts))
  /\ Len(visits) \in Nat
  /\ \A visit \in VisitsOf(ts) : \E v \in 1 .. Len(visits) : visits[v] = visit
  /\ \A u, v \in 1 .. Len(visits) : visits[u] = visits[v] => u = v

\* The root of a TOC is the first of its folders, and the next one of the
\* folders before it.
RootsLead(visits) ==
  /\ Len(visits) # 0 => visits[1].toc = 1 /\ visits[1].path = <<>>
  /\ \A v \in 2 .. Len(visits) :
       visits[v].toc = IF visits[v].path = <<>> THEN visits[v - 1].toc + 1 ELSE visits[v - 1].toc

ParentsLead(visits) ==
  \A u, v \in 1 .. Len(visits) :
    visits[v].path # <<>> /\ visits[u] = [toc |-> visits[v].toc, path |-> Front(visits[v].path)] => u < v

\* What the visits are put together from.
WalksOf(lay, ts) ==
  [i \in DOMAIN ts |->
    [k \in 1 .. Cardinality(DOMAIN ts[i].tree) |->
       [toc |-> i, path |-> Walk(lay, ts[i].tree)[k]]]]

LEMMA VisitIn ==
  ASSUME NEW ts, NEW visit
  PROVE  visit \in VisitsOf(ts) <=> \E i \in DOMAIN ts : \E p \in DOMAIN ts[i].tree : visit = [toc |-> i, path |-> p]
BY DEF VisitsOf

LEMMA ArchiveParts ==
  ASSUME NEW ts, IsArchive(ts)
  PROVE  /\ Len(ts) \in Nat /\ DOMAIN ts = 1 .. Len(ts)
         /\ \A i \in 1 .. Len(ts) : IsTree(ts[i].tree) /\ IsToc(ts[i])
<1>1. ts \in Seq(Range(ts)) /\ \A i \in DOMAIN ts : IsToc(ts[i])
  BY DEF IsArchive
<1> DEFINE R == Range(ts)
<1>2. ts \in Seq(R)
  BY <1>1
<1>3. Len(ts) \in Nat /\ DOMAIN ts = 1 .. Len(ts)
  <2> HIDE DEF R
  <2> QED BY <1>2
<1> QED BY <1>1, <1>3 DEF IsToc

LEMMA WalksAre ==
  ASSUME NEW ts, WholeArchive(ts), NEW lay, NEW i \in 1 .. Len(ts)
  PROVE  /\ WalksOf(lay, ts)[i] \in Seq(VisitsOf(ts))
         /\ Len(WalksOf(lay, ts)[i]) \in Nat \ {0}
         /\ \A p \in DOMAIN ts[i].tree : \E k \in 1 .. Len(WalksOf(lay, ts)[i]) :
              WalksOf(lay, ts)[i][k] = [toc |-> i, path |-> p]
         /\ \A k, l \in 1 .. Len(WalksOf(lay, ts)[i]) :
              WalksOf(lay, ts)[i][k] = WalksOf(lay, ts)[i][l] => k = l
         /\ \A k \in 1 .. Len(WalksOf(lay, ts)[i]) :
              /\ WalksOf(lay, ts)[i][k].toc = i
              /\ WalksOf(lay, ts)[i][k].path = <<>> <=> k = 1
         /\ \A k, l \in 1 .. Len(WalksOf(lay, ts)[i]) :
              /\ WalksOf(lay, ts)[i][l].path # <<>>
              /\ WalksOf(lay, ts)[i][k].path = Front(WalksOf(lay, ts)[i][l].path)
              => k < l
<1> DEFINE w == Walk(lay, ts[i].tree)
           C == Len(w)
           x == [k \in 1 .. C |-> [toc |-> i, path |-> w[k]]]
<1>1. i \in DOMAIN ts /\ IsTree(ts[i].tree) /\ IsFiniteSet(DOMAIN ts[i].tree)
  BY ArchiveParts DEF WholeArchive, Whole
<1>2. Walked(ts[i].tree, w) /\ C = Cardinality(DOMAIN ts[i].tree)
  BY <1>1, WalkIs
<1>3. WalksOf(lay, ts)[i] = x
  BY <1>1, <1>2 DEF WalksOf
<1>4. /\ w \in Seq(DOMAIN ts[i].tree) /\ C \in Nat \ {0}
      /\ \A p \in DOMAIN ts[i].tree : \E k \in 1 .. C : w[k] = p
      /\ \A k, l \in 1 .. C : w[k] = w[l] => k = l
      /\ w[1] = <<>>
      /\ \A k, l \in 1 .. C : w[l] # <<>> /\ w[k] = Front(w[l]) => k < l
  BY <1>2 DEF Walked
<1> HIDE DEF w
<1>5. \A k \in 1 .. C : w[k] \in DOMAIN ts[i].tree
  BY <1>4
<1> HIDE DEF C
<1>6. \A k \in 1 .. C : x[k] = [toc |-> i, path |-> w[k]]
  OBVIOUS
<1>7. \A k \in 1 .. C : x[k] \in VisitsOf(ts)
  BY <1>1, <1>5, <1>6, VisitIn
<1>8. x \in Seq(VisitsOf(ts)) /\ Len(x) = C
  <2>1. x = [k \in 1 .. C |-> x[k]]
    OBVIOUS
  <2> HIDE DEF x
  <2>2. x \in [1 .. C -> VisitsOf(ts)]
    BY <1>7, <2>1
  <2> QED BY <1>4, <2>2
<1> HIDE DEF x
<1>9. ASSUME NEW k \in 1 .. C
      PROVE  x[k].toc = i /\ x[k].path = w[k]
  <2>1. x[k] = [toc |-> i, path |-> w[k]]
    BY <1>6
  <2> QED BY <2>1
<1>10. \A k \in 1 .. C : x[k].path = <<>> <=> k = 1
  <2>1. 1 \in 1 .. C
    BY <1>4
  <2> QED BY <1>4, <1>9, <2>1
<1>11. \A p \in DOMAIN ts[i].tree : \E k \in 1 .. C : x[k] = [toc |-> i, path |-> p]
  BY <1>4, <1>6
<1>12. \A k, l \in 1 .. C : x[k] = x[l] => k = l
  BY <1>4, <1>9
<1>13. \A k, l \in 1 .. C : x[l].path # <<>> /\ x[k].path = Front(x[l].path) => k < l
  BY <1>4, <1>9
<1> QED BY <1>3, <1>4, <1>8, <1>9, <1>10, <1>11, <1>12, <1>13

LEMMA VisitsAre ==
  ASSUME NEW ts, WholeArchive(ts), NEW lay
  PROVE  /\ Visited(ts, Visits(lay, ts))
         /\ RootsLead(Visits(lay, ts))
         /\ ParentsLead(Visits(lay, ts))
<1> DEFINE walks == WalksOf(lay, ts)
           visits == Visits(lay, ts)
           V == VisitsOf(ts)
           N == Len(ts)
<1>1. visits = FlattenSeq(walks)
  BY DEF Visits, WalksOf
<1>2. N \in Nat /\ DOMAIN ts = 1 .. N
  BY ArchiveParts DEF WholeArchive
<1>3. /\ \A i \in 1 .. N : walks[i] \in Seq(V) /\ Len(walks[i]) \in Nat \ {0}
      /\ \A i \in 1 .. N : \A p \in DOMAIN ts[i].tree : \E k \in 1 .. Len(walks[i]) : walks[i][k] = [toc |-> i, path |-> p]
      /\ \A i \in 1 .. N : \A k, l \in 1 .. Len(walks[i]) : walks[i][k] = walks[i][l] => k = l
      /\ \A i \in 1 .. N : \A k \in 1 .. Len(walks[i]) : walks[i][k].toc = i /\ (walks[i][k].path = <<>> <=> k = 1)
      /\ \A i \in 1 .. N : \A k, l \in 1 .. Len(walks[i]) :
           walks[i][l].path # <<>> /\ walks[i][k].path = Front(walks[i][l].path) => k < l
  <2> HIDE DEF walks
  <2> SUFFICES ASSUME NEW i \in 1 .. N
      PROVE  /\ walks[i] \in Seq(V) /\ Len(walks[i]) \in Nat \ {0}
             /\ \A p \in DOMAIN ts[i].tree : \E k \in 1 .. Len(walks[i]) : walks[i][k] = [toc |-> i, path |-> p]
             /\ \A k, l \in 1 .. Len(walks[i]) : walks[i][k] = walks[i][l] => k = l
             /\ \A k \in 1 .. Len(walks[i]) : walks[i][k].toc = i /\ (walks[i][k].path = <<>> <=> k = 1)
             /\ \A k, l \in 1 .. Len(walks[i]) :
                  walks[i][l].path # <<>> /\ walks[i][k].path = Front(walks[i][l].path) => k < l
    OBVIOUS
  <2> QED BY WalksAre DEF walks
<1>4. walks \in Seq(Seq(V)) /\ Len(walks) = N
  <2>1. walks = [i \in 1 .. N |-> walks[i]]
    BY <1>2 DEF WalksOf
  <2> HIDE DEF walks, V
  <2>2. walks \in [1 .. N -> Seq(V)]
    BY <1>3, <2>1
  <2> QED BY <1>2, <2>2
<1> HIDE DEF walks, V, N, visits
<1> DEFINE Falls(v, n, k) == FromOne(walks, v, n, k)
<1>5. \A v \in 1 .. Len(visits) : \E n, k : Falls(v, n, k)
  BY <1>1, <1>4, FlatFrom
<1>6. ASSUME NEW n \in 1 .. N, NEW k \in 1 .. Len(walks[n])
      PROVE  /\ Upto(walks, n - 1) + k \in 1 .. Len(visits)
             /\ visits[Upto(walks, n - 1) + k] = walks[n][k]
  <2>1. InFlat(walks, n, k)
    BY <1>4, FlatHolds
  <2>2. visits \in Seq(V)
    BY <1>1, <1>4, FlatTyped
  <2>3. DOMAIN visits = 1 .. Len(visits)
    BY <2>2
  <2> QED BY <1>1, <2>1, <2>3 DEF InFlat
<1>7. \A v, n, k : Falls(v, n, k) => n \in 1 .. N /\ k \in 1 .. Len(walks[n]) /\ v = Upto(walks, n - 1) + k
  BY <1>4 DEF FromOne
<1>8. \A v, n, k : Falls(v, n, k) => visits[v] = walks[n][k] /\ visits[v].toc = n
  BY <1>3, <1>6, <1>7
<1>9. Counters(walks) /\ Ordered(walks)
  BY <1>4, CountersGrow, CountersOrdered
<1>10. visits \in Seq(V) /\ Len(visits) \in Nat
  BY <1>1, <1>4, FlatTyped, LenProperties
<1>11. ASSUME NEW visit \in V
       PROVE  \E v \in 1 .. Len(visits) : visits[v] = visit
  <2>1. PICK i \in 1 .. N : \E p \in DOMAIN ts[i].tree : visit = [toc |-> i, path |-> p]
    BY <1>2, VisitIn DEF V
  <2>2. PICK k \in 1 .. Len(walks[i]) : walks[i][k] = visit
    BY <1>3, <2>1
  <2> QED BY <1>6, <2>2
<1>12. ASSUME NEW u \in 1 .. Len(visits), NEW v \in 1 .. Len(visits), visits[u] = visits[v]
       PROVE  u = v
  <2>1. PICK n, k : Falls(u, n, k)
    BY <1>5
  <2>2. PICK m, l : Falls(v, m, l)
    BY <1>5
  <2>3. n = m
    BY <1>8, <1>12, <2>1, <2>2
  <2>4. k = l
    <3>1. n \in 1 .. N /\ k \in 1 .. Len(walks[n]) /\ l \in 1 .. Len(walks[n])
      BY <1>7, <2>1, <2>2, <2>3
    <3>2. walks[n][k] = walks[n][l]
      BY <1>8, <1>12, <2>1, <2>2, <2>3
    <3> QED BY <1>3, <3>1, <3>2
  <2> QED BY <1>7, <2>1, <2>2, <2>3, <2>4
<1>13. Visited(ts, visits)
  BY <1>10, <1>11, <1>12 DEF Visited, V
<1>14. ASSUME Len(visits) # 0
       PROVE  visits[1].toc = 1 /\ visits[1].path = <<>>
  <2>1. N # 0
    <3>1. 1 \in 1 .. Len(visits)
      BY <1>10, <1>14
    <3>2. \E n, k : Falls(1, n, k)
      BY <1>5, <3>1
    <3> QED BY <1>2, <1>7, <3>2
  <2>2. 1 \in 1 .. N /\ 1 \in 1 .. Len(walks[1])
    <3>1. 1 \in 1 .. N
      BY <1>2, <2>1
    <3> QED BY <1>3, <3>1
  <2>3. Upto(walks, 1 - 1) = 0
    BY <1>9 DEF Counters
  <2>4. visits[1] = walks[1][1]
    BY <1>6, <2>2, <2>3
  <2> QED BY <1>3, <2>2, <2>4
<1>15. ASSUME NEW v \in 2 .. Len(visits)
       PROVE  visits[v].toc = IF visits[v].path = <<>> THEN visits[v - 1].toc + 1 ELSE visits[v - 1].toc
  <2>1. v \in 1 .. Len(visits) /\ v - 1 \in 1 .. Len(visits)
    BY <1>10
  <2>2. PICK n, k : Falls(v, n, k)
    BY <1>5, <2>1
  <2>3. n \in 1 .. N /\ k \in 1 .. Len(walks[n]) /\ v = Upto(walks, n - 1) + k
    BY <1>7, <2>2
  <2>4. visits[v] = walks[n][k] /\ visits[v].toc = n /\ (visits[v].path = <<>> <=> k = 1)
    BY <1>3, <1>8, <2>2, <2>3
  <2>5. n - 1 \in 0 .. N /\ Upto(walks, n - 1) \in Nat
    <3>1. n - 1 \in 0 .. N
      BY <1>2, <2>3
    <3> QED BY <1>4, <1>9, <3>1 DEF Counters
  <2>6. CASE k # 1
    <3>1. k - 1 \in 1 .. Len(walks[n]) /\ v - 1 = Upto(walks, n - 1) + (k - 1)
      BY <1>3, <2>3, <2>5, <2>6
    <3>2. visits[v - 1] = walks[n][k - 1]
      BY <1>6, <2>3, <3>1
    <3>3. visits[v - 1].toc = n
      BY <1>3, <2>3, <3>1, <3>2
    <3> QED BY <2>4, <2>6, <3>3
  <2>7. CASE k = 1
    <3>1. n # 1
      <4>1. ASSUME n = 1 PROVE FALSE
        <5>1. Upto(walks, n - 1) = 0
          BY <1>9, <4>1 DEF Counters
        <5> QED BY <2>3, <2>7, <5>1
      <4> QED BY <4>1
    <3>2. n - 1 \in 1 .. N /\ n - 2 \in 0 .. N /\ n - 1 - 1 = n - 2
      BY <1>2, <2>3, <3>1
    <3>3. Upto(walks, n - 1) = Upto(walks, n - 2) + Len(walks[n - 1]) /\ Upto(walks, n - 2) \in Nat
      BY <1>4, <1>9, <3>2 DEF Counters
    <3>4. Len(walks[n - 1]) \in Nat \ {0}
      BY <1>3, <3>2
    <3>5. Len(walks[n - 1]) \in 1 .. Len(walks[n - 1])
      BY <3>4
    <3>6. v - 1 = Upto(walks, n - 1 - 1) + Len(walks[n - 1])
      BY <2>3, <2>5, <2>7, <3>2, <3>3, <3>4
    <3>7. visits[v - 1] = walks[n - 1][Len(walks[n - 1])]
      BY <1>6, <3>2, <3>5, <3>6
    <3>8. visits[v - 1].toc = n - 1
      BY <1>3, <3>2, <3>5, <3>7
    <3>9. n - 1 + 1 = n
      BY <2>3
    <3> QED BY <2>4, <2>7, <3>8, <3>9
  <2> QED BY <2>6, <2>7
<1>16. RootsLead(visits)
  BY <1>14, <1>15 DEF RootsLead
<1>17. ASSUME NEW u \in 1 .. Len(visits), NEW v \in 1 .. Len(visits), visits[v].path # <<>>,
              visits[u] = [toc |-> visits[v].toc, path |-> Front(visits[v].path)]
       PROVE  u < v
  <2>1. PICK n, k : Falls(u, n, k)
    BY <1>5
  <2>2. PICK m, l : Falls(v, m, l)
    BY <1>5
  <2>3. n = m
    BY <1>8, <1>17, <2>1, <2>2
  <2>4. walks[n][l].path # <<>> /\ walks[n][k].path = Front(walks[n][l].path)
    BY <1>8, <1>17, <2>1, <2>2, <2>3
  <2>5. k < l
    BY <1>3, <1>7, <2>1, <2>2, <2>3, <2>4
  <2>6. n - 1 \in 0 .. N /\ Upto(walks, n - 1) \in Nat
    <3>1. n - 1 \in 0 .. N
      BY <1>2, <1>7, <2>1
    <3> QED BY <1>4, <1>9, <3>1 DEF Counters
  <2> QED BY <1>7, <2>1, <2>2, <2>3, <2>5, <2>6
<1>18. ParentsLead(visits)
  BY <1>17 DEF ParentsLead
<1> QED BY <1>13, <1>16, <1>18 DEF visits

(***************************************************************************)
(* The pool of strings.                                                    *)
(***************************************************************************)
UpTo(K, i) == {j \in K : j <= i}

LEMMA RetainedAt ==
  ASSUME NEW E, NEW table \in Seq(E), NEW K, K \subseteq 1 .. Len(table), NEW i \in K
  PROVE  /\ Cardinality(UpTo(K, i)) \in DOMAIN Retain(table, K)
         /\ Retain(table, K)[Cardinality(UpTo(K, i))] = table[i]
<1> DEFINE R == {p \in K \X K : p[1] < p[2]}
           Before(x) == {j \in K : <<j, x>> \in R}
           order == Enumerate(K, R)
           C == Cardinality(K)
           r == Cardinality(UpTo(K, i))
<1>1. Len(table) \in Nat /\ IsFiniteSet(K) /\ C \in Nat /\ K \subseteq Nat
  <2>1. Len(table) \in Nat
    OBVIOUS
  <2>2. IsFiniteSet(1 .. Len(table))
    BY <2>1, FS_Interval
  <2>3. IsFiniteSet(K)
    BY <2>2, FS_Subset
  <2> QED BY <2>1, <2>3, FS_CardinalityType
<1>2. \A x \in K : Before(x) = {j \in K : j < x}
  OBVIOUS
<1>3. ASSUME NEW x \in K
      PROVE  /\ IsFiniteSet(Before(x)) /\ Cardinality(Before(x)) \in Nat
             /\ IsFiniteSet(UpTo(K, x)) /\ Cardinality(UpTo(K, x)) = Cardinality(Before(x)) + 1
             /\ Cardinality(UpTo(K, x)) <= C
  <2>1. Before(x) \subseteq K /\ UpTo(K, x) \subseteq K
    BY DEF UpTo
  <2>2. UpTo(K, x) = Before(x) \cup {x} /\ x \notin Before(x)
    <3>1. \A j \in K : (j <= x <=> j < x \/ j = x) /\ ~ x < x
      BY <1>1
    <3>2. Before(x) = {j \in K : j < x}
      BY <1>2
    <3> HIDE DEF Before
    <3> QED BY <3>1, <3>2 DEF UpTo
  <2> HIDE DEF Before
  <2>3. IsFiniteSet(Before(x)) /\ IsFiniteSet(UpTo(K, x)) /\ Cardinality(UpTo(K, x)) <= C
    BY <1>1, <2>1, FS_Subset
  <2>4. Cardinality(Before(x)) \in Nat
    BY <2>3, FS_CardinalityType
  <2>5. Cardinality(Before(x) \cup {x}) = Cardinality(Before(x)) + 1
    BY <2>2, <2>3, FS_AddElement
  <2> QED BY <2>2, <2>3, <2>4, <2>5
<1>4. r \in 1 .. C /\ Cardinality(Before(i)) = r - 1
  <2> HIDE DEF Before
  <2> QED BY <1>1, <1>3
<1>5. ASSUME NEW x \in K, Cardinality(Before(x)) = r - 1
      PROVE  x = i
  <2>1. ASSUME NEW y \in K, NEW z \in K, y < z, Cardinality(Before(y)) = Cardinality(Before(z))
        PROVE  FALSE
    <3>1. Before(y) \subseteq Before(z) /\ y \in Before(z) /\ y \notin Before(y)
      <4>1. Before(y) = {j \in K : j < y} /\ Before(z) = {j \in K : j < z}
        BY <1>2
      <4>2. \A j \in K : (j < y => j < z) /\ ~ y < y
        BY <1>1, <2>1
      <4> HIDE DEF Before
      <4> QED BY <2>1, <4>1, <4>2
    <3> HIDE DEF Before
    <3>2. IsFiniteSet(Before(z))
      BY <1>3
    <3> QED BY <2>1, <3>1, <3>2, FS_Subset
  <2> HIDE DEF Before
  <2>2. ~ x < i /\ ~ i < x
    BY <1>4, <1>5, <2>1
  <2> QED BY <1>1, <2>2
<1>6. order[r] = i
  <2>1. order[r] = CHOOSE x \in K : Cardinality(Before(x)) = r - 1
    BY <1>4 DEF Enumerate
  <2> HIDE DEF Before, order, r
  <2> QED BY <1>4, <1>5, <2>1
<1>7. Retain(table, K) = [k \in 1 .. C |-> table[order[k]]]
  BY DEF Retain
<1> HIDE DEF order, r
<1>8. r \in DOMAIN Retain(table, K) /\ Retain(table, K)[r] = table[i]
  BY <1>4, <1>6, <1>7
<1> QED BY <1>8 DEF r

Strs == [toc : Nat, path : Seq(Names), file : Seq(Names)]

PoolOf(lay, said) == Retain(said, Emitted(lay, said))

LEMMA KeptString ==
  ASSUME NEW lay \in Layouts, NEW said \in Seq(Strs), NEW key, NEW at \in 1 .. Len(said), said[at] = key
  PROVE  /\ NameOffset(lay, said, key) \in DOMAIN PoolOf(lay, said)
         /\ Text(PoolOf(lay, said)[NameOffset(lay, said, key)]) = Text(key)
<1> DEFINE E == Emitted(lay, said)
           n == Len(said)
           A == {j \in DOMAIN said : said[j] = key}
           B == {j \in DOMAIN said : Text(said[j]) = Text(key)}
           i == IF lay = "Legacy" THEN Max(A) ELSE Min(B)
<1>1. n \in Nat /\ DOMAIN said = 1 .. n
  OBVIOUS
<1>2. A \subseteq 0 .. n /\ at \in A /\ B \subseteq Nat /\ at \in B
  BY <1>1
<1>3. i \in DOMAIN said /\ Text(said[i]) = Text(key) /\ i \in E
  <2>1. CASE lay = "Legacy"
    <3>1. Max(A) \in A
      <4> HIDE DEF A, n
      <4> QED BY <1>1, <1>2, MaxFound
    <3>2. E = DOMAIN said
      BY <2>1 DEF Emitted
    <3> QED BY <2>1, <3>1, <3>2
  <2>2. CASE lay # "Legacy"
    <3>1. Min(B) \in B
      <4> HIDE DEF B
      <4> QED BY <1>2, MinFound
    <3>2. \A j \in B : Min(B) <= j
      <4>1. \E m \in B : \A j \in B : m <= j
        <5> HIDE DEF B
        <5> QED BY <1>2, LeastNatural
      <4> HIDE DEF B
      <4> QED BY <4>1 DEF Min
    <3>3. \A j \in 1 .. i - 1 : Text(said[j]) # Text(said[i])
      <4> SUFFICES ASSUME NEW j \in 1 .. i - 1 PROVE Text(said[j]) # Text(said[i])
        OBVIOUS
      <4>1. i = Min(B) /\ i \in 1 .. n /\ Text(said[i]) = Text(key)
        BY <1>1, <2>2, <3>1
      <4>2. j \in DOMAIN said /\ ~ i <= j
        <5> HIDE DEF i, n
        <5> QED BY <1>1, <4>1
      <4>3. j \notin B
        <5> HIDE DEF B, i
        <5> QED BY <3>2, <4>1, <4>2
      <4> HIDE DEF i
      <4> QED BY <4>1, <4>2, <4>3
    <3> QED BY <2>2, <3>1, <3>3 DEF Emitted
  <2> QED BY <2>1, <2>2
<1>4. NameOffset(lay, said, key) = Cardinality(UpTo(E, i))
  BY DEF NameOffset, UpTo
<1>5. E \subseteq 1 .. Len(said)
  BY <1>1 DEF Emitted
<1> HIDE DEF E, i
<1>6. /\ Cardinality(UpTo(E, i)) \in DOMAIN Retain(said, E)
      /\ Retain(said, E)[Cardinality(UpTo(E, i))] = said[i]
  BY <1>3, <1>5, RetainedAt
<1> QED BY <1>3, <1>4, <1>6 DEF PoolOf, E

LEMMA Behind ==
  ASSUME NEW S, NEW a \in Seq(S), NEW b \in Seq(S), NEW k \in 1 .. Len(b)
  PROVE  (a \o b)[Len(a) + k] = b[k]
<1>1. Len(a) \in Nat /\ Len(b) \in Nat
  BY LenProperties
<1>2. \A j \in 1 .. Len(a) + Len(b) : (a \o b)[j] = IF j <= Len(a) THEN a[j] ELSE b[j - Len(a)]
  BY ConcatProperties
<1>3. Len(a) + k \in 1 .. Len(a) + Len(b) /\ ~ Len(a) + k <= Len(a) /\ Len(a) + k - Len(a) = k
  BY <1>1
<1> QED BY <1>2, <1>3

LEMMA Ahead ==
  ASSUME NEW S, NEW a \in Seq(S), NEW b \in Seq(S), NEW k \in 1 .. Len(a)
  PROVE  (a \o b)[k] = a[k]
<1>1. Len(a) \in Nat /\ Len(b) \in Nat
  BY LenProperties
<1>2. \A j \in 1 .. Len(a) + Len(b) : (a \o b)[j] = IF j <= Len(a) THEN a[j] ELSE b[j - Len(a)]
  BY ConcatProperties
<1>3. k \in 1 .. Len(a) + Len(b) /\ k <= Len(a)
  BY <1>1
<1> QED BY <1>2, <1>3

LEMMA VisitParts ==
  ASSUME NEW ts, IsArchive(ts), NEW visit \in VisitsOf(ts)
  PROVE  /\ visit.toc \in 1 .. Len(ts) /\ visit.toc \in DOMAIN ts /\ visit.path \in DOMAIN ts[visit.toc].tree
         /\ visit = [toc |-> visit.toc, path |-> visit.path]
         /\ visit.toc \in Nat /\ visit.path \in Seq(Names)
         /\ FolderAt(ts, visit).folders \in Seq(ChildEntries)
         /\ FolderAt(ts, visit).files \in Seq(Files)
<1>1. PICK i \in DOMAIN ts : \E p \in DOMAIN ts[i].tree : visit = [toc |-> i, path |-> p]
  BY VisitIn
<1>2. PICK p \in DOMAIN ts[i].tree : visit = [toc |-> i, path |-> p]
  BY <1>1
<1>3. Len(ts) \in Nat /\ DOMAIN ts = 1 .. Len(ts) /\ IsTree(ts[i].tree)
  BY ArchiveParts
<1>4. p \in Seq(Names) /\ ts[i].tree[p].folders \in Seq(ChildEntries) /\ ts[i].tree[p].files \in Seq(Files)
  BY <1>3, FolderParts
<1>5. visit.toc = i /\ visit.path = p
  BY <1>2
<1> QED BY <1>1, <1>2, <1>3, <1>4, <1>5 DEF FolderAt

LEMMA RootVisited ==
  ASSUME NEW ts, IsArchive(ts), NEW i \in 1 .. Len(ts)
  PROVE  [toc |-> i, path |-> <<>>] \in VisitsOf(ts)
<1>1. i \in DOMAIN ts /\ <<>> \in DOMAIN ts[i].tree
  BY ArchiveParts DEF IsTree
<1> QED BY <1>1, VisitIn

LEMMA ChildVisited ==
  ASSUME NEW ts, IsArchive(ts), NEW visit \in VisitsOf(ts), NEW k \in DOMAIN FolderAt(ts, visit).folders
  PROVE  /\ Child(visit, ts, k) \in VisitsOf(ts)
         /\ Child(visit, ts, k).toc = visit.toc
         /\ Child(visit, ts, k).path # <<>>
         /\ Front(Child(visit, ts, k).path) = visit.path
         /\ Last(Child(visit, ts, k).path) = FolderAt(ts, visit).folders[k].name
<1> DEFINE i == visit.toc
           p == visit.path
           name == FolderAt(ts, visit).folders[k].name
           q == Append(p, name)
<1>1. i \in DOMAIN ts /\ p \in DOMAIN ts[i].tree /\ p \in Seq(Names) /\ FolderAt(ts, visit).folders \in Seq(ChildEntries)
      /\ i \in 1 .. Len(ts)
  BY VisitParts
<1>2. FolderAt(ts, visit) = ts[i].tree[p]
  BY DEF FolderAt
<1>3. IsTree(ts[i].tree)
  BY <1>1, ArchiveParts
<1>4. q \in DOMAIN ts[i].tree
  BY <1>1, <1>2, <1>3 DEF IsTree
<1>5. name \in Names
  <2>1. FolderAt(ts, visit).folders[k] \in ChildEntries
    <3> DEFINE f == FolderAt(ts, visit).folders
    <3>1. f \in Seq(ChildEntries) /\ k \in DOMAIN f
      BY <1>1
    <3> HIDE DEF f
    <3>2. f[k] \in ChildEntries
      BY <3>1
    <3> QED BY <3>2 DEF f
  <2> QED BY <2>1 DEF ChildEntries
<1>6. q # <<>> /\ Front(q) = p /\ Last(q) = name
  <2> HIDE DEF p, name
  <2>1. q # <<>> /\ Last(q) = name
    BY <1>1, <1>5 DEF Last
  <2>2. Front(q) = p
    BY <1>1, <1>5, FrontOfAppend
  <2> QED BY <2>1, <2>2
<1>7. Child(visit, ts, k) = [toc |-> i, path |-> q]
  BY DEF Child
<1>8. Child(visit, ts, k).toc = i /\ Child(visit, ts, k).path = q
  BY <1>7
<1>9. Child(visit, ts, k) \in VisitsOf(ts)
  BY <1>1, <1>4, <1>7, VisitIn
<1> QED BY <1>6, <1>8, <1>9

\* A folder that is not a root is listed by its parent.
LEMMA ListedByParent ==
  ASSUME NEW ts, IsArchive(ts), NEW visit \in VisitsOf(ts), visit.path # <<>>
  PROVE  \E parent \in VisitsOf(ts) :
           /\ parent = [toc |-> visit.toc, path |-> Front(visit.path)]
           /\ \E k \in DOMAIN FolderAt(ts, parent).folders : Child(parent, ts, k) = visit
<1> DEFINE i == visit.toc
           p == visit.path
           t == ts[i].tree
           parent == [toc |-> i, path |-> Front(p)]
<1>1. i \in DOMAIN ts /\ i \in 1 .. Len(ts) /\ p \in DOMAIN t /\ p \in Seq(Names) /\ visit = [toc |-> i, path |-> p]
  BY VisitParts
<1>2. IsTree(t)
  BY <1>1, ArchiveParts
<1>3. Front(p) \in DOMAIN t /\ \E k \in DOMAIN t[Front(p)].folders : t[Front(p)].folders[k].name = Last(p)
  BY <1>1, <1>2 DEF IsTree
<1>4. PICK k \in DOMAIN t[Front(p)].folders : t[Front(p)].folders[k].name = Last(p)
  BY <1>3
<1>5. Append(Front(p), Last(p)) = p
  BY <1>1, FrontAndLast
<1>6. parent \in VisitsOf(ts)
  BY <1>1, <1>3, VisitIn
<1>7. FolderAt(ts, parent) = t[Front(p)]
  BY DEF FolderAt
<1>8. Child(parent, ts, k) = visit
  BY <1>1, <1>4, <1>5, <1>7 DEF Child
<1> QED BY <1>4, <1>6, <1>7, <1>8

LEMMA ChildrenAre ==
  ASSUME NEW ts, IsArchive(ts), NEW visit \in VisitsOf(ts)
  PROVE  /\ Children(visit, ts) \in Seq(VisitsOf(ts))
         /\ Len(Children(visit, ts)) = Len(FolderAt(ts, visit).folders)
         /\ \A k \in 1 .. Len(Children(visit, ts)) : Children(visit, ts)[k] = Child(visit, ts, k)
<1> DEFINE f == FolderAt(ts, visit).folders
           V == VisitsOf(ts)
           c == [k \in 1 .. Len(f) |-> Child(visit, ts, k)]
<1>1. f \in Seq(ChildEntries)
  BY VisitParts
<1>2. DOMAIN f = 1 .. Len(f) /\ Len(f) \in Nat
  <2> HIDE DEF f
  <2> QED BY <1>1
<1>3. Children(visit, ts) = c
  BY <1>2 DEF Children
<1>4. \A k \in 1 .. Len(f) : Child(visit, ts, k) \in V
  BY <1>2, ChildVisited
<1> HIDE DEF f, V
<1>5. c \in Seq(V) /\ Len(c) = Len(f)
  BY <1>2, <1>4
<1> QED BY <1>3, <1>5 DEF f, V

SlotsIn(ts) == [toc : Nat, path : Seq(Names), file : Nat]

LEMMA FolderSlotsAre ==
  ASSUME NEW ts, IsArchive(ts), NEW visit \in VisitsOf(ts)
  PROVE  /\ FolderSlots(visit, ts) \in Seq(SlotsIn(ts))
         /\ Len(FolderSlots(visit, ts)) = Len(FolderAt(ts, visit).files)
         /\ \A k \in 1 .. Len(FolderAt(ts, visit).files) :
              FolderSlots(visit, ts)[k] = [toc |-> visit.toc, path |-> visit.path, file |-> k]
<1> DEFINE f == FolderAt(ts, visit).files
           n == Len(f)
           V == SlotsIn(ts)
           c == [k \in 1 .. n |-> [toc |-> visit.toc, path |-> visit.path, file |-> k]]
<1>1. f \in Seq(Files) /\ visit.toc \in Nat /\ visit.path \in Seq(Names)
  BY VisitParts
<1>2. DOMAIN f = 1 .. n /\ n \in Nat
  <2> HIDE DEF f
  <2> QED BY <1>1
<1>3. FolderSlots(visit, ts) = c
  BY <1>2 DEF FolderSlots
<1>4. \A k \in 1 .. n : [toc |-> visit.toc, path |-> visit.path, file |-> k] \in V
  BY <1>1 DEF SlotsIn
<1> HIDE DEF n, V
<1>5. c \in Seq(V) /\ Len(c) = n
  BY <1>2, <1>4
<1> QED BY <1>3, <1>5 DEF n, V

ListedParts(ts, visit) ==
  LET r == IF visit.path = <<>> THEN 1 ELSE 0
  IN  /\ Listed(visit, ts) \in Seq(VisitsOf(ts))
      /\ Len(Listed(visit, ts)) = r + Len(Children(visit, ts))
      /\ r = 1 => Listed(visit, ts)[1] = visit
      /\ \A k \in 1 .. Len(Children(visit, ts)) : Listed(visit, ts)[r + k] = Child(visit, ts, k)

LEMMA ListedAre ==
  ASSUME NEW ts, IsArchive(ts), NEW visit \in VisitsOf(ts)
  PROVE  ListedParts(ts, visit)
<1> DEFINE a == IF visit.path = <<>> THEN <<visit>> ELSE <<>>
           b == Children(visit, ts)
           V == VisitsOf(ts)
           r == IF visit.path = <<>> THEN 1 ELSE 0
<1>1. b \in Seq(V) /\ \A k \in 1 .. Len(b) : b[k] = Child(visit, ts, k)
  BY ChildrenAre
<1>2. a \in Seq(V) /\ Len(a) = r /\ (r = 1 => a[1] = visit) /\ r \in {0, 1}
  <2> HIDE DEF V
  <2>1. visit \in V
    BY DEF V
  <2> QED BY <2>1
<1>3. Listed(visit, ts) = a \o b
  BY DEF Listed
<1> HIDE DEF a, b, V, r
<1>4. a \o b \in Seq(V) /\ Len(a \o b) = r + Len(b) /\ Len(b) \in Nat
  BY <1>1, <1>2, ConcatProperties, LenProperties
<1>5. \A i \in 1 .. r + Len(b) : (a \o b)[i] = IF i <= r THEN a[i] ELSE b[i - r]
  BY <1>1, <1>2, ConcatProperties
<1>6. r = 1 => (a \o b)[1] = visit
  BY <1>2, <1>4, <1>5
<1>7. \A k \in 1 .. Len(b) : (a \o b)[r + k] = b[k]
  <2>1. \A k \in 1 .. Len(b) : (a \o b)[Len(a) + k] = b[k]
    BY <1>1, <1>2, Behind
  <2> QED BY <1>2, <2>1
<1> QED BY <1>1, <1>3, <1>4, <1>6, <1>7 DEF ListedParts, b, V, r

Saids(lay, ts) == [v \in DOMAIN Visits(lay, ts) |-> SaidAt(lay, ts, Visits(lay, ts)[v])]

\* A visit says its own path, where no parent has said it, the names of its
\* files and, in the modern layout, the paths of its children.
SaysOwn(lay, visit) == lay = "Legacy" \/ visit.path = <<>>

SaidOf(lay, ts, visit, s) ==
  \/ SaysOwn(lay, visit) /\ s = FolderString(visit)
  \/ \E k \in DOMAIN FolderAt(ts, visit).files : s = FileString(visit, FolderAt(ts, visit).files[k].name)
  \/ lay # "Legacy" /\ \E k \in DOMAIN FolderAt(ts, visit).folders : s = FolderString(Child(visit, ts, k))

LEMMA SaidAtAre ==
  ASSUME NEW ts, IsArchive(ts), NEW visit \in VisitsOf(ts), NEW lay
  PROVE  /\ SaidAt(lay, ts, visit) \in Seq(Strs)
         /\ SaysOwn(lay, visit) =>
              1 \in 1 .. Len(SaidAt(lay, ts, visit)) /\ SaidAt(lay, ts, visit)[1] = FolderString(visit)
         /\ \A j \in 1 .. Len(SaidAt(lay, ts, visit)) : SaidOf(lay, ts, visit, SaidAt(lay, ts, visit)[j])
         /\ \A k \in DOMAIN FolderAt(ts, visit).files :
              \E j \in 1 .. Len(SaidAt(lay, ts, visit)) :
                SaidAt(lay, ts, visit)[j] = FileString(visit, FolderAt(ts, visit).files[k].name)
         /\ lay # "Legacy" => \A k \in DOMAIN FolderAt(ts, visit).folders :
              \E j \in 1 .. Len(SaidAt(lay, ts, visit)) :
                SaidAt(lay, ts, visit)[j] = FolderString(Child(visit, ts, k))
<1> DEFINE a == IF lay = "Legacy" \/ visit.path = <<>> THEN <<FolderString(visit)>> ELSE <<>>
           f == FolderAt(ts, visit).files
           b == [k \in DOMAIN f |-> FileString(visit, f[k].name)]
           ch == Children(visit, ts)
           c == IF lay = "Legacy" THEN <<>> ELSE [k \in DOMAIN ch |-> FolderString(ch[k])]
<1>1. SaidAt(lay, ts, visit) = (a \o b) \o c
  BY DEF SaidAt
<1>2. \A v \in VisitsOf(ts) : FolderString(v) \in Strs
  <2> SUFFICES ASSUME NEW v \in VisitsOf(ts) PROVE FolderString(v) \in Strs
    OBVIOUS
  <2>1. v.toc \in Nat /\ v.path \in Seq(Names) /\ <<>> \in Seq(Names)
    BY VisitParts
  <2> QED BY <2>1 DEF Strs, FolderString
<1>3. /\ a \in Seq(Strs)
      /\ \/ Len(a) = 0
         \/ Len(a) = 1 /\ SaysOwn(lay, visit)
      /\ SaysOwn(lay, visit) => Len(a) = 1 /\ a[1] = FolderString(visit)
  <2>1. FolderString(visit) \in Strs
    BY <1>2
  <2> QED BY <2>1 DEF SaysOwn
<1>4. f \in Seq(Files) /\ DOMAIN f = 1 .. Len(f) /\ Len(f) \in Nat
  <2>1. f \in Seq(Files)
    BY VisitParts
  <2> HIDE DEF f
  <2> QED BY <2>1
<1>5. b \in Seq(Strs) /\ DOMAIN b = DOMAIN f /\ Len(b) = Len(f) /\ \A k \in DOMAIN f : b[k] = FileString(visit, f[k].name)
  <2>1. ASSUME NEW k \in 1 .. Len(f)
        PROVE  FileString(visit, f[k].name) \in Strs
    <3>1. f[k] \in Files
      <4> HIDE DEF f
      <4> QED BY <1>4
    <3>2. f[k].name \in Names
      BY <3>1 DEF Files
    <3>3. visit.toc \in Nat /\ visit.path \in Seq(Names)
      BY VisitParts
    <3> HIDE DEF f
    <3>4. <<f[k].name>> \in Seq(Names)
      BY <3>2
    <3> QED BY <3>3, <3>4 DEF Strs, FileString
  <2> DEFINE n == Len(f)
             x == [k \in 1 .. n |-> FileString(visit, f[k].name)]
  <2>2. b = x
    BY <1>4
  <2>3. \A k \in 1 .. n : x[k] \in Strs
    BY <2>1
  <2>4. x = [k \in 1 .. n |-> x[k]] /\ n \in Nat
    BY <1>4
  <2>5. x \in Seq(Strs) /\ Len(x) = n
    <3> HIDE DEF x, n
    <3> QED BY <2>3, <2>4
  <2> QED BY <1>4, <2>2, <2>5
<1>6. ch \in Seq(VisitsOf(ts)) /\ DOMAIN ch = 1 .. Len(ch) /\ Len(ch) \in Nat
      /\ DOMAIN ch = DOMAIN FolderAt(ts, visit).folders
      /\ \A k \in DOMAIN ch : ch[k] = Child(visit, ts, k) /\ ch[k] \in VisitsOf(ts)
  <2>1. /\ ch \in Seq(VisitsOf(ts)) /\ Len(ch) = Len(FolderAt(ts, visit).folders)
        /\ \A k \in 1 .. Len(ch) : ch[k] = Child(visit, ts, k)
    BY ChildrenAre
  <2>2. FolderAt(ts, visit).folders \in Seq(ChildEntries)
    BY VisitParts
  <2> DEFINE g == FolderAt(ts, visit).folders
             V == VisitsOf(ts)
  <2>3. ch \in Seq(V) /\ g \in Seq(ChildEntries) /\ Len(ch) = Len(g)
    BY <2>1, <2>2
  <2>4. DOMAIN ch = 1 .. Len(ch) /\ Len(ch) \in Nat /\ DOMAIN ch = DOMAIN g /\ \A k \in DOMAIN ch : ch[k] \in V
    <3> HIDE DEF ch, g, V
    <3> QED BY <2>3
  <2> HIDE DEF ch
  <2> QED BY <2>1, <2>3, <2>4
<1>7. c \in Seq(Strs) /\ IF lay = "Legacy" THEN Len(c) = 0
                         ELSE DOMAIN ch = 1 .. Len(c) /\ \A k \in DOMAIN ch : c[k] = FolderString(ch[k])
  <2>1. CASE lay = "Legacy"
    BY <2>1
  <2>2. CASE lay # "Legacy"
    <3> DEFINE n == Len(ch)
               x == [k \in 1 .. n |-> FolderString(ch[k])]
    <3>1. c = x
      BY <1>6, <2>2
    <3>2. \A k \in 1 .. n : x[k] \in Strs
      <4> HIDE DEF ch
      <4> QED BY <1>2, <1>6
    <3>3. x = [k \in 1 .. n |-> x[k]] /\ n \in Nat
      BY <1>6
    <3>4. x \in Seq(Strs) /\ Len(x) = n
      <4> HIDE DEF x, n
      <4> QED BY <3>2, <3>3
    <3> QED BY <1>6, <2>2, <3>1, <3>4
  <2> QED BY <2>1, <2>2
<1> HIDE DEF a, b, c
<1>8. a \o b \in Seq(Strs) /\ (a \o b) \o c \in Seq(Strs) /\ Len(a) \in Nat /\ Len(b) \in Nat /\ Len(c) \in Nat
      /\ Len(a \o b) = Len(a) + Len(b) /\ Len((a \o b) \o c) = Len(a \o b) + Len(c)
  <2>1. Len(a) \in Nat /\ Len(b) \in Nat /\ Len(c) \in Nat
    BY <1>3, <1>5, <1>7, LenProperties
  <2>2. a \o b \in Seq(Strs) /\ Len(a \o b) = Len(a) + Len(b)
    BY <1>3, <1>5, ConcatProperties
  <2>3. (a \o b) \o c \in Seq(Strs) /\ Len((a \o b) \o c) = Len(a \o b) + Len(c)
    BY <1>7, <2>2, ConcatProperties
  <2> QED BY <2>1, <2>2, <2>3
<1>9. \A j \in 1 .. Len(c) : ((a \o b) \o c)[Len(a \o b) + j] = c[j]
  BY <1>7, <1>8, Behind
<1>10. \A j \in 1 .. Len(b) : (a \o b)[Len(a) + j] = b[j]
  BY <1>3, <1>5, Behind
<1>11. \A j \in 1 .. Len(a \o b) : ((a \o b) \o c)[j] = (a \o b)[j]
  BY <1>7, <1>8, Ahead
<1>12. \A j \in 1 .. Len(a) : (a \o b)[j] = a[j]
  BY <1>3, <1>5, Ahead
<1> DEFINE s == (a \o b) \o c
<1>13. ASSUME SaysOwn(lay, visit)
       PROVE  1 \in 1 .. Len(s) /\ s[1] = FolderString(visit)
  <2>1. 1 \in 1 .. Len(a) /\ 1 \in 1 .. Len(a \o b) /\ 1 \in 1 .. Len(s)
    BY <1>3, <1>8, <1>13
  <2>2. s[1] = FolderString(visit)
    BY <1>3, <1>11, <1>12, <1>13, <2>1
  <2> QED BY <2>1, <2>2
<1>14. ASSUME NEW k \in DOMAIN f
       PROVE  \E j \in 1 .. Len(s) : s[j] = FileString(visit, f[k].name)
  <2>1. k \in 1 .. Len(b)
    <3> HIDE DEF f
    <3> QED BY <1>4, <1>5
  <2>2. Len(a) + k \in 1 .. Len(a \o b) /\ Len(a) + k \in 1 .. Len(s)
    BY <1>8, <2>1
  <2>3. s[Len(a) + k] = b[k]
    BY <1>10, <1>11, <2>1, <2>2
  <2>4. b[k] = FileString(visit, f[k].name)
    <3> HIDE DEF f
    <3> QED BY <1>5
  <2> QED BY <2>2, <2>3, <2>4
<1>15. ASSUME lay # "Legacy", NEW k \in DOMAIN FolderAt(ts, visit).folders
       PROVE  \E j \in 1 .. Len(s) : s[j] = FolderString(Child(visit, ts, k))
  <2>1. k \in DOMAIN ch
    BY <1>6
  <2>2. k \in 1 .. Len(c) /\ c[k] = FolderString(ch[k]) /\ ch[k] = Child(visit, ts, k)
    <3> HIDE DEF ch
    <3> QED BY <1>6, <1>7, <1>15, <2>1
  <2>3. Len(a \o b) + k \in 1 .. Len(s)
    BY <1>8, <2>2
  <2> QED BY <1>9, <2>2, <2>3
<1>16. /\ s \in Seq(Strs) /\ Len(s) = Len(a) + Len(b) + Len(c) /\ Len(a \o b) = Len(a) + Len(b)
       /\ \A j \in 1 .. Len(b) : s[Len(a) + j] = b[j]
       /\ \A j \in 1 .. Len(c) : s[Len(a) + Len(b) + j] = c[j]
  <2>1. s \in Seq(Strs) /\ Len(s) = Len(a) + Len(b) + Len(c) /\ Len(a \o b) = Len(a) + Len(b)
    BY <1>8
  <2>2. \A j \in 1 .. Len(c) : s[Len(a) + Len(b) + j] = c[j]
    BY <1>9, <2>1
  <2>3. ASSUME NEW j \in 1 .. Len(b) PROVE s[Len(a) + j] = b[j]
    <3>1. Len(a) + j \in 1 .. Len(a \o b)
      BY <1>8
    <3> QED BY <1>10, <1>11, <3>1
  <2> QED BY <2>1, <2>2, <2>3
<1> HIDE DEF s
<1>17. ASSUME NEW j \in 1 .. Len(s)
       PROVE  SaidOf(lay, ts, visit, s[j])
  <2>1. CASE j \in 1 .. Len(a)
    <3>1. SaysOwn(lay, visit)
      BY <1>3, <2>1
    <3>2. Len(a) = 1
      BY <1>3, <3>1
    <3>3. j \in 1 .. 1
      BY <2>1, <3>2
    <3>4. j = 1
      BY <3>3
    <3>5. s[1] = FolderString(visit)
      BY <1>13, <3>1
    <3>6. s[j] = FolderString(visit)
      BY <3>4, <3>5
    <3> QED BY <3>1, <3>6 DEF SaidOf
  <2>2. CASE j \in Len(a) + 1 .. Len(a) + Len(b)
    <3> DEFINE k == j - Len(a)
    <3>1. k \in 1 .. Len(b) /\ j = Len(a) + k
      BY <1>8, <2>2
    <3> HIDE DEF k
    <3>2. s[j] = b[k]
      BY <1>16, <3>1
    <3>3. k \in DOMAIN f
      <4> HIDE DEF f
      <4> QED BY <1>4, <1>5, <3>1
    <3>4. b[k] = FileString(visit, f[k].name)
      <4> HIDE DEF f
      <4> QED BY <1>5, <3>3
    <3> QED BY <3>2, <3>3, <3>4 DEF SaidOf
  <2>3. CASE j \in Len(a) + Len(b) + 1 .. Len(a) + Len(b) + Len(c)
    <3> DEFINE k == j - (Len(a) + Len(b))
    <3>1. k \in 1 .. Len(c) /\ j = Len(a) + Len(b) + k
      BY <1>8, <2>3
    <3> HIDE DEF k
    <3>2. s[j] = c[k]
      BY <1>16, <3>1
    <3>3. lay # "Legacy" /\ k \in DOMAIN ch /\ c[k] = FolderString(ch[k])
      <4>1. lay # "Legacy"
        BY <1>7, <3>1
      <4> HIDE DEF ch
      <4> QED BY <1>7, <3>1, <4>1
    <3>4. k \in DOMAIN FolderAt(ts, visit).folders /\ ch[k] = Child(visit, ts, k)
      <4> HIDE DEF ch
      <4> QED BY <1>6, <3>3
    <3>5. s[j] = FolderString(Child(visit, ts, k))
      BY <3>2, <3>3, <3>4
    <3> QED BY <3>3, <3>4, <3>5 DEF SaidOf
  <2>4. Len(a) \in Nat /\ Len(b) \in Nat /\ Len(c) \in Nat /\ j \in 1 .. Len(a) + Len(b) + Len(c)
    BY <1>8, <1>16
  <2>5. \/ j \in 1 .. Len(a)
        \/ j \in Len(a) + 1 .. Len(a) + Len(b)
        \/ j \in Len(a) + Len(b) + 1 .. Len(a) + Len(b) + Len(c)
    BY <2>4
  <2> QED BY <2>1, <2>2, <2>3, <2>5
<1>18. SaidAt(lay, ts, visit) = s
  BY <1>1 DEF s
<1> QED BY <1>13, <1>14, <1>15, <1>16, <1>17, <1>18 DEF f

\* Every key a table asks for was said.
SaysAll(lay, ts) ==
  /\ Said(lay, ts) \in Seq(Strs)
  /\ \A visit \in VisitsOf(ts) : \E j \in 1 .. Len(Said(lay, ts)) : Said(lay, ts)[j] = FolderString(visit)
  /\ \A visit \in VisitsOf(ts) : \A k \in DOMAIN FolderAt(ts, visit).files :
       \E j \in 1 .. Len(Said(lay, ts)) : Said(lay, ts)[j] = FileString(visit, FolderAt(ts, visit).files[k].name)

LEMMA AllIsSaid ==
  ASSUME NEW ts, WholeArchive(ts), NEW lay
  PROVE  SaysAll(lay, ts)
<1> DEFINE visits == Visits(lay, ts)
           saids == Saids(lay, ts)
           said == Said(lay, ts)
           V == VisitsOf(ts)
           N == Len(visits)
<1>0. IsArchive(ts)
  BY DEF WholeArchive
<1>1. /\ visits \in Seq(V) /\ N \in Nat
      /\ \A visit \in V : \E v \in 1 .. N : visits[v] = visit
  BY VisitsAre DEF Visited
<1>2. said = FlattenSeq(saids)
  BY DEF Said, Saids
<1>3. DOMAIN visits = 1 .. N /\ \A v \in 1 .. N : visits[v] \in V
  <2> HIDE DEF visits, V
  <2> QED BY <1>1
<1>4. saids \in Seq(Seq(Strs)) /\ Len(saids) = N /\ \A v \in 1 .. N : saids[v] = SaidAt(lay, ts, visits[v])
  <2> DEFINE x == [v \in 1 .. N |-> SaidAt(lay, ts, visits[v])]
  <2>1. saids = x
    BY <1>3 DEF Saids
  <2>2. \A v \in 1 .. N : x[v] \in Seq(Strs)
    BY <1>0, <1>3, SaidAtAre
  <2>3. x = [v \in 1 .. N |-> x[v]]
    OBVIOUS
  <2>4. x \in Seq(Seq(Strs)) /\ Len(x) = N
    <3> HIDE DEF x, N
    <3>1. x \in [1 .. N -> Seq(Strs)]
      BY <2>2, <2>3
    <3> QED BY <1>1, <3>1
  <2> QED BY <2>1, <2>4
<1>5. said \in Seq(Strs)
  BY <1>2, <1>4, FlatTyped
<1>6. ASSUME NEW v \in 1 .. N, NEW key, \E j \in 1 .. Len(SaidAt(lay, ts, visits[v])) : SaidAt(lay, ts, visits[v])[j] = key
      PROVE  \E j \in 1 .. Len(said) : said[j] = key
  <2>1. PICK j \in 1 .. Len(saids[v]) : saids[v][j] = key
    BY <1>4, <1>6
  <2> HIDE DEF saids, said, N
  <2>2. InFlat(saids, v, j)
    BY <1>4, FlatHolds
  <2>3. DOMAIN said = 1 .. Len(said)
    BY <1>5
  <2> QED BY <1>2, <2>1, <2>2, <2>3 DEF InFlat
<1>7. ASSUME NEW visit \in V
      PROVE  \E j \in 1 .. Len(said) : said[j] = FolderString(visit)
  <2>1. CASE lay = "Legacy" \/ visit.path = <<>>
    <3>1. PICK v \in 1 .. N : visits[v] = visit
      BY <1>1
    <3>2. \E j \in 1 .. Len(SaidAt(lay, ts, visit)) : SaidAt(lay, ts, visit)[j] = FolderString(visit)
      BY <1>0, <2>1, SaidAtAre DEF SaysOwn
    <3> HIDE DEF visits, said, N
    <3> QED BY <1>6, <3>1, <3>2
  <2>2. CASE lay # "Legacy" /\ visit.path # <<>>
    <3>1. PICK parent \in V : \E k \in DOMAIN FolderAt(ts, parent).folders : Child(parent, ts, k) = visit
      BY <1>0, <2>2, ListedByParent
    <3>2. PICK k \in DOMAIN FolderAt(ts, parent).folders : Child(parent, ts, k) = visit
      BY <3>1
    <3>3. PICK v \in 1 .. N : visits[v] = parent
      BY <1>1
    <3>4. \E j \in 1 .. Len(SaidAt(lay, ts, parent)) : SaidAt(lay, ts, parent)[j] = FolderString(visit)
      BY <1>0, <2>2, <3>2, SaidAtAre
    <3> HIDE DEF visits, said, N
    <3> QED BY <1>6, <3>3, <3>4
  <2> QED BY <2>1, <2>2
<1>8. ASSUME NEW visit \in V, NEW k \in DOMAIN FolderAt(ts, visit).files
      PROVE  \E j \in 1 .. Len(said) : said[j] = FileString(visit, FolderAt(ts, visit).files[k].name)
  <2>1. PICK v \in 1 .. N : visits[v] = visit
    BY <1>1
  <2> DEFINE key == FileString(visit, FolderAt(ts, visit).files[k].name)
  <2>2. \E j \in 1 .. Len(SaidAt(lay, ts, visit)) : SaidAt(lay, ts, visit)[j] = key
    BY <1>0, SaidAtAre
  <2>3. \E j \in 1 .. Len(said) : said[j] = key
    <3> HIDE DEF visits, said, N, key
    <3> QED BY <1>6, <2>1, <2>2
  <2> QED BY <2>3
<1> HIDE DEF said, V
<1> QED BY <1>5, <1>7, <1>8 DEF SaysAll, said, V

(***************************************************************************)
(* The folder table: the children of a visit are where the counter says.   *)
(***************************************************************************)
ListedOf(visits, ts) == [v \in DOMAIN visits |-> Listed(visits[v], ts)]
ChildrenOf(visits, ts) == [v \in DOMAIN visits |-> Children(visits[v], ts)]
SlotsOfVisits(visits, ts) == [v \in DOMAIN visits |-> FolderSlots(visits[v], ts)]

TablesTyped(visits, ts) ==
  /\ DOMAIN visits = 1 .. Len(visits)
  /\ \A v \in 1 .. Len(visits) : visits[v] \in VisitsOf(ts)
  /\ ListedOf(visits, ts) \in Seq(Seq(VisitsOf(ts))) /\ Len(ListedOf(visits, ts)) = Len(visits)
  /\ ChildrenOf(visits, ts) \in Seq(Seq(VisitsOf(ts))) /\ Len(ChildrenOf(visits, ts)) = Len(visits)
  /\ SlotsOfVisits(visits, ts) \in Seq(Seq(SlotsIn(ts))) /\ Len(SlotsOfVisits(visits, ts)) = Len(visits)

LEMMA TablesAre ==
  ASSUME NEW ts, IsArchive(ts), NEW visits \in Seq(VisitsOf(ts))
  PROVE  TablesTyped(visits, ts)
<1> DEFINE V == VisitsOf(ts)
           S == SlotsIn(ts)
           N == Len(visits)
           a == [v \in 1 .. N |-> Listed(visits[v], ts)]
           b == [v \in 1 .. N |-> Children(visits[v], ts)]
           c == [v \in 1 .. N |-> FolderSlots(visits[v], ts)]
<1>1. DOMAIN visits = 1 .. N /\ N \in Nat /\ \A v \in 1 .. N : visits[v] \in V
  <2>1. visits \in Seq(V)
    OBVIOUS
  <2> HIDE DEF V
  <2> QED BY <2>1
<1>2. \A v \in 1 .. N : Listed(visits[v], ts) \in Seq(V)
  BY <1>1, ListedAre DEF ListedParts
<1>3. \A v \in 1 .. N : Children(visits[v], ts) \in Seq(V)
  BY <1>1, ChildrenAre
<1>4. \A v \in 1 .. N : FolderSlots(visits[v], ts) \in Seq(S)
  BY <1>1, FolderSlotsAre
<1>5. ListedOf(visits, ts) = a /\ ChildrenOf(visits, ts) = b /\ SlotsOfVisits(visits, ts) = c
  BY <1>1 DEF ListedOf, ChildrenOf, SlotsOfVisits
<1> HIDE DEF V, S, N
<1>6. a \in Seq(Seq(V)) /\ Len(a) = N
  BY <1>1, <1>2
<1>7. b \in Seq(Seq(V)) /\ Len(b) = N
  BY <1>1, <1>3
<1>8. c \in Seq(Seq(S)) /\ Len(c) = N
  BY <1>1, <1>4
<1> HIDE DEF a, b, c
<1> QED BY <1>1, <1>5, <1>6, <1>7, <1>8 DEF TablesTyped, V, S, N

\* As many roots as there were TOCs so far are ahead in the folder table.
RootsCounted(visits, ts) ==
  \A v \in 1 .. Len(visits) :
    Upto(ListedOf(visits, ts), v) = visits[v].toc + Upto(ChildrenOf(visits, ts), v)

RootBefore(visit) == IF visit.path = <<>> THEN 1 ELSE 0

LEMMA RootsAreCounted ==
  ASSUME NEW ts, IsArchive(ts), NEW visits \in Seq(VisitsOf(ts)), RootsLead(visits)
  PROVE  RootsCounted(visits, ts)
<1> DEFINE a == ListedOf(visits, ts)
           b == ChildrenOf(visits, ts)
           N == Len(visits)
           G == {v \in 0 .. N : Upto(a, v) = (IF v = 0 THEN 0 ELSE visits[v].toc) + Upto(b, v)}
<1>1. TablesTyped(visits, ts)
  BY TablesAre
<1>2. Counters(a) /\ Counters(b) /\ Len(a) = N /\ Len(b) = N /\ N \in Nat
  BY <1>1, CountersGrow DEF TablesTyped
<1>3. 0 \in G
  BY <1>2 DEF Counters
<1>4. ASSUME NEW v \in 1 .. N, v - 1 \in G
      PROVE  v \in G
  <2>1. visits[v] \in VisitsOf(ts) /\ visits[v].toc \in Nat
    BY <1>1, VisitParts DEF TablesTyped
  <2>2. ListedParts(ts, visits[v])
    BY <2>1, ListedAre
  <2>3. a[v] = Listed(visits[v], ts) /\ b[v] = Children(visits[v], ts)
    BY <1>1 DEF TablesTyped, ListedOf, ChildrenOf
  <2>4. Len(a[v]) = RootBefore(visits[v]) + Len(b[v])
    BY <2>2, <2>3 DEF ListedParts, RootBefore
  <2>5. Len(b[v]) \in Nat
    <3>1. Children(visits[v], ts) \in Seq(VisitsOf(ts))
      BY <2>1, ChildrenAre
    <3> QED BY <2>3, <3>1, LenProperties
  <2> HIDE DEF a, b, N
  <2>6. /\ Upto(a, v) = Upto(a, v - 1) + Len(a[v]) /\ Upto(b, v) = Upto(b, v - 1) + Len(b[v])
        /\ Upto(a, v - 1) \in Nat /\ Upto(b, v - 1) \in Nat
    <3>1. v - 1 \in 0 .. N
      BY <1>2
    <3> QED BY <1>2, <3>1 DEF Counters
  <2>7. v \in 0 .. N /\ v # 0
    BY <1>2
  <2>8. CASE v = 1
    <3>1. visits[v].toc = 1 /\ visits[v].path = <<>>
      <4>1. N # 0
        BY <1>2, <2>8
      <4> QED BY <2>8, <4>1 DEF RootsLead, N
    <3>2. RootBefore(visits[v]) = 1
      BY <3>1 DEF RootBefore
    <3>3. Upto(a, v - 1) = 0 /\ Upto(b, v - 1) = 0
      BY <1>2, <2>8 DEF Counters
    <3> QED BY <2>4, <2>5, <2>6, <2>7, <3>1, <3>2, <3>3
  <2>9. CASE v # 1
    <3>1. v \in 2 .. Len(visits) /\ v - 1 # 0 /\ v - 1 \in 1 .. Len(visits)
      BY <1>2, <2>9 DEF N
    <3>2. visits[v].toc = IF visits[v].path = <<>> THEN visits[v - 1].toc + 1 ELSE visits[v - 1].toc
      BY <3>1 DEF RootsLead
    <3>3. visits[v - 1].toc \in Nat
      <4>1. visits[v - 1] \in VisitsOf(ts)
        BY <1>1, <3>1 DEF TablesTyped
      <4> QED BY <4>1, VisitParts
    <3>4. visits[v].toc = visits[v - 1].toc + RootBefore(visits[v])
      BY <3>2, <3>3 DEF RootBefore
    <3>5. Upto(a, v - 1) = visits[v - 1].toc + Upto(b, v - 1)
      BY <1>4, <3>1
    <3>6. RootBefore(visits[v]) \in Nat
      BY DEF RootBefore
    <3>7. Upto(a, v) = visits[v].toc + Upto(b, v)
      BY <2>4, <2>5, <2>6, <3>3, <3>4, <3>5, <3>6
    <3> QED BY <2>7, <3>7
  <2> QED BY <2>8, <2>9
<1>5. 0 .. N \subseteq G
  <2> HIDE DEF G, N
  <2> QED BY <1>2, <1>3, <1>4, StepsReach
<1> HIDE DEF a, b
<1>6. \A v \in 1 .. N : Upto(a, v) = visits[v].toc + Upto(b, v)
  <2> SUFFICES ASSUME NEW v \in 1 .. N PROVE Upto(a, v) = visits[v].toc + Upto(b, v)
    OBVIOUS
  <2>1. v \in 0 .. N /\ v # 0
    BY <1>2
  <2>2. v \in G
    <3> HIDE DEF G, N
    <3> QED BY <1>5, <2>1
  <2> QED BY <2>1, <2>2
<1> QED BY <1>6 DEF RootsCounted, a, b

\* The place of the root of its own, or of the entry ahead of its children.
FolderTable(visits, ts) == FlattenSeq(ListedOf(visits, ts))

Start(visits, ts, v) == visits[v].toc + Upto(ChildrenOf(visits, ts), v - 1)

PlacedFolders(visits, ts) ==
  LET table == FolderTable(visits, ts)
  IN  /\ table \in Seq(VisitsOf(ts))
      /\ \A v \in 1 .. Len(visits) :
           /\ Start(visits, ts, v) \in Nat
           /\ visits[v].toc + Upto(ChildrenOf(visits, ts), v)
                = Start(visits, ts, v) + Len(Children(visits[v], ts))
           /\ \A k \in 1 .. Len(Children(visits[v], ts)) :
                /\ Start(visits, ts, v) + k \in 1 .. Len(table)
                /\ table[Start(visits, ts, v) + k] = Child(visits[v], ts, k)
           /\ visits[v].path = <<>> =>
                /\ Start(visits, ts, v) = Upto(ListedOf(visits, ts), v - 1) + 1
                /\ Start(visits, ts, v) \in 1 .. Len(table)
                /\ table[Start(visits, ts, v)] = visits[v]
      /\ \A x \in 1 .. Len(table) : \A v \in 1 .. Len(visits) : table[x] = visits[v] => x <= Start(visits, ts, v)

LEMMA FoldersArePlaced ==
  ASSUME NEW ts, IsArchive(ts), NEW visits, Visited(ts, visits), RootsLead(visits), ParentsLead(visits)
  PROVE  PlacedFolders(visits, ts)
<1> DEFINE a == ListedOf(visits, ts)
           b == ChildrenOf(visits, ts)
           N == Len(visits)
           V == VisitsOf(ts)
           table == FolderTable(visits, ts)
<1>1. visits \in Seq(V) /\ TablesTyped(visits, ts) /\ RootsCounted(visits, ts)
  BY TablesAre, RootsAreCounted DEF Visited
<1>2. /\ a \in Seq(Seq(V)) /\ b \in Seq(Seq(V)) /\ Len(a) = N /\ Len(b) = N /\ N \in Nat
      /\ \A v \in 1 .. N : visits[v] \in V
  BY <1>1 DEF TablesTyped, Visited
<1>3. Counters(a) /\ Counters(b) /\ Ordered(a)
  BY <1>2, CountersGrow, CountersOrdered
<1>4. table = FlattenSeq(a)
  BY DEF FolderTable
<1>5. table \in Seq(V) /\ DOMAIN table = 1 .. Len(table) /\ Len(table) \in Nat
  <2>1. table \in Seq(V)
    BY <1>2, <1>4, FlatTyped
  <2> HIDE DEF table, V
  <2> QED BY <2>1
<1>6. ASSUME NEW v \in 1 .. N
      PROVE  /\ a[v] = Listed(visits[v], ts) /\ b[v] = Children(visits[v], ts)
             /\ ListedParts(ts, visits[v])
             /\ Len(b[v]) \in Nat /\ Len(a[v]) = RootBefore(visits[v]) + Len(b[v])
             /\ RootBefore(visits[v]) \in {0, 1} /\ (RootBefore(visits[v]) = 1 <=> visits[v].path = <<>>)
  <2>1. a[v] = Listed(visits[v], ts) /\ b[v] = Children(visits[v], ts)
    BY <1>1 DEF TablesTyped, ListedOf, ChildrenOf
  <2>2. ListedParts(ts, visits[v])
    BY <1>2, ListedAre
  <2>3. Len(a[v]) = RootBefore(visits[v]) + Len(b[v])
    BY <2>1, <2>2 DEF ListedParts, RootBefore
  <2>4. Children(visits[v], ts) \in Seq(VisitsOf(ts))
    BY <1>2, ChildrenAre
  <2>5. Len(b[v]) \in Nat
    BY <2>1, <2>4, LenProperties
  <2> QED BY <2>1, <2>2, <2>3, <2>5 DEF RootBefore
<1> HIDE DEF a, b, N, V, table
<1>7. ASSUME NEW v \in 1 .. N
      PROVE  /\ Upto(a, v - 1) \in Nat /\ Upto(b, v - 1) \in Nat
             /\ Start(visits, ts, v) = Upto(a, v - 1) + RootBefore(visits[v])
             /\ Start(visits, ts, v) \in Nat
             /\ Upto(b, v) = Upto(b, v - 1) + Len(b[v])
             /\ Upto(a, v) = Upto(a, v - 1) + Len(a[v])
             /\ visits[v].toc \in Nat
  <2>1. /\ Upto(a, v) = Upto(a, v - 1) + Len(a[v]) /\ Upto(b, v) = Upto(b, v - 1) + Len(b[v])
        /\ Upto(a, v - 1) \in Nat /\ Upto(b, v - 1) \in Nat
    <3>1. v - 1 \in 0 .. N
      BY <1>2
    <3> QED BY <1>2, <1>3, <3>1 DEF Counters
  <2>2. Upto(a, v) = visits[v].toc + Upto(b, v)
    BY <1>1 DEF RootsCounted, a, b, N
  <2>3. visits[v].toc \in Nat
    BY <1>2, VisitParts DEF V
  <2>4. Start(visits, ts, v) = visits[v].toc + Upto(b, v - 1)
    BY DEF Start, b
  <2>5. Len(a[v]) = RootBefore(visits[v]) + Len(b[v]) /\ RootBefore(visits[v]) \in {0, 1} /\ Len(b[v]) \in Nat
    BY <1>6
  <2>6. RootBefore(visits[v]) \in Nat
    BY <2>5
  <2>7. Start(visits, ts, v) = Upto(a, v - 1) + RootBefore(visits[v])
    <3> DEFINE t == visits[v].toc
               r == RootBefore(visits[v])
               k == Len(b[v])
               m == Upto(a, v - 1)
               n == Upto(b, v - 1)
    <3>1. t \in Nat /\ r \in Nat /\ k \in Nat /\ m \in Nat /\ n \in Nat
      BY <2>1, <2>3, <2>5, <2>6
    <3>2. m + (r + k) = t + (n + k)
      BY <2>1, <2>2, <2>5
    <3>3. Start(visits, ts, v) = t + n
      BY <2>4
    <3> HIDE DEF t, r, k, m, n
    <3>4. t + n = m + r
      BY <3>1, <3>2
    <3> QED BY <3>3, <3>4 DEF m, r
  <2> QED BY <2>1, <2>3, <2>6, <2>7
<1>8. ASSUME NEW v \in 1 .. N, NEW j \in 1 .. Len(a[v])
      PROVE  Upto(a, v - 1) + j \in 1 .. Len(table) /\ table[Upto(a, v - 1) + j] = a[v][j]
  <2>1. InFlat(a, v, j)
    BY <1>2, FlatHolds
  <2> QED BY <1>4, <1>5, <2>1 DEF InFlat
<1>9. ASSUME NEW v \in 1 .. N, NEW k \in 1 .. Len(b[v])
      PROVE  Start(visits, ts, v) + k \in 1 .. Len(table) /\ table[Start(visits, ts, v) + k] = Child(visits[v], ts, k)
  <2> DEFINE r == RootBefore(visits[v])
  <2>1. r \in {0, 1} /\ Len(a[v]) = r + Len(b[v]) /\ Len(b[v]) \in Nat
    BY <1>6
  <2>2. r + k \in 1 .. Len(a[v])
    BY <2>1
  <2>3. a[v][r + k] = Child(visits[v], ts, k)
    BY <1>6 DEF ListedParts, RootBefore
  <2>4. Start(visits, ts, v) + k = Upto(a, v - 1) + (r + k)
    BY <1>7, <2>1
  <2> HIDE DEF r
  <2> QED BY <1>8, <2>2, <2>3, <2>4
<1>10. ASSUME NEW v \in 1 .. N, visits[v].path = <<>>
       PROVE  /\ Start(visits, ts, v) = Upto(a, v - 1) + 1
              /\ Start(visits, ts, v) \in 1 .. Len(table)
              /\ table[Start(visits, ts, v)] = visits[v]
  <2>1. RootBefore(visits[v]) = 1
    BY <1>6, <1>10
  <2>2. Start(visits, ts, v) = Upto(a, v - 1) + 1
    BY <1>7, <2>1
  <2>3. 1 \in 1 .. Len(a[v]) /\ a[v][1] = visits[v]
    <3>1. 1 \in 1 .. Len(a[v])
      BY <1>6, <2>1
    <3> QED BY <1>6, <1>10, <3>1 DEF ListedParts
  <2> QED BY <1>8, <2>2, <2>3
<1>11. ASSUME NEW x \in 1 .. Len(table), NEW v \in 1 .. N, table[x] = visits[v]
       PROVE  x <= Start(visits, ts, v)
  <2>1. PICK u, j : FromOne(a, x, u, j)
    BY <1>2, <1>4, FlatFrom
  <2>2. u \in 1 .. N /\ j \in 1 .. Len(a[u]) /\ x = Upto(a, u - 1) + j
    BY <1>2, <2>1 DEF FromOne
  <2>3. a[u][j] = visits[v]
    BY <1>8, <1>11, <2>2
  <2> DEFINE r == RootBefore(visits[u])
  <2>4. r \in {0, 1} /\ Len(a[u]) = r + Len(b[u]) /\ Len(b[u]) \in Nat
    BY <1>6, <2>2
  <2>5. CASE r = 1 /\ j = 1
    <3>1. visits[u] = visits[v]
      BY <1>6, <2>2, <2>3, <2>5 DEF ListedParts, RootBefore
    <3>2. u = v
      BY <2>2, <3>1 DEF Visited, N
    <3> QED BY <1>7, <2>2, <2>5, <3>2
  <2>6. CASE ~ (r = 1 /\ j = 1)
    <3>1. j - r \in 1 .. Len(b[u]) /\ r + (j - r) = j
      BY <2>2, <2>4, <2>6
    <3>2. a[u][j] = Child(visits[u], ts, j - r)
      <4>1. \A k \in 1 .. Len(b[u]) : a[u][r + k] = Child(visits[u], ts, k)
        BY <1>6, <2>2 DEF ListedParts, RootBefore
      <4> HIDE DEF r
      <4> QED BY <3>1, <4>1
    <3>3. j - r \in DOMAIN FolderAt(ts, visits[u]).folders
      <4>1. Len(b[u]) = Len(FolderAt(ts, visits[u]).folders)
        BY <1>2, <1>6, <2>2, ChildrenAre DEF V
      <4>2. FolderAt(ts, visits[u]).folders \in Seq(ChildEntries)
        BY <1>2, <2>2, VisitParts DEF V
      <4> DEFINE g == FolderAt(ts, visits[u]).folders
      <4>3. DOMAIN g = 1 .. Len(g)
        <5> HIDE DEF g
        <5> QED BY <4>2 DEF g
      <4> HIDE DEF r
      <4> QED BY <3>1, <4>1, <4>3
    <3>4. visits[v].path # <<>> /\ visits[u] = [toc |-> visits[v].toc, path |-> Front(visits[v].path)]
      <4> HIDE DEF r
      <4>1. visits[u] \in VisitsOf(ts)
        BY <1>2, <2>2 DEF V
      <4>2. visits[v].toc = visits[u].toc /\ visits[v].path # <<>> /\ Front(visits[v].path) = visits[u].path
        BY <2>3, <3>2, <3>3, <4>1, ChildVisited
      <4>3. visits[u] = [toc |-> visits[u].toc, path |-> visits[u].path]
        BY <4>1, VisitParts
      <4> QED BY <4>2, <4>3
    <3>5. u < v
      BY <2>2, <3>4 DEF ParentsLead, N
    <3>6. u \in 0 .. N /\ v - 1 \in 0 .. N /\ u <= v - 1
      BY <1>2, <2>2, <3>5
    <3>7. Upto(a, u) <= Upto(a, v - 1)
      BY <1>2, <1>3, <3>6 DEF Ordered
    <3>8. x <= Upto(a, u)
      BY <1>7, <2>2, <2>4
    <3>9. Upto(a, v - 1) <= Start(visits, ts, v)
      <4>1. RootBefore(visits[v]) \in {0, 1}
        BY <1>6
      <4> QED BY <1>7, <4>1
    <3>10. Upto(a, u) \in Nat /\ Upto(a, v - 1) \in Nat /\ Start(visits, ts, v) \in Nat /\ x \in Nat
      BY <1>2, <1>3, <1>5, <1>7, <3>6 DEF Counters
    <3> QED BY <3>7, <3>8, <3>9, <3>10
  <2> QED BY <2>5, <2>6
<1>12. ASSUME NEW v \in 1 .. N
       PROVE  visits[v].toc + Upto(b, v) = Start(visits, ts, v) + Len(b[v])
  <2>1. Start(visits, ts, v) = visits[v].toc + Upto(b, v - 1)
    BY DEF Start, b
  <2>2. Len(b[v]) \in Nat
    BY <1>6
  <2> QED BY <1>7, <2>1, <2>2
<1>13. \A v \in 1 .. N : b[v] = Children(visits[v], ts)
  BY <1>6
<1>14. /\ table \in Seq(VisitsOf(ts))
       /\ \A x \in 1 .. Len(table) : \A v \in 1 .. N : table[x] = visits[v] => x <= Start(visits, ts, v)
  BY <1>5, <1>11 DEF V
<1>15. \A v \in 1 .. N :
           /\ Start(visits, ts, v) \in Nat
           /\ visits[v].toc + Upto(b, v) = Start(visits, ts, v) + Len(Children(visits[v], ts))
           /\ \A k \in 1 .. Len(Children(visits[v], ts)) :
                /\ Start(visits, ts, v) + k \in 1 .. Len(table)
                /\ table[Start(visits, ts, v) + k] = Child(visits[v], ts, k)
           /\ visits[v].path = <<>> =>
                /\ Start(visits, ts, v) = Upto(a, v - 1) + 1
                /\ Start(visits, ts, v) \in 1 .. Len(table)
                /\ table[Start(visits, ts, v)] = visits[v]
  BY <1>7, <1>9, <1>10, <1>12, <1>13
<1> QED BY <1>14, <1>15 DEF PlacedFolders, table, a, b, N

(***************************************************************************)
(* The data blob and the hashes: where each file's bytes and blocks are.   *)
(***************************************************************************)
UnitsIn == Data \X Storages \X Nat

LEMMA UnitsTyped ==
  ASSUME NEW d \in Data, NEW s \in Storages
  PROVE  LET u == Units([data |-> d, storage |-> s])
         IN  /\ u \in Seq(UnitsIn)
             /\ Len(u) = Length[d] + (IF s = "Store" THEN 0 ELSE 1)
             /\ \A k \in 1 .. Len(u) : u[k] = <<d, s, k>>
<1> DEFINE n == Length[d] + (IF s = "Store" THEN 0 ELSE 1)
           u == [k \in 1 .. n |-> <<d, s, k>>]
<1>1. Units([data |-> d, storage |-> s]) = u
  BY DEF Units
<1>2. n \in Nat
  <2>1. Length[d] \in Nat
    BY ImageAssumption
  <2> QED BY <2>1
<1> HIDE DEF n
<1>3. \A k \in 1 .. n : <<d, s, k>> \in UnitsIn
  BY <1>2 DEF UnitsIn
<1>4. u \in Seq(UnitsIn) /\ Len(u) = n /\ \A k \in 1 .. n : u[k] = <<d, s, k>>
  BY <1>2, <1>3
<1> QED BY <1>1, <1>4 DEF n

\* The stored bytes tell the content.
LEMMA UnitsTell ==
  ASSUME NEW d \in Data, NEW e \in Data, NEW s \in Storages,
         Units([data |-> d, storage |-> s]) = Units([data |-> e, storage |-> s])
  PROVE  d = e
<1> DEFINE u == Units([data |-> d, storage |-> s])
           w == Units([data |-> e, storage |-> s])
           c == IF s = "Store" THEN 0 ELSE 1
<1>1. /\ Len(u) = Length[d] + c /\ \A k \in 1 .. Len(u) : u[k] = <<d, s, k>>
      /\ Len(w) = Length[e] + c /\ \A k \in 1 .. Len(w) : w[k] = <<e, s, k>>
  BY UnitsTyped
<1>2. u = w
  OBVIOUS
<1>3. Length[d] \in Nat /\ Length[e] \in Nat /\ c \in {0, 1}
  BY ImageAssumption
<1> HIDE DEF u, w, c
<1>4. CASE Len(u) = 0
  <2>1. Length[d] = 0 /\ Length[e] = 0
    BY <1>1, <1>2, <1>3, <1>4
  <2> QED BY <2>1, ImageAssumption
<1>5. CASE Len(u) # 0
  <2>1. 1 \in 1 .. Len(u) /\ 1 \in 1 .. Len(w)
    BY <1>1, <1>2, <1>3, <1>5
  <2>2. u[1] = <<d, s, 1>> /\ u[1] = <<e, s, 1>>
    BY <1>1, <1>2, <2>1
  <2> QED BY <2>2
<1> QED BY <1>4, <1>5

LEMMA StoredTyped ==
  ASSUME NEW file \in Files
  PROVE  /\ file.data \in Data /\ file.storage \in Storages
         /\ Stored(file) = [data |-> file.data, storage |-> file.storage]
         /\ Units(Stored(file)) \in Seq(UnitsIn)
<1>1. file.data \in Data /\ file.storage \in Storages
  BY DEF Files
<1> QED BY <1>1, UnitsTyped DEF Stored

\* Every file is placed, and where.
LEMMA PlacingStrict ==
  ASSUME NEW files \in Seq(Files)
  PROVE  StrictOrder(1 .. Len(files), Placing(files))
<1> DEFINE K == 1 .. Len(files)
           ordered == \A k \in K : files[k].order # NoOrder
           o(k) == files[k].order
           L(i, j) == IF ordered /\ o(i) # o(j) THEN o(i) < o(j) ELSE i < j
<1>1. DOMAIN files = K
  OBVIOUS
<1>2. \A i, j \in K : <<i, j>> \in Placing(files) <=> L(i, j)
  <2> SUFFICES ASSUME NEW i \in K, NEW j \in K PROVE <<i, j>> \in Placing(files) <=> L(i, j)
    OBVIOUS
  <2> QED BY <1>1 DEF Placing
<1>3. ordered => \A k \in K : o(k) \in Nat
  <2> SUFFICES ASSUME ordered, NEW k \in K PROVE o(k) \in Nat
    OBVIOUS
  <2>1. files[k] \in Files
    OBVIOUS
  <2>2. files[k].order \in Nat \cup {NoOrder}
    BY <2>1 DEF Files
  <2> QED BY <2>2
<1>4. \A i \in K : ~ L(i, i)
  BY <1>3
<1> HIDE DEF o, ordered
<1>5. K \subseteq Nat
  OBVIOUS
<1>6. \A i, j \in K : i # j => L(i, j) \/ L(j, i)
  <2> HIDE DEF K
  <2> QED BY <1>3, <1>5
<1>7. \A i, j, k \in K : L(i, j) /\ L(j, k) => L(i, k)
  <2> HIDE DEF K
  <2> QED BY <1>3, <1>5
<1> HIDE DEF L, K
<1> QED BY <1>2, <1>4, <1>6, <1>7 DEF StrictOrder, K

PlacedIn(placed, n) ==
  /\ placed \in Seq(1 .. n)
  /\ \A k \in 1 .. n : IndexIn(placed, k) \in 1 .. Len(placed) /\ placed[IndexIn(placed, k)] = k

LEMMA AllArePlaced ==
  ASSUME NEW files \in Seq(Files)
  PROVE  PlacedIn(Enumerate(1 .. Len(files), Placing(files)), Len(files))
<1> DEFINE K == 1 .. Len(files)
           C == Cardinality(K)
           p == Enumerate(K, Placing(files))
<1>1. StrictOrder(K, Placing(files)) /\ IsFiniteSet(K)
  BY PlacingStrict, FS_Interval
<1>2. C \in Nat /\ p \in [1 .. C -> K] /\ \A i \in K : \E k \in 1 .. C : p[k] = i
  <2> HIDE DEF K
  <2> QED BY <1>1, EnumerateInOrder
<1> HIDE DEF p, C, K
<1>3. p \in Seq(K) /\ Len(p) = C /\ DOMAIN p = 1 .. C
  BY <1>2
<1>4. \A k \in K : IndexIn(p, k) \in DOMAIN p /\ p[IndexIn(p, k)] = k
  BY <1>2, <1>3 DEF IndexIn
<1> QED BY <1>3, <1>4 DEF PlacedIn, K, p

BytesOf(files, placed) == [r \in DOMAIN placed |-> Units(Stored(files[placed[r]]))]

\* Where write says the bytes of a file are, they are.
LEMMA BytesFound ==
  ASSUME NEW files \in Seq(Files), NEW placed, PlacedIn(placed, Len(files)), NEW k \in 1 .. Len(files)
  PROVE  LET bytes == BytesOf(files, placed)
             at    == Upto(bytes, IndexIn(placed, k) - 1)
             u     == Units(Stored(files[k]))
         IN  /\ at \in Nat /\ u \in Seq(UnitsIn) /\ Len(u) \in Nat
             /\ SubSeq(FlattenSeq(bytes), at + 1, at + Len(u)) = u
<1> DEFINE N == Len(files)
           b == [r \in 1 .. Len(placed) |-> Units(Stored(files[placed[r]]))]
           r == IndexIn(placed, k)
           u == Units(Stored(files[k]))
<1>1. placed \in Seq(1 .. N) /\ r \in 1 .. Len(placed) /\ placed[r] = k
  BY DEF PlacedIn
<1>2. DOMAIN placed = 1 .. Len(placed) /\ Len(placed) \in Nat /\ \A q \in 1 .. Len(placed) : placed[q] \in 1 .. N
  <2> DEFINE K == 1 .. N
  <2>1. placed \in Seq(K)
    BY <1>1
  <2> HIDE DEF K
  <2>2. DOMAIN placed = 1 .. Len(placed) /\ Len(placed) \in Nat /\ \A q \in 1 .. Len(placed) : placed[q] \in K
    BY <2>1
  <2> QED BY <2>2 DEF K
<1>3. BytesOf(files, placed) = b
  BY <1>2 DEF BytesOf
<1>4. \A q \in 1 .. N : files[q] \in Files
  OBVIOUS
<1>5. \A q \in 1 .. Len(placed) : Units(Stored(files[placed[q]])) \in Seq(UnitsIn)
  BY <1>2, <1>4, StoredTyped
<1>6. b \in Seq(Seq(UnitsIn)) /\ Len(b) = Len(placed)
  BY <1>2, <1>5
<1>7. u \in Seq(UnitsIn) /\ Len(u) \in Nat
  <2>1. u \in Seq(UnitsIn)
    BY <1>4, StoredTyped
  <2> HIDE DEF u
  <2> QED BY <2>1, LenProperties
<1>8. b[r] = u
  BY <1>1
<1> HIDE DEF b, r, u, N
<1>9. /\ Upto(b, r) = Upto(b, r - 1) + Len(u) /\ Upto(b, r - 1) \in Nat
  <2>1. Counters(b)
    BY <1>6, CountersGrow
  <2>2. r \in 1 .. Len(b) /\ r - 1 \in 0 .. Len(b)
    BY <1>1, <1>2, <1>6
  <2> QED BY <1>8, <2>1, <2>2 DEF Counters
<1>10. SubSeq(FlattenSeq(b), Upto(b, r - 1) + 1, Upto(b, r)) = u
  BY <1>1, <1>6, <1>8, FlatPart
<1> QED BY <1>3, <1>7, <1>9, <1>10 DEF u, r

LEMMA LeastIs ==
  ASSUME NEW T, T \subseteq Nat, T # {}
  PROVE  Min(T) \in T /\ \A y \in T : Min(T) <= y
<1>1. \E n \in T : \A m \in T : n <= m
  BY LeastNatural
<1> QED BY <1>1 DEF Min

\* The blocks that begin within the data are as many as the length, divided by
\* the size of a block and rounded up.
LEMMA BlocksCounted ==
  ASSUME NEW n \in Nat \ {0}, NEW size \in Nat \ {0}
  PROVE  {b \in 1 .. n : (b - 1) * size < n} = 1 .. (n + size - 1) \div size
<1> DEFINE m == n + size - 1
           q == m \div size
<1>1. m \in Nat /\ m >= size /\ m >= n
  OBVIOUS
<1> HIDE DEF m
<1>2. q \in Nat /\ q * size <= m /\ m < (q + 1) * size
  BY <1>1, Z3
<1> HIDE DEF q
<1>3. ASSUME NEW b \in 1 .. q
      PROVE  b \in 1 .. n /\ (b - 1) * size < n
  <2>1. b * size <= q * size
    BY <1>2, Z3
  <2>2. (b - 1) * size = b * size - size
    BY Z3
  <2>3. (b - 1) * size < n
    BY <1>2, <2>1, <2>2, Z3 DEF m
  <2>4. b - 1 <= (b - 1) * size
    BY Z3
  <2>5. b <= n
    BY <2>3, <2>4, Z3
  <2> QED BY <2>3, <2>5
<1>4. ASSUME NEW b \in 1 .. n, (b - 1) * size < n
      PROVE  b \in 1 .. q
  <2>1. b * size = (b - 1) * size + size
    BY Z3
  <2>2. b * size <= m
    BY <1>4, <2>1, Z3 DEF m
  <2>3. b * size < (q + 1) * size
    BY <1>1, <1>2, <2>2, Z3
  <2>4. b < q + 1
    BY <1>2, <2>3, Z3
  <2> QED BY <1>2, <2>4
<1>5. \A b : b \in {x \in 1 .. n : (x - 1) * size < n} <=> b \in 1 .. q
  BY <1>3, <1>4
<1> QED BY <1>5 DEF q, m

\* Blocks and their number.
LEMMA BlocksAre ==
  ASSUME NEW u \in Seq(UnitsIn)
  PROVE  /\ BlockCount(Len(u)) \in Nat \ {0}
         /\ Blocks(u) \in Seq(Seq(UnitsIn)) /\ Len(Blocks(u)) = BlockCount(Len(u))
<1>1. Len(u) \in Nat /\ BlockSize \in Nat /\ BlockSize > 0
  BY ImageAssumption, LenProperties
<1>2. BlockCount(Len(u)) \in Nat \ {0}
  <2>1. CASE Len(u) = 0
    BY <2>1 DEF BlockCount
  <2>2. CASE Len(u) # 0
    <3> DEFINE n == Len(u) + BlockSize - 1
    <3>1. n \in Nat /\ n >= BlockSize
      BY <1>1, <2>2
    <3> HIDE DEF n
    <3>2. n \div BlockSize \in Nat /\ n \div BlockSize >= 1
      BY <1>1, <3>1, Z3
    <3> QED BY <2>2, <3>2 DEF BlockCount, n
  <2> QED BY <2>1, <2>2
<1>7. CASE u = <<>>
  <2>1. Len(u) = 0 /\ BlockCount(Len(u)) = 1
    BY <1>7 DEF BlockCount
  <2>2. Blocks(u) = << <<>> >> /\ << <<>> >> \in Seq(Seq(UnitsIn))
    BY <1>7 DEF Blocks
  <2> QED BY <1>2, <2>1, <2>2
<1> DEFINE C == BlockCount(Len(u))
           Block(b) == SubSeq(u, (b - 1) * BlockSize + 1, Min({b * BlockSize, Len(u)}))
<1>8. u # <<>> => {b \in 1 .. Len(u) : (b - 1) * BlockSize < Len(u)} = 1 .. C
  <2> SUFFICES ASSUME u # <<>>
               PROVE  {b \in 1 .. Len(u) : (b - 1) * BlockSize < Len(u)} = 1 .. C
    OBVIOUS
  <2>1. Len(u) # 0
    BY EmptySeq
  <2>2. C = (Len(u) + BlockSize - 1) \div BlockSize
    BY <2>1 DEF BlockCount
  <2> HIDE DEF C
  <2> QED BY <1>1, <2>1, <2>2, BlocksCounted
<1>3. u # <<>> => Blocks(u) = [b \in 1 .. C |-> Block(b)]
  BY <1>8 DEF Blocks
<1>4. \A b \in 1 .. C : Block(b) \in Seq(UnitsIn)
  <2> SUFFICES ASSUME NEW b \in 1 .. C PROVE Block(b) \in Seq(UnitsIn)
    OBVIOUS
  <2> DEFINE lo == (b - 1) * BlockSize + 1
             hi == Min({b * BlockSize, Len(u)})
  <2>1. b \in Nat /\ b >= 1
    BY <1>2
  <2>2. b * BlockSize \in Nat /\ (b - 1) * BlockSize \in Nat
    <3>1. b - 1 \in Nat
      BY <2>1
    <3> QED BY <1>1, <2>1, <3>1, Z3
  <2>3. lo \in Nat /\ lo >= 1
    BY <2>2
  <2>4. hi \in {b * BlockSize, Len(u)} /\ hi <= Len(u)
    <3> DEFINE T == {b * BlockSize, Len(u)}
    <3>1. T \subseteq Nat /\ T # {}
      BY <1>1, <2>2
    <3>2. Len(u) \in T
      OBVIOUS
    <3> HIDE DEF T
    <3>3. Min(T) \in T /\ \A y \in T : Min(T) <= y
      BY <3>1, LeastIs
    <3> QED BY <3>2, <3>3 DEF T
  <2>5. hi \in Int
    BY <1>1, <2>2, <2>4
  <2> HIDE DEF lo, hi
  <2>6. SubSeq(u, lo, hi) \in Seq(UnitsIn)
    <3>1. CASE hi < lo
      <4>1. SubSeq(u, lo, hi) = <<>>
        BY <2>3, <2>5, <3>1
      <4> QED BY <4>1
    <3>2. CASE lo <= hi
      <4>1. lo \in 1 .. Len(u) + 1 /\ hi \in lo - 1 .. Len(u)
        BY <1>1, <2>3, <2>4, <2>5, <3>2
      <4> QED BY <4>1, SubSeqProperties
    <3> QED BY <2>3, <2>5, <3>1, <3>2
  <2> QED BY <2>6 DEF lo, hi
<1> HIDE DEF Block, C
<1>5. C \in Nat
  BY <1>2 DEF C
<1>6. [b \in 1 .. C |-> Block(b)] \in Seq(Seq(UnitsIn)) /\ Len([b \in 1 .. C |-> Block(b)]) = C
  BY <1>4, <1>5
<1> QED BY <1>2, <1>3, <1>6, <1>7 DEF C

HashesOfAll(files) == [k \in DOMAIN files |-> HashesOf(files[k])]

\* Where write says the hashes of a file are, they are.
LEMMA HashesFound ==
  ASSUME NEW files \in Seq(Files), NEW k \in 1 .. Len(files), files[k].verify = "SHA1Blocks"
  PROVE  LET hashes == HashesOfAll(files)
             at     == Upto(hashes, k - 1)
             u      == Units(Stored(files[k]))
             last   == at + BlockCount(Len(u))
         IN  /\ at \in Nat /\ BlockCount(Len(u)) \in Nat \ {0} /\ last <= Len(FlattenSeq(hashes))
             /\ SubSeq(FlattenSeq(hashes), at + 1, last) = Blocks(u) /\ Blocks(u) # <<>>
<1> DEFINE H == HashesOfAll(files)
           h == [q \in 1 .. Len(files) |-> HashesOf(files[q])]
           u == Units(Stored(files[k]))
           c == BlockCount(Len(u))
<1>1. DOMAIN files = 1 .. Len(files) /\ Len(files) \in Nat /\ \A q \in 1 .. Len(files) : files[q] \in Files
  OBVIOUS
<1>2. H = h
  BY <1>1 DEF HashesOfAll
<1>3. \A q \in 1 .. Len(files) : HashesOf(files[q]) \in Seq(Seq(UnitsIn))
  <2> SUFFICES ASSUME NEW q \in 1 .. Len(files) PROVE HashesOf(files[q]) \in Seq(Seq(UnitsIn))
    OBVIOUS
  <2>1. Blocks(Units(Stored(files[q]))) \in Seq(Seq(UnitsIn))
    BY <1>1, StoredTyped, BlocksAre
  <2>2. <<>> \in Seq(Seq(UnitsIn))
    OBVIOUS
  <2> QED BY <2>1, <2>2 DEF HashesOf
<1>4. h \in Seq(Seq(Seq(UnitsIn))) /\ Len(h) = Len(files)
  BY <1>1, <1>3
<1>5. u \in Seq(UnitsIn)
  BY <1>1, StoredTyped
<1>6. c \in Nat \ {0} /\ Len(Blocks(u)) = c
  <2> HIDE DEF u
  <2> QED BY <1>5, BlocksAre
<1>7. h[k] = Blocks(u)
  BY DEF HashesOf
<1> HIDE DEF h, c, u, H
<1>8. Counters(h) /\ Ordered(h)
  BY <1>4, CountersGrow, CountersOrdered
<1>9. k \in 1 .. Len(h) /\ k - 1 \in 0 .. Len(h) /\ k \in 0 .. Len(h) /\ Len(h) \in 0 .. Len(h) /\ k <= Len(h)
  BY <1>1, <1>4
<1>10. Upto(h, k) = Upto(h, k - 1) + c /\ Upto(h, k - 1) \in Nat
  BY <1>6, <1>7, <1>8, <1>9 DEF Counters
<1>11. Upto(h, k) <= Len(FlattenSeq(h))
  BY <1>8, <1>9 DEF Counters, Ordered
<1>12. SubSeq(FlattenSeq(h), Upto(h, k - 1) + 1, Upto(h, k)) = Blocks(u)
  BY <1>4, <1>7, <1>9, FlatPart
<1>13. Blocks(u) # <<>>
  BY <1>6
<1> QED BY <1>2, <1>6, <1>10, <1>11, <1>12, <1>13 DEF u, c, H

(***************************************************************************)
(* The file table.                                                         *)
(***************************************************************************)
SlotTable(visits, ts) == FlattenSeq(SlotsOfVisits(visits, ts))
FilesOf(visits, ts) == [k \in DOMAIN SlotTable(visits, ts) |-> FileAt(ts, SlotTable(visits, ts)[k])]

\* How many files are ahead of those of a visit.
Before(visits, ts, w) == Upto(SlotsOfVisits(visits, ts), w - 1)

\* The file with index x is the k-th of a folder.
IsFileOf(visits, ts, x, w, k) ==
  /\ w \in 1 .. Len(visits) /\ k \in 1 .. Len(FolderAt(ts, visits[w]).files)
  /\ x = Before(visits, ts, w) + k

PlacedFiles(visits, ts) ==
  /\ SlotTable(visits, ts) \in Seq(SlotsIn(ts))
  /\ FilesOf(visits, ts) \in Seq(Files)
  /\ Len(FilesOf(visits, ts)) = Len(SlotTable(visits, ts))
  /\ \A w \in 1 .. Len(visits) :
       /\ Before(visits, ts, w) \in Nat
       /\ Upto(SlotsOfVisits(visits, ts), w) = Before(visits, ts, w) + Len(FolderAt(ts, visits[w]).files)
       /\ Upto(SlotsOfVisits(visits, ts), w) <= Len(FilesOf(visits, ts))
  /\ \A x, w, k : IsFileOf(visits, ts, x, w, k) =>
       /\ x \in 1 .. Len(FilesOf(visits, ts))
       /\ SlotTable(visits, ts)[x] = [toc |-> visits[w].toc, path |-> visits[w].path, file |-> k]
       /\ FilesOf(visits, ts)[x] = FolderAt(ts, visits[w]).files[k]
  /\ \A x \in 1 .. Len(FilesOf(visits, ts)) : \E w, k : IsFileOf(visits, ts, x, w, k)

LEMMA FilesArePlaced ==
  ASSUME NEW ts, IsArchive(ts), NEW visits, Visited(ts, visits)
  PROVE  PlacedFiles(visits, ts)
<1> DEFINE c == SlotsOfVisits(visits, ts)
           N == Len(visits)
           S == SlotsIn(ts)
           slots == SlotTable(visits, ts)
           files == FilesOf(visits, ts)
           Table(w) == FolderAt(ts, visits[w]).files
<1>1. TablesTyped(visits, ts)
  BY TablesAre DEF Visited
<1>2. c \in Seq(Seq(S)) /\ Len(c) = N /\ N \in Nat /\ \A w \in 1 .. N : visits[w] \in VisitsOf(ts)
  BY <1>1 DEF TablesTyped, Visited
<1>3. Counters(c) /\ Ordered(c)
  BY <1>2, CountersGrow, CountersOrdered
<1>4. slots = FlattenSeq(c) /\ slots \in Seq(S)
  BY <1>2, FlatTyped DEF SlotTable
<1>5. ASSUME NEW w \in 1 .. N
      PROVE  /\ c[w] = FolderSlots(visits[w], ts) /\ Len(c[w]) = Len(Table(w)) /\ Len(Table(w)) \in Nat
             /\ Table(w) \in Seq(Files)
             /\ \A k \in 1 .. Len(Table(w)) : c[w][k] = [toc |-> visits[w].toc, path |-> visits[w].path, file |-> k]
  <2>1. c[w] = FolderSlots(visits[w], ts)
    BY <1>1 DEF TablesTyped, SlotsOfVisits
  <2>2. visits[w] \in VisitsOf(ts)
    BY <1>2
  <2>3. Table(w) \in Seq(Files)
    BY <2>2, VisitParts
  <2>4. Len(Table(w)) \in Nat
    BY <2>3, LenProperties
  <2> QED BY <2>1, <2>2, <2>3, <2>4, FolderSlotsAre
<1> HIDE DEF slots, S, c, N, Table
<1>6. DOMAIN slots = 1 .. Len(slots) /\ Len(slots) \in Nat
  BY <1>4
<1>7. ASSUME NEW w \in 1 .. N, NEW k \in 1 .. Len(Table(w))
      PROVE  /\ Upto(c, w - 1) + k \in 1 .. Len(slots)
             /\ slots[Upto(c, w - 1) + k] = [toc |-> visits[w].toc, path |-> visits[w].path, file |-> k]
             /\ FileAt(ts, slots[Upto(c, w - 1) + k]) = Table(w)[k]
  <2>1. k \in 1 .. Len(c[w]) /\ w \in 1 .. Len(c)
    BY <1>2, <1>5
  <2>2. InFlat(c, w, k)
    BY <1>2, <2>1, FlatHolds
  <2>3. c[w][k] = [toc |-> visits[w].toc, path |-> visits[w].path, file |-> k]
    BY <1>5
  <2>4. FileAt(ts, [toc |-> visits[w].toc, path |-> visits[w].path, file |-> k]) = Table(w)[k]
    BY DEF FileAt, FolderAt, Table
  <2> QED BY <1>4, <1>6, <2>2, <2>3, <2>4 DEF InFlat
<1>8. ASSUME NEW x \in 1 .. Len(slots)
      PROVE  \E w \in 1 .. N : \E k \in 1 .. Len(Table(w)) : x = Upto(c, w - 1) + k
  <2>1. PICK w, k : FromOne(c, x, w, k)
    BY <1>2, <1>4, FlatFrom
  <2>2. w \in 1 .. N /\ k \in 1 .. Len(c[w]) /\ x = Upto(c, w - 1) + k
    BY <1>2, <2>1 DEF FromOne
  <2> QED BY <1>5, <2>2
<1>9. files = [x \in 1 .. Len(slots) |-> FileAt(ts, slots[x])]
  BY <1>6 DEF FilesOf, slots
<1>10. ASSUME NEW x \in 1 .. Len(slots)
       PROVE  FileAt(ts, slots[x]) \in Files
  <2>0. PICK w \in 1 .. N : \E k \in 1 .. Len(Table(w)) : x = Upto(c, w - 1) + k
    BY <1>8
  <2>1. PICK k \in 1 .. Len(Table(w)) : x = Upto(c, w - 1) + k
    BY <2>0
  <2>2. Table(w)[k] \in Files
    <3> DEFINE T == Table(w)
    <3>1. T \in Seq(Files)
      BY <1>5
    <3> HIDE DEF T
    <3>2. \A l \in 1 .. Len(T) : T[l] \in Files
      BY <3>1
    <3> QED BY <3>2 DEF T
  <2> QED BY <1>7, <2>1, <2>2
<1>11. files \in Seq(Files) /\ Len(files) = Len(slots)
  BY <1>6, <1>9, <1>10
<1> HIDE DEF files
<1>12. ASSUME NEW w \in 1 .. N
       PROVE  /\ Upto(c, w - 1) \in Nat /\ Upto(c, w) = Upto(c, w - 1) + Len(Table(w))
              /\ Upto(c, w) <= Len(files)
  <2>1. w \in 1 .. Len(c) /\ w - 1 \in 0 .. Len(c) /\ w \in 0 .. Len(c) /\ Len(c) \in 0 .. Len(c) /\ w <= Len(c)
    BY <1>2
  <2>2. Len(c[w]) = Len(Table(w))
    BY <1>5
  <2> QED BY <1>3, <1>4, <1>11, <2>1, <2>2 DEF Counters, Ordered
<1>13. \A x, w, k : IsFileOf(visits, ts, x, w, k) =>
         /\ w \in 1 .. N /\ k \in 1 .. Len(Table(w)) /\ x = Upto(c, w - 1) + k
  BY DEF IsFileOf, Before, c, N, Table
<1>14. \A x, w, k : IsFileOf(visits, ts, x, w, k) =>
         /\ x \in 1 .. Len(files)
         /\ slots[x] = [toc |-> visits[w].toc, path |-> visits[w].path, file |-> k]
         /\ files[x] = Table(w)[k]
  BY <1>7, <1>9, <1>11, <1>13
<1>15. \A x \in 1 .. Len(files) : \E w, k : IsFileOf(visits, ts, x, w, k)
  <2> SUFFICES ASSUME NEW x \in 1 .. Len(files) PROVE \E w, k : IsFileOf(visits, ts, x, w, k)
    OBVIOUS
  <2>0. PICK w \in 1 .. N : \E k \in 1 .. Len(Table(w)) : x = Upto(c, w - 1) + k
    BY <1>8, <1>11
  <2>1. PICK k \in 1 .. Len(Table(w)) : x = Upto(c, w - 1) + k
    BY <2>0
  <2>2. IsFileOf(visits, ts, x, w, k)
    BY <2>1 DEF IsFileOf, Before, c, N, Table
  <2> QED BY <2>2
<1>16. \A w \in 1 .. N : Before(visits, ts, w) = Upto(c, w - 1)
  BY DEF Before, c
<1>17. slots \in Seq(SlotsIn(ts))
  BY <1>4 DEF S
<1> QED BY <1>11, <1>12, <1>14, <1>15, <1>16, <1>17 DEF PlacedFiles, slots, files, c, N, Table

(***************************************************************************)
(* The string pool.                                                        *)
(***************************************************************************)
LEMMA StringFound ==
  ASSUME NEW ts, WholeArchive(ts), NEW lay \in Layouts, NEW key,
         NEW at \in 1 .. Len(Said(lay, ts)), Said(lay, ts)[at] = key
  PROVE  /\ NameOffset(lay, Said(lay, ts), key) \in DOMAIN Strings(lay, ts)
         /\ Strings(lay, ts)[NameOffset(lay, Said(lay, ts), key)] = Text(key)
<1> DEFINE said == Said(lay, ts)
<1>1. said \in Seq(Strs)
  BY AllIsSaid DEF SaysAll
<1>2. Strings(lay, ts) = [k \in DOMAIN PoolOf(lay, said) |-> Text(PoolOf(lay, said)[k])]
  BY DEF Strings, PoolOf
<1> HIDE DEF said
<1>3. /\ NameOffset(lay, said, key) \in DOMAIN PoolOf(lay, said)
      /\ Text(PoolOf(lay, said)[NameOffset(lay, said, key)]) = Text(key)
  BY <1>1, KeptString DEF said
<1> QED BY <1>2, <1>3 DEF said

LEMMA FileNameFound ==
  ASSUME NEW ts, WholeArchive(ts), NEW lay \in Layouts, NEW visit \in VisitsOf(ts),
         NEW k \in DOMAIN FolderAt(ts, visit).files
  PROVE  LET name == FolderAt(ts, visit).files[k].name
             at   == NameOffset(lay, Said(lay, ts), FileString(visit, name))
         IN  at \in DOMAIN Strings(lay, ts) /\ Last(Strings(lay, ts)[at]) = name
<1> DEFINE name == FolderAt(ts, visit).files[k].name
           key == FileString(visit, name)
<1>1. PICK j \in 1 .. Len(Said(lay, ts)) : Said(lay, ts)[j] = key
  BY AllIsSaid DEF SaysAll
<1>2. Text(key) = <<name>>
  <2>1. key.file = <<name>>
    BY DEF FileString
  <2>2. <<name>> # <<>>
    OBVIOUS
  <2> QED BY <2>1, <2>2 DEF Text
<1>3. Last(<<name>>) = name
  BY DEF Last
<1> HIDE DEF key, name
<1>4. /\ NameOffset(lay, Said(lay, ts), key) \in DOMAIN Strings(lay, ts)
      /\ Strings(lay, ts)[NameOffset(lay, Said(lay, ts), key)] = Text(key)
  BY <1>1, StringFound
<1> QED BY <1>2, <1>3, <1>4 DEF key, name

LEMMA FolderNameFound ==
  ASSUME NEW ts, WholeArchive(ts), NEW lay \in Layouts, NEW visit \in VisitsOf(ts)
  PROVE  LET at == NameOffset(lay, Said(lay, ts), FolderString(visit))
         IN  at \in DOMAIN Strings(lay, ts) /\ Strings(lay, ts)[at] = visit.path
<1> DEFINE key == FolderString(visit)
<1>1. PICK j \in 1 .. Len(Said(lay, ts)) : Said(lay, ts)[j] = key
  BY AllIsSaid DEF SaysAll
<1>2. Text(key) = visit.path
  BY DEF Text, FolderString
<1> HIDE DEF key
<1>3. /\ NameOffset(lay, Said(lay, ts), key) \in DOMAIN Strings(lay, ts)
      /\ Strings(lay, ts)[NameOffset(lay, Said(lay, ts), key)] = Text(key)
  BY <1>1, StringFound
<1> QED BY <1>2, <1>3 DEF key

(***************************************************************************)
(* What write leaves, field by field, and what a reader makes of a file.   *)
(***************************************************************************)
PlacedOf(files) == Enumerate(1 .. Len(files), Placing(files))

FileEntryOf(lay, ts, slots, files, k) ==
  FileEntry(files[k], NameOffset(lay, Said(lay, ts), FileString(slots[k], files[k].name)),
            Upto(HashesOfAll(files), k - 1),
            Upto(BytesOf(files, PlacedOf(files)), IndexIn(PlacedOf(files), k) - 1))

ImageParts(image, lay, ver, ts, visits, slots, files) ==
  /\ image.version = ver
  /\ image.data = FlattenSeq(BytesOf(files, PlacedOf(files)))
  /\ image.tocs = [i \in 1 .. Len(ts) |->
       [alias |-> ts[i].alias,
        root |-> Upto(ListedOf(visits, ts), IndexIn(visits, [toc |-> i, path |-> <<>>]) - 1)]]
  /\ image.folders = [x \in DOMAIN FolderTable(visits, ts) |->
       FolderEntry(lay, ts, visits, Said(lay, ts), FolderTable(visits, ts)[x])]
  /\ image.files = [k \in 1 .. Len(files) |-> FileEntryOf(lay, ts, slots, files, k)]
  /\ image.strings = Strings(lay, ts)
  /\ image.hashes = FlattenSeq(HashesOfAll(files))

LEMMA ImageIs ==
  ASSUME NEW ts, WholeArchive(ts), NEW lay, NEW ver, NEW sizes
  PROVE  LET visits == Visits(lay, ts)
         IN  ImageParts(ImageBy(sizes, lay, ver, ts), lay, ver, ts, visits,
                        SlotTable(visits, ts), FilesOf(visits, ts))
<1> DEFINE visits == Visits(lay, ts)
           slots == FlattenSeq([v \in DOMAIN visits |-> FolderSlots(visits[v], ts)])
           files == [k \in DOMAIN slots |-> FileAt(ts, slots[k])]
           placed == Enumerate(DOMAIN files, Placing(files))
           bytes == [r \in DOMAIN placed |-> Units(Stored(files[placed[r]]))]
           hashes == [k \in DOMAIN files |-> HashesOf(files[k])]
           listed == [v \in DOMAIN visits |-> Listed(visits[v], ts)]
           folders == FlattenSeq(listed)
           image == ImageBy(sizes, lay, ver, ts)
<1>1. /\ slots = SlotTable(visits, ts) /\ files = FilesOf(visits, ts)
  BY DEF SlotTable, FilesOf, SlotsOfVisits
<1>2. DOMAIN files = 1 .. Len(files) /\ Len(files) \in Nat
  <2>1. files \in Seq(Files)
    BY <1>1, VisitsAre, FilesArePlaced DEF PlacedFiles, WholeArchive
  <2> HIDE DEF files
  <2> QED BY <2>1
<1>3. placed = PlacedOf(files)
  <2> HIDE DEF files
  <2> QED BY <1>2 DEF PlacedOf
<1>4. bytes = BytesOf(files, PlacedOf(files)) /\ hashes = HashesOfAll(files)
  <2> HIDE DEF files, placed
  <2> QED BY <1>3 DEF BytesOf, HashesOfAll
<1>5. listed = ListedOf(visits, ts) /\ folders = FolderTable(visits, ts)
  BY DEF ListedOf, FolderTable
<1>6. DOMAIN ts = 1 .. Len(ts)
  BY ArchiveParts DEF WholeArchive
<1>7. /\ image.version = ver
      /\ image.data = FlattenSeq(bytes)
      /\ image.tocs = [i \in DOMAIN ts |->
            [alias |-> ts[i].alias, root |-> Upto(listed, IndexIn(visits, [toc |-> i, path |-> <<>>]) - 1)]]
      /\ image.folders = [k \in DOMAIN folders |-> FolderEntry(lay, ts, visits, Said(lay, ts), folders[k])]
      /\ image.files = [k \in DOMAIN files |->
           FileEntry(files[k], NameOffset(lay, Said(lay, ts), FileString(slots[k], files[k].name)),
                     Upto(hashes, k - 1), Upto(bytes, IndexIn(placed, k) - 1))]
      /\ image.strings = Strings(lay, ts)
      /\ image.hashes = FlattenSeq(hashes)
  BY DEF ImageBy
<1> HIDE DEF image, visits, slots, files, placed, bytes, hashes, listed, folders
<1>8. image.files = [k \in 1 .. Len(files) |-> FileEntryOf(lay, ts, slots, files, k)]
  BY <1>2, <1>3, <1>4, <1>7 DEF FileEntryOf
<1>9. ImageParts(image, lay, ver, ts, visits, slots, files)
  BY <1>3, <1>4, <1>5, <1>6, <1>7, <1>8 DEF ImageParts
<1> QED BY <1>1, <1>9 DEF image, visits

\* A reader of a written file finds the k-th file's bytes, name and hashes.
FileRead(image, x, file) ==
  LET e == image.files[x]
  IN  /\ e.name \in DOMAIN image.strings
      /\ e.data \in Nat
      /\ Decodings(image, e) # {}
      /\ LoadFile(image, e) = IndexFile(image, [file EXCEPT !.order = e.data])
      /\ x \notin CrcMismatches(image)
      /\ x \notin Sha1Mismatches(image)
      /\ image.version # 7 => x \notin Unhashed(image)

\* What the reader keeps of a file whatever the version.
LEMMA IndexedParts ==
  ASSUME NEW image, NEW n, NEW h, NEW d, NEW len, NEW file \in Files
  PROVE  LET e == FileEntry(file, n, h, d)
             i == IndexFile(image, e)
             f == IndexFile(image, file)
         IN  /\ i.name = n /\ i.hash = h /\ i.data = d /\ i.length = Len(Units(Stored(file)))
             /\ i.storage = file.storage
             /\ i.encrypted = f.encrypted /\ i.verify = f.verify /\ i.crc = f.crc
             /\ f.name = file.name /\ f.data = file.data /\ f.storage = file.storage
             /\ f.verify = (IF image.version >= 7 THEN file.verify ELSE "None")
             /\ f.crc = (IF image.version >= 6 THEN file.crc ELSE {})
             /\ f.encrypted = (file.encrypted /\ image.version >= 10)
BY DEF FileEntry, IndexFile, Files

\* The same with the order read.
LEMMA OrderedParts ==
  ASSUME NEW image, NEW file \in Files, NEW o
  PROVE  LET f == IndexFile(image, file)
         IN  IndexFile(image, [file EXCEPT !.order = o]) =
               [name |-> f.name, data |-> f.data, storage |-> f.storage, encrypted |-> f.encrypted,
                verify |-> f.verify, crc |-> f.crc, order |-> o]
<1> DEFINE g == [file EXCEPT !.order = o]
           i == IndexFile(image, g)
<1>1. file = [name |-> file.name, data |-> file.data, storage |-> file.storage, encrypted |-> file.encrypted,
              verify |-> file.verify, crc |-> file.crc, order |-> file.order]
  BY DEF Files
<1>2. g = [name |-> file.name, data |-> file.data, storage |-> file.storage, encrypted |-> file.encrypted,
           verify |-> file.verify, crc |-> file.crc, order |-> o]
  BY <1>1
<1> DEFINE b == g.encrypted /\ image.version >= 10
           v == IF image.version >= 7 THEN g.verify ELSE "None"
           c == IF image.version >= 6 THEN g.crc ELSE {}
<1>a. i = [g EXCEPT !.encrypted = b, !.verify = v, !.crc = c]
  <2> HIDE DEF g
  <2> QED BY DEF IndexFile
<1>b. g.encrypted = file.encrypted /\ g.verify = file.verify /\ g.crc = file.crc
  BY <1>2
<1>c. b = (file.encrypted /\ image.version >= 10)
  BY <1>b
<1>d. v = (IF image.version >= 7 THEN file.verify ELSE "None") /\ c = (IF image.version >= 6 THEN file.crc ELSE {})
  BY <1>b
<1> HIDE DEF g, b, v, c
<1>3. i = [name |-> file.name, data |-> file.data, storage |-> file.storage, encrypted |-> b,
           verify |-> v, crc |-> c, order |-> o]
  <2> HIDE DEF i
  <2> QED BY <1>a, <1>2
<1> HIDE DEF i
<1>4. LET f == IndexFile(image, file)
      IN  /\ f.name = file.name /\ f.data = file.data /\ f.storage = file.storage
          /\ f.verify = (IF image.version >= 7 THEN file.verify ELSE "None")
          /\ f.crc = (IF image.version >= 6 THEN file.crc ELSE {})
          /\ f.encrypted = (file.encrypted /\ image.version >= 10)
  BY DEF IndexFile, Files
<1>5. LET f == IndexFile(image, file)
      IN  f.verify = v /\ f.crc = c /\ f.encrypted = b
  BY <1>4, <1>c, <1>d
<1> QED BY <1>3, <1>4, <1>5 DEF i, g

\* A whole file has its own bytes among those of its checksum.
LEMMA WholeFile ==
  ASSUME NEW ts, WholeArchive(ts), NEW visit \in VisitsOf(ts), NEW k \in 1 .. Len(FolderAt(ts, visit).files)
  PROVE  LET file == FolderAt(ts, visit).files[k]
         IN  /\ k \in DOMAIN FolderAt(ts, visit).files
             /\ file \in Files
             /\ file.crc # {} => Stored(file) \in file.crc
<1>1. FolderAt(ts, visit).files \in Seq(Files) /\ visit.toc \in DOMAIN ts /\ visit.path \in DOMAIN ts[visit.toc].tree
  BY VisitParts DEF WholeArchive
<1> DEFINE T == FolderAt(ts, visit).files
<1>2. k \in DOMAIN T /\ T[k] \in Files
  <2> HIDE DEF T
  <2>1. k \in 1 .. Len(T) /\ T \in Seq(Files)
    BY <1>1 DEF T
  <2> QED BY <2>1
<1>3. Whole(ts[visit.toc].tree)
  BY <1>1 DEF WholeArchive
<1>4. T = ts[visit.toc].tree[visit.path].files
  BY DEF FolderAt
<1>5. T[k].crc # {} => Stored(T[k]) \in T[k].crc
  <2> HIDE DEF T
  <2> QED BY <1>1, <1>2, <1>3, <1>4 DEF Whole
<1> QED BY <1>2, <1>5

LEMMA FileIsRead ==
  ASSUME NEW ts, WholeArchive(ts), NEW visits, Visited(ts, visits),
         NEW lay \in Layouts, NEW ver \in Nat, NEW image,
         ImageParts(image, lay, ver, ts, visits, SlotTable(visits, ts), FilesOf(visits, ts)),
         NEW x, NEW w, NEW k, IsFileOf(visits, ts, x, w, k)
  PROVE  x \in DOMAIN image.files /\ FileRead(image, x, FolderAt(ts, visits[w]).files[k])
<1> DEFINE files == FilesOf(visits, ts)
           slots == SlotTable(visits, ts)
           placed == PlacedOf(files)
           file == FolderAt(ts, visits[w]).files[k]
           u == Units(Stored(file))
           e == image.files[x]
           n == NameOffset(lay, Said(lay, ts), FileString(visits[w], file.name))
           h == Upto(HashesOfAll(files), x - 1)
           d == Upto(BytesOf(files, placed), IndexIn(placed, x) - 1)
           i == IndexFile(image, e)
           f == IndexFile(image, file)
<1>1. PlacedFiles(visits, ts)
  BY FilesArePlaced DEF WholeArchive
<1>2. /\ files \in Seq(Files) /\ x \in 1 .. Len(files) /\ files[x] = file
      /\ slots[x] = [toc |-> visits[w].toc, path |-> visits[w].path, file |-> k]
  BY <1>1 DEF PlacedFiles
<1>3. w \in 1 .. Len(visits) /\ k \in 1 .. Len(FolderAt(ts, visits[w]).files) /\ visits[w] \in VisitsOf(ts)
  BY DEF IsFileOf, Visited
<1>4. /\ k \in DOMAIN FolderAt(ts, visits[w]).files
      /\ file \in Files /\ (file.crc # {} => Stored(file) \in file.crc)
  BY <1>3, WholeFile
<1>5. FileString(slots[x], file.name) = FileString(visits[w], file.name)
  BY <1>2 DEF FileString
<1>6. image.files = [q \in 1 .. Len(files) |-> FileEntryOf(lay, ts, slots, files, q)]
  BY DEF ImageParts
<1>7. e = FileEntry(file, n, h, d) /\ DOMAIN image.files = 1 .. Len(files)
  <2>1. e = FileEntryOf(lay, ts, slots, files, x) /\ DOMAIN image.files = 1 .. Len(files)
    <3> HIDE DEF files, slots
    <3> QED BY <1>2, <1>6
  <2>2. FileEntryOf(lay, ts, slots, files, x) = FileEntry(file, n, h, d)
    <3> HIDE DEF file, files, slots
    <3> QED BY <1>2, <1>5 DEF FileEntryOf
  <2> QED BY <2>1, <2>2
<1>8. n \in DOMAIN image.strings /\ Last(image.strings[n]) = file.name
  BY <1>3, <1>4, FileNameFound DEF ImageParts
<1>9. PlacedIn(placed, Len(files))
  <2> HIDE DEF files
  <2> QED BY <1>2, AllArePlaced DEF PlacedOf
<1>10. /\ d \in Nat /\ u \in Seq(UnitsIn) /\ Len(u) \in Nat
       /\ SubSeq(image.data, d + 1, d + Len(u)) = u
  <2>1. image.data = FlattenSeq(BytesOf(files, placed))
    BY DEF ImageParts
  <2> HIDE DEF files, placed
  <2>2. Units(Stored(files[x])) = u
    BY <1>2
  <2> HIDE DEF u
  <2>3. /\ d \in Nat /\ u \in Seq(UnitsIn) /\ Len(u) \in Nat
        /\ SubSeq(FlattenSeq(BytesOf(files, placed)), d + 1, d + Len(u)) = u
    BY <1>2, <1>9, <2>2, BytesFound
  <2> QED BY <2>1, <2>3
<1>11. /\ i.name = n /\ i.hash = h /\ i.data = d /\ i.length = Len(u) /\ i.storage = file.storage
       /\ i.encrypted = f.encrypted /\ i.verify = f.verify /\ i.crc = f.crc
       /\ f.name = file.name /\ f.data = file.data /\ f.storage = file.storage
       /\ f.verify = (IF image.version >= 7 THEN file.verify ELSE "None")
       /\ f.crc = (IF image.version >= 6 THEN file.crc ELSE {})
  <2> HIDE DEF file, n, h, d, e, u
  <2> QED BY <1>4, <1>7, IndexedParts DEF u
<1>12. e.name = n /\ e.data = d /\ e.storage = file.storage /\ e.length = Len(u) /\ e.hash = h
  <2> HIDE DEF file, n, h, d, e, u
  <2> QED BY <1>7 DEF FileEntry, u
<1>13. StoredOf(image, i) = u /\ StoredOf(image, e) = u
  <2> HIDE DEF file, n, h, d, e, u, i
  <2> QED BY <1>10, <1>11, <1>12 DEF StoredOf
<1>14. file.data \in Data /\ file.storage \in Storages /\ Stored(file) = [data |-> file.data, storage |-> file.storage]
  BY <1>4, StoredTyped
<1>15. \A c \in Data : Units([data |-> c, storage |-> file.storage]) = u <=> c = file.data
  <2> HIDE DEF file
  <2> QED BY <1>14, UnitsTell DEF u
<1>16. Decodings(image, i) = {file.data} /\ Decodings(image, e) = {file.data}
  <2> HIDE DEF file, n, h, d, e, u, i, f
  <2> QED BY <1>11, <1>12, <1>13, <1>14, <1>15 DEF Decodings
<1> HIDE DEF file, n, h, d, e, u, i, f, files, slots, placed
<1>17. LoadFile(image, e) = IndexFile(image, [file EXCEPT !.order = e.data])
  <2>1. IndexFile(image, [file EXCEPT !.order = e.data]) =
          [name |-> f.name, data |-> f.data, storage |-> f.storage, encrypted |-> f.encrypted,
           verify |-> f.verify, crc |-> f.crc, order |-> e.data]
    BY <1>4, OrderedParts DEF f
  <2>2. LoadFile(image, e) =
          [name |-> Last(image.strings[i.name]), data |-> CHOOSE c \in Decodings(image, i) : TRUE,
           storage |-> i.storage, encrypted |-> i.encrypted, verify |-> i.verify, crc |-> i.crc,
           order |-> i.data]
    BY DEF LoadFile, i
  <2>3. (CHOOSE c \in Decodings(image, i) : TRUE) = file.data
    BY <1>16
  <2> QED BY <1>8, <1>11, <1>12, <2>1, <2>2, <2>3
<1>18. x \in DOMAIN image.files
  BY <1>2, <1>7
<1>19. x \notin CrcMismatches(image)
  <2> SUFFICES ASSUME x \in CrcMismatches(image) PROVE FALSE
    OBVIOUS
  <2>1. i.crc # {} /\ \A c \in i.crc : Units(c) # StoredOf(image, i)
    <3>1. Entries(image)[x] = i
      BY <1>18 DEF Entries, i, e
    <3> QED BY <3>1 DEF CrcMismatches
  <2>2. i.crc \in {file.crc, {}}
    BY <1>11
  <2>3. Stored(file) \in i.crc
    BY <1>4, <2>1, <2>2
  <2> QED BY <1>13, <2>1, <2>3 DEF u
<1>20. image.version = ver
  BY DEF ImageParts
<1>21. Entries(image)[x] = i
  BY <1>18 DEF Entries, i, e
<1>a. e.name \in DOMAIN image.strings /\ e.data \in Nat /\ Decodings(image, e) # {}
  BY <1>8, <1>10, <1>12, <1>16
<1>b. ASSUME x \notin Sha1Mismatches(image), image.version # 7 => x \notin Unhashed(image)
      PROVE  FileRead(image, x, file)
  BY <1>a, <1>b, <1>17, <1>19 DEF FileRead, e
<1>22. CASE i.verify # "SHA1Blocks"
  <2>1. RecordedHashes(image, i) = <<>>
    BY <1>22 DEF RecordedHashes
  <2>2. x \notin Sha1Mismatches(image) /\ x \notin Unhashed(image)
    BY <1>21, <1>22, <2>1 DEF Sha1Mismatches, Unhashed
  <2> QED BY <1>b, <1>18, <2>2 DEF file
<1>23. CASE i.verify = "SHA1Blocks"
  <2>1. image.version >= 7 /\ file.verify = "SHA1Blocks"
    BY <1>11, <1>20, <1>23
  <2>2. /\ h \in Nat /\ BlockCount(Len(u)) \in Nat \ {0}
        /\ h + BlockCount(Len(u)) <= Len(image.hashes)
        /\ SubSeq(image.hashes, h + 1, h + BlockCount(Len(u))) = Blocks(u)
        /\ Blocks(u) # <<>>
    <3>1. image.hashes = FlattenSeq(HashesOfAll(files))
      BY DEF ImageParts, files
    <3>2. files[x].verify = "SHA1Blocks" /\ Units(Stored(files[x])) = u
      BY <1>2, <2>1 DEF u
    <3> QED BY <1>2, <3>1, <3>2, HashesFound DEF h
  <2>3. RecordedHashes(image, i) = IF image.version >= 8 THEN Blocks(u) ELSE <<>>
    BY <1>11, <1>23, <2>2 DEF RecordedHashes
  <2>4. x \notin Sha1Mismatches(image)
    <3> SUFFICES ASSUME x \in Sha1Mismatches(image) PROVE FALSE
      OBVIOUS
    <3>1. RecordedHashes(image, i) # <<>> /\ RecordedHashes(image, i) # Blocks(StoredOf(image, e))
      BY <1>21 DEF Sha1Mismatches, e
    <3> QED BY <1>13, <2>3, <3>1
  <2>5. image.version # 7 => x \notin Unhashed(image)
    <3> SUFFICES ASSUME image.version # 7, x \in Unhashed(image) PROVE FALSE
      OBVIOUS
    <3>1. RecordedHashes(image, i) = <<>>
      BY <1>21 DEF Unhashed
    <3>2. image.version >= 8
      BY <1>20, <2>1
    <3> QED BY <2>2, <2>3, <3>1, <3>2
  <2> QED BY <1>b, <1>18, <2>4, <2>5 DEF file
<1> QED BY <1>18, <1>22, <1>23 DEF file

(***************************************************************************)
(* The folder table and the roots.                                         *)
(***************************************************************************)
\* The entry with index x is that of the w-th visit.
FolderRead(image, ts, visits, x, w) ==
  LET e == image.folders[x]
  IN  /\ e.name \in DOMAIN image.strings /\ image.strings[e.name] = visits[w].path
      /\ e.folders = Start(visits, ts, w)
      /\ e.folderEnd = Start(visits, ts, w) + Len(Children(visits[w], ts))
      /\ e.folderEnd <= Len(image.folders)
      /\ e.files = Before(visits, ts, w)
      /\ e.fileEnd = Before(visits, ts, w) + Len(FolderAt(ts, visits[w]).files)
      /\ e.fileEnd <= Len(image.files)

LEMMA VisitIndex ==
  ASSUME NEW ts, NEW visits, Visited(ts, visits), NEW w \in 1 .. Len(visits)
  PROVE  IndexIn(visits, visits[w]) = w
<1>1. DOMAIN visits = 1 .. Len(visits) /\ \A u, v \in 1 .. Len(visits) : visits[u] = visits[v] => u = v
  <2> DEFINE V == VisitsOf(ts)
  <2>1. visits \in Seq(V)
    BY DEF Visited
  <2> HIDE DEF V
  <2>2. DOMAIN visits = 1 .. Len(visits)
    BY <2>1
  <2> QED BY <2>2 DEF Visited
<1> QED BY <1>1 DEF IndexIn

LEMMA VisitedOnce ==
  ASSUME NEW ts, NEW visits, Visited(ts, visits), NEW visit \in VisitsOf(ts)
  PROVE  \E w \in 1 .. Len(visits) : visits[w] = visit /\ IndexIn(visits, visit) = w
<1>1. PICK w \in 1 .. Len(visits) : visits[w] = visit
  BY DEF Visited
<1> QED BY <1>1, VisitIndex

LEMMA FoldersRoom ==
  ASSUME NEW ts, IsArchive(ts), NEW visits, Visited(ts, visits), RootsLead(visits), NEW w \in 1 .. Len(visits)
  PROVE  visits[w].toc + Upto(ChildrenOf(visits, ts), w) <= Len(FolderTable(visits, ts))
<1> DEFINE a == ListedOf(visits, ts)
<1>1. visits \in Seq(VisitsOf(ts)) /\ Len(visits) \in Nat
  BY DEF Visited
<1>2. a \in Seq(Seq(VisitsOf(ts))) /\ Len(a) = Len(visits)
  BY <1>1, TablesAre DEF TablesTyped
<1>3. Counters(a) /\ Ordered(a)
  BY <1>2, CountersGrow, CountersOrdered
<1>4. Upto(a, w) = visits[w].toc + Upto(ChildrenOf(visits, ts), w)
  BY <1>1, RootsAreCounted DEF RootsCounted
<1> HIDE DEF a
<1>5. w \in 0 .. Len(a) /\ Len(a) \in 0 .. Len(a) /\ w <= Len(a)
  BY <1>1, <1>2
<1>6. Upto(a, w) <= Len(FlattenSeq(a))
  BY <1>3, <1>5 DEF Counters, Ordered
<1> QED BY <1>4, <1>6 DEF a, FolderTable

LEMMA FolderIsRead ==
  ASSUME NEW ts, WholeArchive(ts), NEW visits, Visited(ts, visits), RootsLead(visits), ParentsLead(visits),
         NEW lay \in Layouts, NEW ver, NEW image,
         ImageParts(image, lay, ver, ts, visits, SlotTable(visits, ts), FilesOf(visits, ts)),
         NEW x \in 1 .. Len(FolderTable(visits, ts)), NEW w \in 1 .. Len(visits),
         FolderTable(visits, ts)[x] = visits[w]
  PROVE  /\ DOMAIN image.folders = 1 .. Len(FolderTable(visits, ts))
         /\ FolderRead(image, ts, visits, x, w)
<1> DEFINE table == FolderTable(visits, ts)
           said == Said(lay, ts)
           children == [v \in DOMAIN visits |-> Children(visits[v], ts)]
           slots == [v \in DOMAIN visits |-> FolderSlots(visits[v], ts)]
           files == FilesOf(visits, ts)
           e == image.folders[x]
<1>1. IsArchive(ts) /\ PlacedFolders(visits, ts) /\ PlacedFiles(visits, ts)
  BY FoldersArePlaced, FilesArePlaced DEF WholeArchive
<1>2. DOMAIN table = 1 .. Len(table) /\ Len(table) \in Nat
  <2> DEFINE V == VisitsOf(ts)
  <2>1. table \in Seq(V)
    BY <1>1 DEF PlacedFolders
  <2> HIDE DEF V, table
  <2> QED BY <2>1
<1>3. image.folders = [k \in 1 .. Len(table) |-> FolderEntry(lay, ts, visits, said, table[k])]
  BY <1>2 DEF ImageParts
<1>4. e = FolderEntry(lay, ts, visits, said, visits[w]) /\ DOMAIN image.folders = 1 .. Len(table)
      /\ Len(image.folders) = Len(table)
  <2> HIDE DEF table, said
  <2> QED BY <1>2, <1>3 DEF table
<1>5. IndexIn(visits, visits[w]) = w
  BY VisitIndex
<1>6. children = ChildrenOf(visits, ts) /\ slots = SlotsOfVisits(visits, ts)
  BY DEF ChildrenOf, SlotsOfVisits
<1>7. /\ e.name = NameOffset(lay, said, FolderString(visits[w]))
      /\ e.folders = visits[w].toc + Upto(children, w - 1)
      /\ e.folderEnd = visits[w].toc + Upto(children, w)
      /\ e.files = Upto(slots, w - 1) /\ e.fileEnd = Upto(slots, w)
  <2> HIDE DEF e, said
  <2> QED BY <1>4, <1>5 DEF FolderEntry
<1>8. e.name \in DOMAIN image.strings /\ image.strings[e.name] = visits[w].path
  <2>1. visits[w] \in VisitsOf(ts)
    BY <1>1 DEF Visited, TablesTyped
  <2> QED BY <1>7, <2>1, FolderNameFound DEF ImageParts
<1> HIDE DEF children, slots, e, said, table
<1>9. e.folders = Start(visits, ts, w) /\ e.folderEnd = Start(visits, ts, w) + Len(Children(visits[w], ts))
  BY <1>1, <1>6, <1>7 DEF Start, PlacedFolders
<1>10. e.folderEnd <= Len(image.folders)
  BY <1>1, <1>4, <1>6, <1>7, FoldersRoom DEF table
<1>11. e.files = Before(visits, ts, w) /\ e.fileEnd = Before(visits, ts, w) + Len(FolderAt(ts, visits[w]).files)
  BY <1>1, <1>6, <1>7 DEF Before, PlacedFiles
<1>12. e.fileEnd <= Len(image.files)
  <2>1. Len(image.files) = Len(files)
    <3>1. image.files = [k \in 1 .. Len(files) |-> FileEntryOf(lay, ts, SlotTable(visits, ts), files, k)]
      BY DEF ImageParts
    <3>2. Len(files) \in Nat
      <4>1. files \in Seq(Files)
        BY <1>1 DEF PlacedFiles
      <4> HIDE DEF files
      <4> QED BY <4>1
    <3> HIDE DEF files
    <3> QED BY <3>1, <3>2
  <2>2. Upto(slots, w) <= Len(files)
    BY <1>1, <1>6 DEF PlacedFiles
  <2> QED BY <1>7, <2>1, <2>2
<1>13. FolderRead(image, ts, visits, x, w)
  BY <1>8, <1>9, <1>10, <1>11, <1>12 DEF FolderRead, e
<1> QED BY <1>4, <1>13 DEF table

\* A TOC is read from its root.
LEMMA RootIsRead ==
  ASSUME NEW ts, WholeArchive(ts), NEW visits, Visited(ts, visits), RootsLead(visits), ParentsLead(visits),
         NEW lay, NEW ver, NEW image,
         ImageParts(image, lay, ver, ts, visits, SlotTable(visits, ts), FilesOf(visits, ts)),
         NEW i \in 1 .. Len(ts)
  PROVE  /\ DOMAIN image.tocs = 1 .. Len(ts) /\ image.tocs[i].alias = ts[i].alias
         /\ image.tocs[i].root + 1 \in 1 .. Len(FolderTable(visits, ts))
         /\ FolderTable(visits, ts)[image.tocs[i].root + 1] = [toc |-> i, path |-> <<>>]
<1> DEFINE root == [toc |-> i, path |-> <<>>]
<1>1. IsArchive(ts) /\ PlacedFolders(visits, ts) /\ root \in VisitsOf(ts)
  BY FoldersArePlaced, RootVisited DEF WholeArchive
<1>2. PICK w \in 1 .. Len(visits) : visits[w] = root /\ IndexIn(visits, root) = w
  <2> HIDE DEF root
  <2> QED BY <1>1, VisitedOnce
<1>3. /\ DOMAIN image.tocs = 1 .. Len(ts) /\ image.tocs[i].alias = ts[i].alias
      /\ image.tocs[i].root = Upto(ListedOf(visits, ts), w - 1)
  BY <1>2 DEF ImageParts
<1>4. visits[w].path = <<>>
  BY <1>2
<1>5. /\ Start(visits, ts, w) = Upto(ListedOf(visits, ts), w - 1) + 1
      /\ Start(visits, ts, w) \in 1 .. Len(FolderTable(visits, ts))
      /\ FolderTable(visits, ts)[Start(visits, ts, w)] = visits[w]
  BY <1>1, <1>2, <1>4 DEF PlacedFolders
<1> QED BY <1>2, <1>3, <1>5

(***************************************************************************)
(* Paths relative to a folder.                                             *)
(***************************************************************************)
LEMMA LedPath ==
  ASSUME NEW E, NEW n \in E, NEW r \in Seq(E)
  PROVE  /\ <<n>> \o r \in Seq(E) /\ <<n>> \o r # <<>>
         /\ (<<n>> \o r)[1] = n /\ Tail(<<n>> \o r) = r
         /\ Len(<<n>> \o r) = Len(r) + 1
<1> DEFINE p == <<n>> \o r
<1>1. <<n>> \in Seq(E) /\ Len(<<n>>) = 1 /\ Len(r) \in Nat /\ DOMAIN r = 1 .. Len(r)
  OBVIOUS
<1>2. /\ p \in Seq(E) /\ Len(p) = Len(r) + 1
      /\ \A i \in 1 .. Len(r) + 1 : p[i] = IF i = 1 THEN n ELSE r[i - 1]
  BY <1>1
<1> HIDE DEF p
<1>3. p # <<>> /\ p[1] = n
  BY <1>1, <1>2
<1>4. Tail(p) \in Seq(E) /\ Len(Tail(p)) = Len(r)
  BY <1>1, <1>2, <1>3
<1>5. \A i \in 1 .. Len(r) : Tail(p)[i] = r[i]
  BY <1>1, <1>2, <1>3
<1>6. Tail(p) = r
  BY <1>4, <1>5, SeqEqual
<1> QED BY <1>2, <1>3, <1>6 DEF p

LEMMA PathIsLed ==
  ASSUME NEW E, NEW p \in Seq(E), p # <<>>
  PROVE  p[1] \in E /\ Tail(p) \in Seq(E) /\ p = <<p[1]>> \o Tail(p)
<1>1. Len(p) \in Nat /\ Len(p) # 0 /\ DOMAIN p = 1 .. Len(p)
  OBVIOUS
<1>2. p[1] \in E
  BY <1>1
<1>3. Tail(p) \in Seq(E) /\ Len(Tail(p)) = Len(p) - 1 /\ \A i \in 1 .. Len(p) - 1 : Tail(p)[i] = p[i + 1]
  BY <1>1
<1> DEFINE r == Tail(p)
           q == <<p[1]>> \o r
<1>4. <<p[1]>> \in Seq(E) /\ Len(<<p[1]>>) = 1
  BY <1>2
<1> HIDE DEF r
<1>5. q \in Seq(E) /\ Len(q) = 1 + Len(r) /\ \A i \in 1 .. 1 + Len(r) : q[i] = IF i = 1 THEN p[1] ELSE r[i - 1]
  <2> DEFINE a == <<p[1]>>
  <2>1. a \in Seq(E) /\ Len(a) = 1 /\ a[1] = p[1] /\ r \in Seq(E)
    BY <1>3, <1>4 DEF r
  <2> HIDE DEF a
  <2>2. /\ a \o r \in Seq(E) /\ Len(a \o r) = 1 + Len(r)
        /\ \A i \in 1 .. 1 + Len(r) : (a \o r)[i] = IF i <= 1 THEN a[i] ELSE r[i - 1]
    <3>1. \A i \in 1 .. Len(a) + Len(r) : (a \o r)[i] = IF i <= Len(a) THEN a[i] ELSE r[i - Len(a)]
      BY <2>1, ConcatProperties
    <3>2. a \o r \in Seq(E) /\ Len(a \o r) = Len(a) + Len(r)
      BY <2>1, ConcatProperties
    <3> QED BY <2>1, <3>1, <3>2
  <2>3. Len(r) \in Nat
    BY <2>1
  <2>4. \A i \in 1 .. 1 + Len(r) : (a \o r)[i] = IF i = 1 THEN p[1] ELSE r[i - 1]
    BY <2>1, <2>2, <2>3
  <2> QED BY <2>2, <2>4 DEF a
<1> HIDE DEF q
<1>6. Len(q) = Len(p) /\ \A i \in 1 .. Len(p) : q[i] = p[i]
  <2>1. Len(r) = Len(p) - 1
    BY <1>3 DEF r
  <2>2. Len(q) = Len(p)
    BY <1>1, <1>5, <2>1
  <2>3. ASSUME NEW i \in 1 .. Len(p) PROVE q[i] = p[i]
    <3>1. CASE i = 1
      BY <1>1, <1>5, <2>1, <3>1
    <3>2. CASE i # 1
      <4>1. i - 1 \in 1 .. Len(p) - 1 /\ (i - 1) + 1 = i /\ i \in 1 .. 1 + Len(r)
        BY <1>1, <2>1, <3>2
      <4>2. r[i - 1] = p[(i - 1) + 1]
        BY <1>3, <4>1 DEF r
      <4> QED BY <1>5, <3>2, <4>1, <4>2
    <3> QED BY <3>1, <3>2
  <2> QED BY <2>2, <2>3
<1>7. q = p
  BY <1>5, <1>6, SeqEqual
<1> QED BY <1>2, <1>3, <1>7 DEF q, r

LEMMA StepDown ==
  ASSUME NEW E, NEW q \in Seq(E), NEW n \in E, NEW r \in Seq(E)
  PROVE  Append(q, n) \o r = q \o (<<n>> \o r) /\ q \o <<>> = q
<1> DEFINE a == Append(q, n) \o r
           b == q \o (<<n>> \o r)
<1>1. q \o <<>> = q
  OBVIOUS
<1>2. Append(q, n) = q \o <<n>>
  OBVIOUS
<1>3. <<n>> \in Seq(E)
  OBVIOUS
<1>4. (q \o <<n>>) \o r = q \o (<<n>> \o r)
  <2> DEFINE m == <<n>>
  <2>1. m \in Seq(E)
    BY <1>3
  <2> HIDE DEF m
  <2>2. (q \o m) \o r = q \o (m \o r)
    BY <2>1, ConcatAssociative
  <2> QED BY <2>2 DEF m
<1> QED BY <1>1, <1>2, <1>4

Rest(ts, visit) == {r \in Seq(Names) : visit.path \o r \in DOMAIN ts[visit.toc].tree}
Under(visit, r) == [toc |-> visit.toc, path |-> visit.path \o r]

NameOf(ts, visit, j) == FolderAt(ts, visit).folders[j].name

LEMMA RestHere ==
  ASSUME NEW ts, IsArchive(ts), NEW visit \in VisitsOf(ts)
  PROVE  /\ <<>> \in Rest(ts, visit) /\ Under(visit, <<>>) = visit
         /\ \A r \in Rest(ts, visit) : Under(visit, r) \in VisitsOf(ts)
<1>1. /\ visit.toc \in DOMAIN ts /\ visit.path \in DOMAIN ts[visit.toc].tree
      /\ visit = [toc |-> visit.toc, path |-> visit.path] /\ visit.path \in Seq(Names)
  BY VisitParts
<1>2. visit.path \o <<>> = visit.path /\ <<>> \in Seq(Names)
  BY <1>1
<1>3. <<>> \in Rest(ts, visit) /\ Under(visit, <<>>) = visit
  BY <1>1, <1>2 DEF Rest, Under
<1>4. ASSUME NEW r \in Rest(ts, visit) PROVE Under(visit, r) \in VisitsOf(ts)
  <2>1. visit.path \o r \in DOMAIN ts[visit.toc].tree
    BY DEF Rest
  <2> QED BY <1>1, <2>1, VisitIn DEF Under
<1> QED BY <1>3, <1>4

\* What is below a child is below the folder, one name further.
LEMMA RestOfChild ==
  ASSUME NEW ts, IsArchive(ts), NEW visit \in VisitsOf(ts), NEW j \in DOMAIN FolderAt(ts, visit).folders,
         NEW r \in Seq(Names)
  PROVE  LET p == <<NameOf(ts, visit, j)>> \o r
         IN  /\ NameOf(ts, visit, j) \in Names
             /\ r \in Rest(ts, Child(visit, ts, j)) <=> p \in Rest(ts, visit)
             /\ Under(Child(visit, ts, j), r) = Under(visit, p)
<1> DEFINE n == NameOf(ts, visit, j)
           T == FolderAt(ts, visit).folders
<1>1. T \in Seq(ChildEntries) /\ visit.path \in Seq(Names)
  BY VisitParts
<1>2. n \in Names
  <2> HIDE DEF T
  <2>1. j \in DOMAIN T
    BY DEF T
  <2>2. T[j] \in ChildEntries
    BY <1>1, <2>1
  <2> QED BY <2>2 DEF ChildEntries, NameOf, T
<1>3. Child(visit, ts, j) = [toc |-> visit.toc, path |-> Append(visit.path, n)]
  BY DEF Child, NameOf
<1> HIDE DEF n
<1>4. Append(visit.path, n) \o r = visit.path \o (<<n>> \o r) /\ <<n>> \o r \in Seq(Names)
  <2> DEFINE q == visit.path
  <2>1. q \in Seq(Names)
    BY <1>1
  <2> HIDE DEF q
  <2>2. Append(q, n) \o r = q \o (<<n>> \o r)
    BY <1>2, <2>1, StepDown
  <2>3. <<n>> \o r \in Seq(Names)
    BY <1>2, LedPath
  <2> QED BY <2>2, <2>3 DEF q
<1>5. Child(visit, ts, j).toc = visit.toc /\ Child(visit, ts, j).path = Append(visit.path, n)
  BY <1>3
<1> QED BY <1>2, <1>4, <1>5 DEF Rest, Under, n

\* All that is below a folder is it or below a child.
LEMMA RestIsLed ==
  ASSUME NEW ts, IsArchive(ts), NEW visit \in VisitsOf(ts), NEW p \in Rest(ts, visit), p # <<>>
  PROVE  /\ Tail(p) \in Seq(Names)
         /\ \E j \in DOMAIN FolderAt(ts, visit).folders : p = <<NameOf(ts, visit, j)>> \o Tail(p)
<1> DEFINE t == ts[visit.toc].tree
           q == visit.path
           s == q \o p
<1>1. p \in Seq(Names) /\ s \in DOMAIN t
  BY DEF Rest
<1>2. q \in Seq(Names) /\ IsTree(t)
  <2>1. visit.toc \in 1 .. Len(ts)
    BY VisitParts
  <2> QED BY <2>1, VisitParts, ArchiveParts
<1>3. p[1] \in Names /\ Tail(p) \in Seq(Names) /\ p = <<p[1]>> \o Tail(p)
  BY <1>1, PathIsLed
<1>4. /\ s \in Seq(Names) /\ Len(s) = Len(q) + Len(p) /\ Len(q) \in Nat /\ Len(p) \in Nat \ {0}
      /\ \A i \in 1 .. Len(s) : s[i] = IF i <= Len(q) THEN q[i] ELSE p[i - Len(q)]
  BY <1>1, <1>2
<1> HIDE DEF s, q
<1>5. Len(q) \in 0 .. Len(s) /\ Len(q) < Len(s) /\ Len(q) + 1 \in 1 .. Len(s)
  BY <1>4
<1>6. SubSeq(s, 1, Len(q)) = q
  <2>1. SubSeq(s, 1, Len(q)) \in Seq(Names) /\ Len(SubSeq(s, 1, Len(q))) = Len(q)
        /\ \A i \in 1 .. Len(q) : SubSeq(s, 1, Len(q))[i] = s[i]
    BY <1>4, <1>5, PrefixParts
  <2>2. \A i \in 1 .. Len(q) : s[i] = q[i]
    BY <1>4
  <2> QED BY <1>2, <2>1, <2>2, SeqEqual DEF q
<1>7. s[Len(q) + 1] = p[1]
  <2>1. ~ (Len(q) + 1 <= Len(q)) /\ (Len(q) + 1) - Len(q) = 1
    BY <1>4
  <2> QED BY <1>4, <1>5, <2>1
<1>8. \E i \in DOMAIN t[q].folders : t[q].folders[i].name = p[1]
  <2> HIDE DEF t
  <2>1. \E i \in DOMAIN t[SubSeq(s, 1, Len(q))].folders : t[SubSeq(s, 1, Len(q))].folders[i].name = s[Len(q) + 1]
    BY <1>1, <1>2, <1>5, FoldersAbove DEF t
  <2> QED BY <1>6, <1>7, <2>1
<1>9. \E i \in DOMAIN FolderAt(ts, visit).folders : NameOf(ts, visit, i) = p[1]
  BY <1>8 DEF FolderAt, NameOf, q
<1> QED BY <1>3, <1>9

(***************************************************************************)
(* What a reader makes of the tables.                                      *)
(***************************************************************************)
LeafOf(image, k) == Last(image.strings[image.folders[k].name])

OwnOf(image, entry) ==
  [folders |-> [k \in 1 .. entry.folderEnd - entry.folders |->
                  [name |-> LeafOf(image, entry.folders + k)]],
   files   |-> [k \in 1 .. entry.fileEnd - entry.files |->
                  LoadFile(image, image.files[entry.files + k])]]

\* What load says of index x.
LoadAt(image, load, x) ==
  LET entry    == image.folders[x]
      below    == entry.folders + 1 .. entry.folderEnd
      Found(k) == {<<LeafOf(image, k)>> \o p : p \in DOMAIN load[k]}
  IN  [p \in {<<>>} \cup UNION {Found(k) : k \in below} |->
         IF p = <<>> THEN OwnOf(image, entry)
         ELSE load[CHOOSE k \in below : p \in Found(k)][Tail(p)]]

IsLoad(image, load) == load = [x \in DOMAIN image.folders |-> LoadAt(image, load, x)]

LEMMA LoadIs ==
  ASSUME NEW image, \E load : IsLoad(image, load)
  PROVE  IsLoad(image, LoadFolders(image))
<1>1. LoadFolders(image) = CHOOSE load : IsLoad(image, load)
  BY DEF LoadFolders, IsLoad, LoadAt, OwnOf, LeafOf
<1> QED BY <1>1

\* The folder of a visit as it is read, and all below it.
ReadFolder(image, ts, visits, visit) ==
  [folders |-> FolderAt(ts, visit).folders,
   files   |-> [k \in 1 .. Len(FolderAt(ts, visit).files) |->
                  LoadFile(image, image.files[Before(visits, ts, IndexIn(visits, visit)) + k])]]

ReadTree(image, ts, visits, visit) ==
  [r \in Rest(ts, visit) |-> ReadFolder(image, ts, visits, Under(visit, r))]

\* An image that was written of an archive.
WrittenOf(image, ts, visits) ==
  /\ WholeArchive(ts) /\ Visited(ts, visits) /\ RootsLead(visits) /\ ParentsLead(visits)
  /\ \E lay \in Layouts : \E ver \in Nat :
       ImageParts(image, lay, ver, ts, visits, SlotTable(visits, ts), FilesOf(visits, ts))

LEMMA EntryIsRead ==
  ASSUME NEW image, NEW ts, NEW visits, WrittenOf(image, ts, visits),
         NEW x \in 1 .. Len(FolderTable(visits, ts)), NEW w \in 1 .. Len(visits),
         FolderTable(visits, ts)[x] = visits[w]
  PROVE  /\ DOMAIN image.folders = 1 .. Len(FolderTable(visits, ts))
         /\ FolderRead(image, ts, visits, x, w)
<1>1. PICK lay \in Layouts, ver \in Nat :
        ImageParts(image, lay, ver, ts, visits, SlotTable(visits, ts), FilesOf(visits, ts))
  BY DEF WrittenOf
<1> QED BY <1>1, FolderIsRead DEF WrittenOf

LEMMA TableIs ==
  ASSUME NEW image, NEW ts, NEW visits, WrittenOf(image, ts, visits), NEW x \in 1 .. Len(FolderTable(visits, ts))
  PROVE  /\ FolderTable(visits, ts)[x] \in VisitsOf(ts)
         /\ \E w \in 1 .. Len(visits) : FolderTable(visits, ts)[x] = visits[w]
<1> DEFINE table == FolderTable(visits, ts)
           V == VisitsOf(ts)
<1>1. table \in Seq(V)
  BY FoldersArePlaced DEF WrittenOf, WholeArchive, PlacedFolders
<1>2. table[x] \in V
  <2> HIDE DEF V
  <2> QED BY <1>1
<1> QED BY <1>2, VisitedOnce DEF WrittenOf

\* The children of a visit in the folder table.
LEMMA ChildIsRead ==
  ASSUME NEW image, NEW ts, NEW visits, WrittenOf(image, ts, visits), NEW w \in 1 .. Len(visits),
         NEW j \in 1 .. Len(Children(visits[w], ts))
  PROVE  LET k == Start(visits, ts, w) + j
         IN  /\ k \in 1 .. Len(FolderTable(visits, ts))
             /\ FolderTable(visits, ts)[k] = Child(visits[w], ts, j)
             /\ j \in DOMAIN FolderAt(ts, visits[w]).folders
             /\ LeafOf(image, k) = NameOf(ts, visits[w], j)
<1> DEFINE k == Start(visits, ts, w) + j
<1>1. PlacedFolders(visits, ts) /\ visits[w] \in VisitsOf(ts) /\ IsArchive(ts)
  BY FoldersArePlaced DEF WrittenOf, WholeArchive, Visited
<1>2. k \in 1 .. Len(FolderTable(visits, ts)) /\ FolderTable(visits, ts)[k] = Child(visits[w], ts, j)
  BY <1>1 DEF PlacedFolders
<1>3. j \in DOMAIN FolderAt(ts, visits[w]).folders
  <2> DEFINE g == FolderAt(ts, visits[w]).folders
  <2>1. g \in Seq(ChildEntries) /\ Len(Children(visits[w], ts)) = Len(g)
    BY <1>1, VisitParts, ChildrenAre
  <2>2. DOMAIN g = 1 .. Len(g)
    <3> HIDE DEF g
    <3> QED BY <2>1 DEF g
  <2> QED BY <2>1, <2>2
<1>4. PICK u \in 1 .. Len(visits) : FolderTable(visits, ts)[k] = visits[u]
  <2> HIDE DEF k
  <2> QED BY <1>2, TableIs
<1>5. FolderRead(image, ts, visits, k, u)
  <2> HIDE DEF k
  <2> QED BY <1>2, <1>4, EntryIsRead
<1>6. LeafOf(image, k) = Last(visits[u].path)
  <2> HIDE DEF k
  <2> QED BY <1>5 DEF FolderRead, LeafOf
<1>7. Last(Child(visits[w], ts, j).path) = NameOf(ts, visits[w], j)
  BY <1>1, <1>3, ChildVisited DEF NameOf
<1> QED BY <1>2, <1>3, <1>4, <1>6, <1>7

\* What load makes of a folder if it has read the folders behind it.
LEMMA LoadStep ==
  ASSUME NEW image, NEW ts, NEW visits, WrittenOf(image, ts, visits),
         NEW x \in 1 .. Len(FolderTable(visits, ts)), NEW load,
         \A k \in x + 1 .. Len(FolderTable(visits, ts)) :
           load[k] = ReadTree(image, ts, visits, FolderTable(visits, ts)[k])
  PROVE  LoadAt(image, load, x) = ReadTree(image, ts, visits, FolderTable(visits, ts)[x])
<1> DEFINE L == Len(FolderTable(visits, ts))
<1>1. PICK w \in 1 .. Len(visits) : FolderTable(visits, ts)[x] = visits[w]
  BY TableIs
<1> DEFINE visit == visits[w]
           S == Start(visits, ts, w)
           n == Len(Children(visit, ts))
           entry == image.folders[x]
           below == entry.folders + 1 .. entry.folderEnd
           Found(k) == {<<LeafOf(image, k)>> \o p : p \in DOMAIN load[k]}
           R == Rest(ts, visit)
<1>2. IsArchive(ts) /\ visit \in VisitsOf(ts) /\ PlacedFolders(visits, ts)
  BY FoldersArePlaced DEF WrittenOf, WholeArchive, Visited
<1>3. FolderRead(image, ts, visits, x, w)
  BY <1>1, EntryIsRead
<1>4. S \in Nat /\ n \in Nat /\ x <= S
  <2>1. S \in Nat /\ x <= S
    BY <1>1, <1>2 DEF PlacedFolders
  <2>2. Children(visit, ts) \in Seq(VisitsOf(ts))
    BY <1>2, ChildrenAre
  <2> QED BY <2>1, <2>2, LenProperties
<1>0. below = S + 1 .. S + n
  <2>1. entry.folders = S /\ entry.folderEnd = S + n
    BY <1>3 DEF FolderRead
  <2> HIDE DEF entry, S, n
  <2> QED BY <2>1
<1> HIDE DEF below
<1>5. \A k \in below : k - S \in 1 .. n /\ S + (k - S) = k /\ k > x /\ k \in Nat
  BY <1>0, <1>4
<1>6. ASSUME NEW j \in 1 .. n
      PROVE  /\ S + j \in below /\ LeafOf(image, S + j) = NameOf(ts, visit, j)
             /\ j \in DOMAIN FolderAt(ts, visit).folders
             /\ load[S + j] = ReadTree(image, ts, visits, Child(visit, ts, j))
             /\ Found(S + j) = {<<NameOf(ts, visit, j)>> \o p : p \in Rest(ts, Child(visit, ts, j))}
  <2> DEFINE k == S + j
  <2>1. (k \in below /\ k \in x + 1 .. L) \/ ~ (k \in 1 .. L)
    BY <1>0, <1>4
  <2>2. k \in 1 .. L /\ FolderTable(visits, ts)[k] = Child(visit, ts, j)
        /\ j \in DOMAIN FolderAt(ts, visit).folders /\ LeafOf(image, k) = NameOf(ts, visit, j)
    BY ChildIsRead
  <2> HIDE DEF k, below, L
  <2>3. load[k] = ReadTree(image, ts, visits, Child(visit, ts, j))
    BY <2>1, <2>2 DEF L
  <2>4. DOMAIN load[k] = Rest(ts, Child(visit, ts, j))
    BY <2>3 DEF ReadTree
  <2>5. k \in below
    BY <2>1, <2>2
  <2> QED BY <2>2, <2>3, <2>4, <2>5 DEF k
<1>7. ASSUME NEW k \in below, NEW p \in Found(k)
      PROVE  /\ p \in R /\ p # <<>>
             /\ load[k][Tail(p)] = ReadFolder(image, ts, visits, Under(visit, p))
  <2> DEFINE j == k - S
             c == Child(visit, ts, j)
  <2>1. j \in 1 .. n /\ S + j = k
    BY <1>5
  <2> HIDE DEF j, S
  <2>2. /\ j \in DOMAIN FolderAt(ts, visit).folders /\ load[k] = ReadTree(image, ts, visits, c)
        /\ Found(k) = {<<NameOf(ts, visit, j)>> \o q : q \in Rest(ts, c)}
    <3> HIDE DEF Found, n
    <3> QED BY <1>6, <2>1
  <2>3. PICK q \in Rest(ts, c) : p = <<NameOf(ts, visit, j)>> \o q
    BY <2>2
  <2>4. q \in Seq(Names)
    BY DEF Rest
  <2>5. NameOf(ts, visit, j) \in Names /\ p \in R /\ Under(c, q) = Under(visit, p)
    BY <1>2, <2>2, <2>3, <2>4, RestOfChild
  <2>6. p # <<>> /\ Tail(p) = q
    BY <2>3, <2>4, <2>5, LedPath
  <2>7. load[k][q] = ReadFolder(image, ts, visits, Under(c, q))
    BY <2>2 DEF ReadTree
  <2> QED BY <2>5, <2>6, <2>7
<1>8. ASSUME NEW p \in R, p # <<>>
      PROVE  \E k \in below : p \in Found(k)
  <2>1. /\ Tail(p) \in Seq(Names)
        /\ \E j \in DOMAIN FolderAt(ts, visit).folders : p = <<NameOf(ts, visit, j)>> \o Tail(p)
    BY <1>2, <1>8, RestIsLed
  <2>2. PICK j \in DOMAIN FolderAt(ts, visit).folders : p = <<NameOf(ts, visit, j)>> \o Tail(p)
    BY <2>1
  <2>3. j \in 1 .. n
    <3> DEFINE g == FolderAt(ts, visit).folders
    <3>1. g \in Seq(ChildEntries) /\ n = Len(g)
      BY <1>2, VisitParts, ChildrenAre
    <3>2. DOMAIN g = 1 .. Len(g)
      <4> HIDE DEF g
      <4> QED BY <3>1 DEF g
    <3> QED BY <3>1, <3>2
  <2>4. Tail(p) \in Rest(ts, Child(visit, ts, j))
    <3> DEFINE r == Tail(p)
    <3> HIDE DEF r
    <3> QED BY <1>2, <2>1, <2>2, RestOfChild DEF r
  <2>5. S + j \in below /\ Found(S + j) = {<<NameOf(ts, visit, j)>> \o q : q \in Rest(ts, Child(visit, ts, j))}
    <3> HIDE DEF Found, below, S, n
    <3> QED BY <1>6, <2>3
  <2> QED BY <2>2, <2>4, <2>5
<1>9. <<>> \in R /\ Under(visit, <<>>) = visit
  BY <1>2, RestHere
<1>10. {<<>>} \cup UNION {Found(k) : k \in below} = R
  <2> HIDE DEF R, Found, below
  <2>1. \A p \in {<<>>} \cup UNION {Found(k) : k \in below} : p \in R
    BY <1>7, <1>9
  <2>2. \A p \in R : p \in {<<>>} \cup UNION {Found(k) : k \in below}
    BY <1>8
  <2> QED BY <2>1, <2>2
<1>11. OwnOf(image, entry) = ReadFolder(image, ts, visits, visit)
  <2>1. IndexIn(visits, visit) = w
    BY VisitIndex DEF WrittenOf
  <2>2. /\ entry.folders = S /\ entry.folderEnd = S + n /\ entry.files = Before(visits, ts, w)
        /\ entry.fileEnd = Before(visits, ts, w) + Len(FolderAt(ts, visit).files)
    BY <1>3 DEF FolderRead
  <2>3. FolderAt(ts, visit).files \in Seq(Files) /\ Len(FolderAt(ts, visit).files) \in Nat
    BY <1>2, VisitParts, LenProperties
  <2>4. Before(visits, ts, w) \in Nat
    BY FilesArePlaced DEF WrittenOf, WholeArchive, PlacedFiles
  <2>5. entry.folderEnd - entry.folders = n /\ entry.fileEnd - entry.files = Len(FolderAt(ts, visit).files)
    <3> HIDE DEF n, S, entry, visit
    <3> QED BY <1>4, <2>2, <2>3, <2>4
  <2> DEFINE g == FolderAt(ts, visit).folders
             l == [k \in 1 .. n |-> [name |-> LeafOf(image, S + k)]]
  <2>6. l = g
    <3>1. g \in Seq(ChildEntries) /\ n = Len(g)
      BY <1>2, VisitParts, ChildrenAre
    <3> HIDE DEF S, n
    <3>2. \A k \in 1 .. n : l[k] = [name |-> g[k].name]
      <4> SUFFICES ASSUME NEW k \in 1 .. n PROVE l[k] = [name |-> g[k].name]
        OBVIOUS
      <4>1. LeafOf(image, S + k) = g[k].name
        BY <1>6 DEF NameOf
      <4> QED BY <4>1
    <3>3. \A k \in 1 .. n : g[k] = [name |-> g[k].name]
      <4> HIDE DEF g
      <4>1. \A k \in 1 .. n : g[k] \in ChildEntries
        BY <3>1
      <4> QED BY <4>1 DEF ChildEntries
    <3>4. DOMAIN l = 1 .. n /\ l = [k \in 1 .. n |-> l[k]]
      OBVIOUS
    <3>5. g = [k \in 1 .. n |-> g[k]]
      <4> HIDE DEF g
      <4> QED BY <3>1
    <3>6. \A k \in 1 .. n : l[k] = g[k]
      BY <3>2, <3>3
    <3> HIDE DEF l, g
    <3> QED BY <3>4, <3>5, <3>6
  <2>7. OwnOf(image, entry).folders = l
    <3> HIDE DEF entry, n, S
    <3> QED BY <2>2, <2>5 DEF OwnOf
  <2> DEFINE F == [k \in 1 .. Len(FolderAt(ts, visit).files) |->
                     LoadFile(image, image.files[Before(visits, ts, w) + k])]
  <2>8. OwnOf(image, entry) = [folders |-> l, files |-> F]
    <3> HIDE DEF entry, n, S
    <3> QED BY <2>2, <2>5 DEF OwnOf
  <2>9. ReadFolder(image, ts, visits, visit) = [folders |-> g, files |-> F]
    BY <2>1 DEF ReadFolder
  <2> HIDE DEF l, g, F
  <2> QED BY <2>6, <2>8, <2>9
<1> DEFINE V(p) == IF p = <<>> THEN OwnOf(image, entry) ELSE load[CHOOSE k \in below : p \in Found(k)][Tail(p)]
<1>12. ASSUME NEW p \in R PROVE V(p) = ReadFolder(image, ts, visits, Under(visit, p))
  <2>1. CASE p = <<>>
    BY <1>9, <1>11, <2>1
  <2>2. CASE p # <<>>
    <3> DEFINE k == CHOOSE k \in below : p \in Found(k)
    <3>1. k \in below /\ p \in Found(k)
      <4> HIDE DEF below, Found, R
      <4> QED BY <1>8, <2>2
    <3>2. V(p) = load[k][Tail(p)]
      BY <2>2
    <3> HIDE DEF below, Found, R, k, V
    <3> QED BY <1>7, <3>1, <3>2
  <2> QED BY <2>1, <2>2
<1>13. LoadAt(image, load, x) = [p \in {<<>>} \cup UNION {Found(k) : k \in below} |-> V(p)]
  BY DEF LoadAt, below
<1> HIDE DEF V, R, Found, below
<1>14. LoadAt(image, load, x) = [p \in R |-> ReadFolder(image, ts, visits, Under(visit, p))]
  BY <1>10, <1>12, <1>13
<1> QED BY <1>1, <1>14 DEF ReadTree, R

LEMMA FoldersLoaded ==
  ASSUME NEW image, NEW ts, NEW visits, WrittenOf(image, ts, visits)
  PROVE  \A x \in 1 .. Len(FolderTable(visits, ts)) :
           LoadFolders(image)[x] = ReadTree(image, ts, visits, FolderTable(visits, ts)[x])
<1> DEFINE table == FolderTable(visits, ts)
           L == Len(table)
           Tree(x) == ReadTree(image, ts, visits, table[x])
           g == [x \in 1 .. L |-> Tree(x)]
           f == LoadFolders(image)
<1>1. L \in Nat
  <2> DEFINE V == VisitsOf(ts)
  <2>1. table \in Seq(V)
    BY FoldersArePlaced DEF WrittenOf, WholeArchive, PlacedFolders
  <2> HIDE DEF V, table
  <2> QED BY <2>1
<1>2. ASSUME NEW x \in 1 .. L PROVE DOMAIN image.folders = 1 .. L
  <2>1. \E w \in 1 .. Len(visits) : table[x] = visits[w]
    BY TableIs
  <2> QED BY <2>1, EntryIsRead
<1>3. DOMAIN image.folders = 1 .. L
  <2>1. PICK lay \in Layouts, ver \in Nat :
          ImageParts(image, lay, ver, ts, visits, SlotTable(visits, ts), FilesOf(visits, ts))
    BY DEF WrittenOf
  <2>2. DOMAIN image.folders = DOMAIN table
    BY <2>1 DEF ImageParts
  <2>3. DOMAIN table = 1 .. L
    <3> DEFINE V == VisitsOf(ts)
    <3>1. table \in Seq(V)
      BY FoldersArePlaced DEF WrittenOf, WholeArchive, PlacedFolders
    <3> HIDE DEF V, table
    <3> QED BY <3>1
  <2> QED BY <2>2, <2>3
<1>4. ASSUME NEW load, NEW x \in 1 .. L, \A k \in x + 1 .. L : load[k] = Tree(k)
      PROVE  LoadAt(image, load, x) = Tree(x)
  BY <1>4, LoadStep
<1>5. IsLoad(image, g)
  <2>1. \A x \in 1 .. L : g[x] = Tree(x)
    OBVIOUS
  <2>2. ASSUME NEW x \in 1 .. L PROVE LoadAt(image, g, x) = Tree(x)
    <3> HIDE DEF g, Tree, L
    <3>1. \A k \in x + 1 .. L : k \in 1 .. L
      BY <1>1
    <3>2. \A k \in x + 1 .. L : g[k] = Tree(k)
      BY <2>1, <3>1
    <3> QED BY <1>4, <3>2
  <2> HIDE DEF Tree, L
  <2>3. g = [x \in 1 .. L |-> LoadAt(image, g, x)]
    <3> DEFINE h == [x \in 1 .. L |-> LoadAt(image, g, x)]
    <3>1. \A x \in 1 .. L : h[x] = g[x]
      <4> SUFFICES ASSUME NEW x \in 1 .. L PROVE h[x] = g[x]
        OBVIOUS
      <4>1. h[x] = LoadAt(image, g, x)
        OBVIOUS
      <4> HIDE DEF g, h
      <4> QED BY <2>1, <2>2, <4>1
    <3>2. DOMAIN g = 1 .. L /\ DOMAIN h = 1 .. L /\ g = [x \in 1 .. L |-> g[x]] /\ h = [x \in 1 .. L |-> h[x]]
      OBVIOUS
    <3> HIDE DEF g, h
    <3>3. g = h
      BY <3>1, <3>2
    <3> QED BY <3>3 DEF h
  <2> HIDE DEF g
  <2> QED BY <1>3, <2>3 DEF IsLoad, L
<1> HIDE DEF g, Tree, f, L
<1>6. IsLoad(image, f)
  BY <1>5, LoadIs DEF f
<1>7. \A x \in 1 .. L : f[x] = LoadAt(image, f, x)
  BY <1>3, <1>6 DEF IsLoad, L
<1> DEFINE G == {n \in 0 .. L : \A x \in L - n + 1 .. L : f[x] = Tree(x)}
<1>8. 0 \in G
  BY <1>1
<1>9. ASSUME NEW n \in 1 .. L, n - 1 \in G PROVE n \in G
  <2>1. \A x \in L - (n - 1) + 1 .. L : f[x] = Tree(x)
    BY <1>9
  <2> DEFINE y == L - n + 1
  <2>2. y \in 1 .. L /\ L - (n - 1) + 1 = y + 1
    BY <1>1
  <2>3. \A x \in y + 1 .. L : f[x] = Tree(x)
    BY <2>1, <2>2
  <2>4. f[y] = Tree(y)
    <3> HIDE DEF y
    <3>1. LoadAt(image, f, y) = Tree(y)
      BY <1>4, <2>2, <2>3
    <3> QED BY <1>7, <2>2, <3>1
  <2>5. \A x \in y .. L : x = y \/ x \in y + 1 .. L
    BY <1>1
  <2>6. \A x \in y .. L : f[x] = Tree(x)
    <3> HIDE DEF y
    <3> QED BY <2>3, <2>4, <2>5
  <2> QED BY <1>1, <2>6
<1>10. 0 .. L \subseteq G
  <2> HIDE DEF G
  <2> QED BY <1>1, <1>8, <1>9, StepsReach
<1>11. L \in G
  <2> HIDE DEF G
  <2> QED BY <1>1, <1>10
<1>12. \A x \in 1 .. L : f[x] = Tree(x)
  <2>1. L - L + 1 = 1
    BY <1>1
  <2> QED BY <1>11, <2>1
<1> QED BY <1>12 DEF f, Tree, L

\* Tree b is tree a as a reader of the image sees it: with what the version
\* keeps of every file, and the place its bytes have.
Reread(image, a, b) ==
  /\ DOMAIN b = DOMAIN a
  /\ \A p \in DOMAIN a :
       /\ b[p] = [folders |-> a[p].folders, files |-> b[p].files]
       /\ b[p].files = [k \in 1 .. Len(a[p].files) |-> b[p].files[k]]
       /\ \A k \in 1 .. Len(a[p].files) : \E o \in Nat :
            b[p].files[k] = IndexFile(image, [a[p].files[k] EXCEPT !.order = o])

RereadArchive(image, ts, us) ==
  /\ us = [i \in 1 .. Len(ts) |-> [alias |-> ts[i].alias, tree |-> us[i].tree]]
  /\ \A i \in 1 .. Len(ts) : Reread(image, ts[i].tree, us[i].tree)

LEMMA TreeReread ==
  ASSUME NEW image, NEW ts, NEW visits, WrittenOf(image, ts, visits), NEW i \in 1 .. Len(ts)
  PROVE  Reread(image, ts[i].tree, ReadTree(image, ts, visits, [toc |-> i, path |-> <<>>]))
<1> DEFINE root == [toc |-> i, path |-> <<>>]
           t == ts[i].tree
           b == ReadTree(image, ts, visits, root)
<1>1. IsArchive(ts) /\ Visited(ts, visits) /\ PlacedFiles(visits, ts) /\ WholeArchive(ts)
  BY FilesArePlaced DEF WrittenOf, WholeArchive
<1>2. IsTree(t)
  BY <1>1, ArchiveParts
<1>3. \A p \in DOMAIN t : p \in Seq(Names)
  BY <1>2 DEF IsTree
<1>4. \A r \in Seq(Names) : <<>> \o r = r
  OBVIOUS
<1>5. Rest(ts, root) = DOMAIN t
  BY <1>3, <1>4 DEF Rest
<1>6. ASSUME NEW p \in DOMAIN t
      PROVE  /\ b[p] = ReadFolder(image, ts, visits, [toc |-> i, path |-> p])
             /\ [toc |-> i, path |-> p] \in VisitsOf(ts)
  <2>1. Under(root, p) = [toc |-> i, path |-> p]
    BY <1>3, <1>4 DEF Under
  <2>2. Under(root, p) \in VisitsOf(ts)
    BY <1>1, <1>5, RootVisited, RestHere
  <2> QED BY <1>5, <2>1, <2>2 DEF ReadTree
<1>7. DOMAIN b = DOMAIN t
  BY <1>5 DEF ReadTree
<1> HIDE DEF b
<1>8. ASSUME NEW p \in DOMAIN t
      PROVE  /\ b[p] = [folders |-> t[p].folders, files |-> b[p].files]
             /\ b[p].files = [k \in 1 .. Len(t[p].files) |-> b[p].files[k]]
             /\ \A k \in 1 .. Len(t[p].files) : \E o \in Nat :
                  b[p].files[k] = IndexFile(image, [t[p].files[k] EXCEPT !.order = o])
  <2> DEFINE visit == [toc |-> i, path |-> p]
             n == Len(t[p].files)
  <2>1. PICK w \in 1 .. Len(visits) : visits[w] = visit /\ IndexIn(visits, visit) = w
    BY <1>1, <1>6, VisitedOnce
  <2> DEFINE F == [k \in 1 .. n |-> LoadFile(image, image.files[Before(visits, ts, w) + k])]
  <2>2. FolderAt(ts, visit) = t[p]
    BY DEF FolderAt
  <2>3. b[p] = [folders |-> t[p].folders, files |-> F]
    BY <1>6, <2>1, <2>2 DEF ReadFolder
  <2>4. b[p].files = F /\ F = [k \in 1 .. n |-> F[k]]
    BY <2>3
  <2>5. ASSUME NEW k \in 1 .. n
        PROVE  \E o \in Nat : F[k] = IndexFile(image, [t[p].files[k] EXCEPT !.order = o])
    <3> DEFINE x == Before(visits, ts, w) + k
    <3>1. IsFileOf(visits, ts, x, w, k)
      BY <2>1, <2>2 DEF IsFileOf
    <3>2. PICK lay \in Layouts, ver \in Nat :
            ImageParts(image, lay, ver, ts, visits, SlotTable(visits, ts), FilesOf(visits, ts))
      BY DEF WrittenOf
    <3>3. FileRead(image, x, FolderAt(ts, visits[w]).files[k])
      <4> HIDE DEF x
      <4> QED BY <1>1, <3>1, <3>2, FileIsRead
    <3>4. FileRead(image, x, t[p].files[k])
      BY <2>1, <2>2, <3>3
    <3>5. /\ image.files[x].data \in Nat
          /\ LoadFile(image, image.files[x]) = IndexFile(image, [t[p].files[k] EXCEPT !.order = image.files[x].data])
      <4> HIDE DEF x, t
      <4> QED BY <3>4 DEF FileRead
    <3>6. F[k] = LoadFile(image, image.files[x])
      OBVIOUS
    <3> HIDE DEF F, x, t
    <3> QED BY <3>5, <3>6
  <2> HIDE DEF F
  <2> QED BY <2>3, <2>4, <2>5
<1> QED BY <1>7, <1>8 DEF Reread, b

LEMMA ArchiveReread ==
  ASSUME NEW image, NEW ts, NEW visits, WrittenOf(image, ts, visits)
  PROVE  RereadArchive(image, ts, LoadTocs(image))
<1> DEFINE Root(i) == [toc |-> i, path |-> <<>>]
           u == LoadTocs(image)
<1>1. PICK lay \in Layouts, ver \in Nat :
        ImageParts(image, lay, ver, ts, visits, SlotTable(visits, ts), FilesOf(visits, ts))
  BY DEF WrittenOf
<1>2. ASSUME NEW i \in 1 .. Len(ts)
      PROVE  /\ image.tocs[i].alias = ts[i].alias
             /\ LoadFolders(image)[image.tocs[i].root + 1] = ReadTree(image, ts, visits, Root(i))
  <2>1. /\ image.tocs[i].alias = ts[i].alias
        /\ image.tocs[i].root + 1 \in 1 .. Len(FolderTable(visits, ts))
        /\ FolderTable(visits, ts)[image.tocs[i].root + 1] = Root(i)
    BY <1>1, RootIsRead DEF WrittenOf
  <2> DEFINE x == image.tocs[i].root + 1
  <2>2. x \in 1 .. Len(FolderTable(visits, ts)) /\ FolderTable(visits, ts)[x] = Root(i)
    BY <2>1
  <2> HIDE DEF x
  <2>3. LoadFolders(image)[x] = ReadTree(image, ts, visits, Root(i))
    BY <2>2, FoldersLoaded
  <2> QED BY <2>1, <2>3 DEF x
<1>3. DOMAIN image.tocs = 1 .. Len(ts)
  BY <1>1 DEF ImageParts
<1>4. u = [i \in 1 .. Len(ts) |-> [alias |-> ts[i].alias, tree |-> ReadTree(image, ts, visits, Root(i))]]
  BY <1>2, <1>3 DEF LoadTocs
<1>5. \A i \in 1 .. Len(ts) : u[i].tree = ReadTree(image, ts, visits, Root(i))
  <2> HIDE DEF u, Root
  <2> QED BY <1>4
<1>6. u = [i \in 1 .. Len(ts) |-> [alias |-> ts[i].alias, tree |-> u[i].tree]]
  <2> HIDE DEF u, Root
  <2> QED BY <1>4, <1>5
<1> HIDE DEF u
<1>7. \A i \in 1 .. Len(ts) : Reread(image, ts[i].tree, u[i].tree)
  BY <1>5, TreeReread
<1> QED BY <1>6, <1>7 DEF RereadArchive, u

(***************************************************************************)
(* What was read is an archive again.                                      *)
(***************************************************************************)
LEMMA IndexedFile ==
  ASSUME NEW image, image.version \in Nat, NEW file \in Files, NEW o \in Nat
  PROVE  LET g == IndexFile(image, [file EXCEPT !.order = o])
         IN  /\ g \in Files /\ g.name = file.name /\ Stored(g) = Stored(file)
             /\ g.crc \in {file.crc, {}}
             /\ image.version >= 10 => g = [file EXCEPT !.order = o]
<1> DEFINE f == IndexFile(image, file)
           g == IndexFile(image, [file EXCEPT !.order = o])
<1>1. g = [name |-> f.name, data |-> f.data, storage |-> f.storage, encrypted |-> f.encrypted,
           verify |-> f.verify, crc |-> f.crc, order |-> o]
  BY OrderedParts
<1>2. /\ f.name = file.name /\ f.data = file.data /\ f.storage = file.storage
      /\ f.verify = (IF image.version >= 7 THEN file.verify ELSE "None")
      /\ f.crc = (IF image.version >= 6 THEN file.crc ELSE {})
      /\ f.encrypted = (file.encrypted /\ image.version >= 10)
  BY DEF IndexFile, Files
<1>3. file = [name |-> file.name, data |-> file.data, storage |-> file.storage, encrypted |-> file.encrypted,
              verify |-> file.verify, crc |-> file.crc, order |-> file.order]
  BY DEF Files
<1>4. /\ file.name \in Names /\ file.data \in Data /\ file.storage \in Storages /\ file.encrypted \in BOOLEAN
      /\ file.verify \in Verifications /\ file.crc \in SUBSET StoredBytes
  BY DEF Files
<1> HIDE DEF f, g
<1>5. f.encrypted \in BOOLEAN /\ (image.version >= 10 => f.encrypted = file.encrypted)
  BY <1>2, <1>4
<1>6. f.verify \in Verifications /\ f.crc \in SUBSET StoredBytes /\ f.crc \in {file.crc, {}}
  BY <1>2, <1>4 DEF Verifications
<1>7. g \in Files
  BY <1>1, <1>2, <1>4, <1>5, <1>6 DEF Files
<1>8. g.name = file.name /\ g.data = file.data /\ g.storage = file.storage /\ g.crc = f.crc
  BY <1>1, <1>2
<1>9. ASSUME image.version >= 10 PROVE g = [file EXCEPT !.order = o]
  <2>1. f.verify = file.verify /\ f.crc = file.crc
    BY <1>2, <1>9
  <2>2. [file EXCEPT !.order = o] =
          [name |-> file.name, data |-> file.data, storage |-> file.storage, encrypted |-> file.encrypted,
           verify |-> file.verify, crc |-> file.crc, order |-> o]
    BY <1>3
  <2> QED BY <1>1, <1>2, <1>5, <1>9, <2>1, <2>2
<1>10. Stored(g) = Stored(file)
  BY <1>8 DEF Stored
<1> QED BY <1>6, <1>7, <1>8, <1>9, <1>10 DEF g

\* File g is file f read from somewhere.
OnlyMoved(f, g) == \E o \in Nat : g = [f EXCEPT !.order = o]

LEMMA RereadFile ==
  ASSUME NEW image, image.version \in Nat, NEW a, IsTree(a), NEW b, Reread(image, a, b),
         NEW p \in DOMAIN a, NEW k \in 1 .. Len(a[p].files)
  PROVE  /\ k \in DOMAIN a[p].files /\ a[p].files[k] \in Files
         /\ b[p].files[k] \in Files
         /\ b[p].files[k].name = a[p].files[k].name
         /\ Stored(b[p].files[k]) = Stored(a[p].files[k])
         /\ b[p].files[k].crc \in {a[p].files[k].crc, {}}
         /\ image.version >= 10 => OnlyMoved(a[p].files[k], b[p].files[k])
<1> DEFINE T == a[p].files
           g == b[p].files[k]
<1>1. T \in Seq(Files)
  BY FolderParts
<1>2. k \in DOMAIN T /\ T[k] \in Files
  <2>0. k \in 1 .. Len(T)
    OBVIOUS
  <2> HIDE DEF T
  <2> QED BY <1>1, <2>0
<1>3. PICK o \in Nat : g = IndexFile(image, [T[k] EXCEPT !.order = o])
  BY DEF Reread
<1> DEFINE file == T[k]
<1>4. g = IndexFile(image, [file EXCEPT !.order = o]) /\ file \in Files
  BY <1>2, <1>3
<1> HIDE DEF file, g
<1>5. /\ g \in Files /\ g.name = file.name /\ Stored(g) = Stored(file)
      /\ g.crc \in {file.crc, {}}
      /\ image.version >= 10 => g = [file EXCEPT !.order = o]
  BY <1>4, IndexedFile
<1>6. image.version >= 10 => OnlyMoved(file, g)
  BY <1>5 DEF OnlyMoved
<1> QED BY <1>2, <1>5, <1>6 DEF file, g

LEMMA RereadTree ==
  ASSUME NEW image, image.version \in Nat, NEW a, IsTree(a), NEW b, Reread(image, a, b)
  PROVE  IsTree(b) /\ (TreeSorted(a) => TreeSorted(b)) /\ (Whole(a) => Whole(b))
<1>1. DOMAIN b = DOMAIN a
  BY DEF Reread
<1>2. ASSUME NEW p \in DOMAIN a
      PROVE  /\ b[p] = [folders |-> a[p].folders, files |-> b[p].files]
             /\ a[p].files \in Seq(Files) /\ b[p].files \in Seq(Files) /\ Len(b[p].files) = Len(a[p].files)
             /\ DOMAIN b[p].files = 1 .. Len(a[p].files)
             /\ \A k \in 1 .. Len(a[p].files) : b[p].files[k].name = a[p].files[k].name
  <2> DEFINE s == a[p].files
             r == b[p].files
  <2>1. b[p] = [folders |-> a[p].folders, files |-> r] /\ r = [k \in 1 .. Len(s) |-> r[k]]
    BY DEF Reread
  <2>2. s \in Seq(Files)
    BY FolderParts
  <2>3. \A k \in 1 .. Len(s) : r[k] \in Files /\ r[k].name = s[k].name
    BY RereadFile
  <2>4. r \in Seq(Files) /\ Len(r) = Len(s) /\ DOMAIN r = 1 .. Len(s)
    <3> HIDE DEF s, r
    <3> QED BY <2>1, <2>2, <2>3
  <2> QED BY <2>1, <2>2, <2>3, <2>4
<1>3. IsTree(b) /\ \A p \in DOMAIN a : b[p].folders = a[p].folders
  BY <1>1, <1>2, FilesReplaced
<1>4. ASSUME TreeSorted(a) PROVE TreeSorted(b)
  <2> SUFFICES ASSUME NEW p \in DOMAIN a PROVE Sorted(b[p].folders) /\ Sorted(b[p].files)
    BY <1>1 DEF TreeSorted
  <2>1. Sorted(a[p].folders) /\ Sorted(a[p].files)
    BY <1>4 DEF TreeSorted
  <2>2. Sorted(b[p].files)
    <3> DEFINE s == a[p].files
               r == b[p].files
    <3>1. s \in Seq(Files) /\ r \in Seq(Files) /\ Len(r) = Len(s) /\ \A k \in 1 .. Len(s) : r[k].name = s[k].name
      BY <1>2
    <3>2. Sorted(s)
      BY <2>1
    <3> HIDE DEF s, r
    <3>3. Sorted(r)
      BY <3>1, <3>2, SameNamesKeep
    <3> QED BY <3>3 DEF r
  <2> QED BY <1>3, <2>1, <2>2
<1>5. ASSUME Whole(a) PROVE Whole(b)
  <2>1. IsFiniteSet(DOMAIN b)
    BY <1>1, <1>5 DEF Whole
  <2>2. ASSUME NEW p \in DOMAIN b, NEW i \in DOMAIN b[p].folders, NEW j \in DOMAIN b[p].folders,
               b[p].folders[i].name = b[p].folders[j].name
        PROVE  i = j
    <3>1. p \in DOMAIN a /\ b[p].folders = a[p].folders
      BY <1>1, <1>3
    <3> QED BY <1>5, <2>2, <3>1 DEF Whole
  <2>3. ASSUME NEW p \in DOMAIN b, NEW k \in DOMAIN b[p].files, b[p].files[k].crc # {}
        PROVE  Stored(b[p].files[k]) \in b[p].files[k].crc
    <3>1. p \in DOMAIN a
      BY <1>1
    <3>2. k \in 1 .. Len(a[p].files)
      BY <1>2, <3>1
    <3> DEFINE f == a[p].files[k]
               g == b[p].files[k]
    <3>3. k \in DOMAIN a[p].files /\ Stored(g) = Stored(f) /\ g.crc \in {f.crc, {}}
      BY <3>1, <3>2, RereadFile
    <3>4. f.crc # {} => Stored(f) \in f.crc
      BY <1>5, <3>1, <3>3 DEF Whole
    <3> HIDE DEF f, g
    <3>5. Stored(g) \in g.crc
      BY <2>3, <3>3, <3>4 DEF g
    <3> QED BY <3>5 DEF g
  <2> QED BY <2>1, <2>2, <2>3 DEF Whole
<1> QED BY <1>3, <1>4, <1>5

LEMMA RereadKeeps ==
  ASSUME NEW image, image.version \in Nat, NEW ts, Sound(ts), WholeArchive(ts),
         NEW us, RereadArchive(image, ts, us)
  PROVE  Sound(us) /\ WholeArchive(us)
<1>1. IsArchive(ts) /\ Len(ts) \in Nat /\ DOMAIN ts = 1 .. Len(ts)
      /\ \A i \in 1 .. Len(ts) : IsTree(ts[i].tree) /\ IsToc(ts[i]) /\ Whole(ts[i].tree) /\ TreeSorted(ts[i].tree)
  BY ArchiveParts DEF Sound, ArchiveSorted, WholeArchive
<1> DEFINE n == Len(ts)
<1>2. us = [i \in 1 .. n |-> [alias |-> ts[i].alias, tree |-> us[i].tree]]
      /\ \A i \in 1 .. n : Reread(image, ts[i].tree, us[i].tree)
  BY DEF RereadArchive
<1>3. \A i \in 1 .. n : IsTree(us[i].tree) /\ TreeSorted(us[i].tree) /\ Whole(us[i].tree)
  BY <1>1, <1>2, RereadTree
<1> HIDE DEF n
<1>4. DOMAIN us = 1 .. n
  BY <1>2
<1>5. ASSUME NEW i \in 1 .. n PROVE IsToc(us[i])
  <2>1. us[i] = [alias |-> ts[i].alias, tree |-> us[i].tree]
    BY <1>2
  <2>2. ts[i].alias \in Aliases
    BY <1>1 DEF IsToc, n
  <2> DEFINE u == us[i].tree
  <2>3. IsTree(u) /\ us[i] = [alias |-> ts[i].alias, tree |-> u]
    BY <1>3, <2>1
  <2> HIDE DEF u
  <2> QED BY <2>2, <2>3, TocOf
<1>6. us \in Seq(Range(us))
  <2>1. n \in Nat
    BY <1>1 DEF n
  <2>2. \A i \in 1 .. n : us[i] \in Range(us)
    BY <1>4 DEF Range
  <2>3. us = [i \in 1 .. n |-> us[i]]
    BY <1>2
  <2> QED BY <2>1, <2>2, <2>3
<1>7. IsArchive(us)
  BY <1>4, <1>5, <1>6 DEF IsArchive
<1> QED BY <1>3, <1>4, <1>7 DEF Sound, ArchiveSorted, WholeArchive

ForgetFiles(files) == [k \in DOMAIN files |-> [files[k] EXCEPT !.order = NoOrder]]
ForgetFolder(folder) == [folder EXCEPT !.files = ForgetFiles(@)]

LEMMA ForgetIs ==
  ASSUME NEW t
  PROVE  Forget(t) = [p \in DOMAIN t |-> ForgetFolder(t[p])]
BY DEF Forget, ForgetFolder, ForgetFiles

LEMMA ForgottenFolder ==
  ASSUME NEW folder, NEW l, NEW f, folder = [folders |-> l, files |-> f]
  PROVE  ForgetFolder(folder) = [folders |-> l, files |-> ForgetFiles(f)]
<1>1. folder.files = f
  OBVIOUS
<1>2. ForgetFolder(folder) = [folder EXCEPT !.files = ForgetFiles(f)]
  BY <1>1 DEF ForgetFolder
<1> QED BY <1>2

\* Since version 10 nothing of a file is lost.
LEMMA RereadContent ==
  ASSUME NEW image, image.version \in Nat, image.version >= 10, NEW ts, IsArchive(ts),
         NEW us, RereadArchive(image, ts, us)
  PROVE  Content(us) = Content(ts)
<1>1. Len(ts) \in Nat /\ DOMAIN ts = 1 .. Len(ts) /\ \A i \in 1 .. Len(ts) : IsTree(ts[i].tree) /\ IsToc(ts[i])
  BY ArchiveParts
<1> DEFINE n == Len(ts)
<1>2. us = [i \in 1 .. n |-> [alias |-> ts[i].alias, tree |-> us[i].tree]]
      /\ \A i \in 1 .. n : Reread(image, ts[i].tree, us[i].tree)
  BY DEF RereadArchive
<1>3. ASSUME NEW a, IsTree(a), NEW b, Reread(image, a, b) PROVE Forget(b) = Forget(a)
  <2>1. DOMAIN b = DOMAIN a
    BY <1>3 DEF Reread
  <2>2. ASSUME NEW p \in DOMAIN a
        PROVE  ForgetFolder(b[p]) = ForgetFolder(a[p])
    <3> DEFINE s == a[p].files
               r == b[p].files
    <3>1. /\ b[p] = [folders |-> a[p].folders, files |-> r] /\ r = [k \in 1 .. Len(s) |-> r[k]]
      BY <1>3 DEF Reread
    <3>2. a[p] = [folders |-> a[p].folders, files |-> s] /\ s \in Seq(Files)
      BY <1>3, FolderParts
    <3>3. DOMAIN s = 1 .. Len(s) /\ DOMAIN r = 1 .. Len(s)
      <4> HIDE DEF s, r
      <4> QED BY <3>1, <3>2
    <3>4. ASSUME NEW k \in 1 .. Len(s) PROVE [r[k] EXCEPT !.order = NoOrder] = [s[k] EXCEPT !.order = NoOrder]
      <4>0. s[k] \in Files /\ OnlyMoved(s[k], r[k])
        BY <1>3, RereadFile
      <4>1. \E o \in Nat : r[k] = [s[k] EXCEPT !.order = o]
        BY <4>0 DEF OnlyMoved
      <4>2. PICK o \in Nat : r[k] = [s[k] EXCEPT !.order = o]
        BY <4>1
      <4> DEFINE f == s[k]
                 g == r[k]
      <4>3. f \in Files /\ g = [f EXCEPT !.order = o]
        BY <4>0, <4>2
      <4> HIDE DEF f, g
      <4>4. [g EXCEPT !.order = NoOrder] = [f EXCEPT !.order = NoOrder]
        BY <4>3 DEF Files
      <4> QED BY <4>4 DEF f, g
    <3> HIDE DEF s, r
    <3>5. ForgetFiles(r) = ForgetFiles(s)
      BY <3>3, <3>4 DEF ForgetFiles
    <3> DEFINE x == b[p]
               y == a[p]
               l == a[p].folders
    <3>6. x = [folders |-> l, files |-> r] /\ y = [folders |-> l, files |-> s]
      BY <3>1, <3>2
    <3> HIDE DEF x, y, l
    <3>7. ForgetFolder(x) = [folders |-> l, files |-> ForgetFiles(r)]
      BY <3>6, ForgottenFolder
    <3>8. ForgetFolder(y) = [folders |-> l, files |-> ForgetFiles(s)]
      BY <3>6, ForgottenFolder
    <3>9. ForgetFolder(x) = ForgetFolder(y)
      BY <3>5, <3>7, <3>8
    <3> QED BY <3>9 DEF x, y
  <2> QED BY <2>1, <2>2, ForgetIs
<1>4. \A i \in 1 .. n : Forget(us[i].tree) = Forget(ts[i].tree)
  BY <1>1, <1>2, <1>3
<1> HIDE DEF n
<1>5. DOMAIN us = 1 .. n /\ DOMAIN ts = 1 .. n
  BY <1>1, <1>2 DEF n
<1>6. ASSUME NEW i \in 1 .. n
      PROVE  [us[i] EXCEPT !.tree = Forget(@)] = [ts[i] EXCEPT !.tree = Forget(@)]
  <2>1. us[i] = [alias |-> ts[i].alias, tree |-> us[i].tree]
    BY <1>2
  <2>2. ts[i] = [alias |-> ts[i].alias, tree |-> ts[i].tree]
    BY <1>1 DEF IsToc, n
  <2>3. [us[i] EXCEPT !.tree = Forget(@)] = [alias |-> ts[i].alias, tree |-> Forget(us[i].tree)]
    BY <2>1
  <2>4. [ts[i] EXCEPT !.tree = Forget(@)] = [alias |-> ts[i].alias, tree |-> Forget(ts[i].tree)]
    BY <2>2
  <2> QED BY <1>4, <2>3, <2>4
<1> QED BY <1>5, <1>6 DEF Content

(***************************************************************************)
(* The edits leave whole trees whole.                                      *)
(***************************************************************************)
DistinctNames(table) ==
  \A i, j \in DOMAIN table : table[i].name = table[j].name => i = j

ChecksumOwn(file) == file.crc # {} => Stored(file) \in file.crc

FilesOwn(table) == \A k \in DOMAIN table : ChecksumOwn(table[k])

LEMMA WholeParts ==
  ASSUME NEW t
  PROVE  Whole(t) <=> /\ IsFiniteSet(DOMAIN t)
                      /\ \A p \in DOMAIN t : DistinctNames(t[p].folders) /\ FilesOwn(t[p].files)
BY DEF Whole, DistinctNames, ChecksumOwn, FilesOwn

LEMMA FilesWhole ==
  ASSUME NEW t, Whole(t), NEW u, DOMAIN u = DOMAIN t,
         \A p \in DOMAIN t : u[p].folders = t[p].folders /\ FilesOwn(u[p].files)
  PROVE  Whole(u)
BY WholeParts

LEMMA PickedOwn ==
  ASSUME NEW E, NEW a \in Seq(E), FilesOwn(a), NEW r \in Seq(E), KeepsEntries(r, a)
  PROVE  FilesOwn(r)
<1>1. DOMAIN a = 1 .. Len(a) /\ DOMAIN r = 1 .. Len(r)
  OBVIOUS
<1> QED BY <1>1 DEF FilesOwn, KeepsEntries

LEMMA RetainDistinct ==
  ASSUME NEW E, NEW table \in Seq(E), NEW K \in SUBSET (1 .. Len(table)), DistinctNames(table)
  PROVE  DistinctNames(Retain(table, K))
<1> DEFINE R == {p \in K \X K : p[1] < p[2]}
           C == Cardinality(K)
           f == Enumerate(K, R)
           r == Retain(table, K)
<1>1. IsFiniteSet(K)
  <2>1. Len(table) \in Nat
    OBVIOUS
  <2>2. IsFiniteSet(1 .. Len(table))
    BY <2>1, FS_Interval
  <2> QED BY <2>2, FS_Subset
<1>2. StrictOrder(K, R)
  <2>1. \A i \in K : i \in Int
    OBVIOUS
  <2> QED BY <2>1 DEF StrictOrder
<1>3. C \in Nat
  BY <1>1, FS_CardinalityType
<1>4. f \in [1 .. C -> K]
  <2> HIDE DEF R
  <2> QED BY <1>1, <1>2, EnumerateInOrder
<1>5. \A k, l \in 1 .. C : k < l => <<f[k], f[l]>> \in R
  <2> HIDE DEF R
  <2> QED BY <1>1, <1>2, EnumerateInOrder
<1>6. \A k, l \in 1 .. C : k < l => f[k] < f[l]
  <2> HIDE DEF f, C
  <2> QED BY <1>5
<1>7. r = [k \in 1 .. C |-> table[f[k]]]
  BY DEF Retain
<1>8. DOMAIN table = 1 .. Len(table) /\ \A i \in K : i \in 1 .. Len(table)
  OBVIOUS
<1> HIDE DEF f, C, R, r
<1> SUFFICES ASSUME NEW k \in 1 .. C, NEW l \in 1 .. C, r[k].name = r[l].name
             PROVE  k = l
  BY <1>7 DEF DistinctNames, r
<1>9. f[k] \in K /\ f[l] \in K /\ table[f[k]].name = table[f[l]].name
  BY <1>4, <1>7
<1>10. f[k] = f[l]
  BY <1>8, <1>9 DEF DistinctNames
<1>11. f[k] \in Int /\ f[l] \in Int
  <2>1. \A i \in 1 .. Len(table) : i \in Int
    OBVIOUS
  <2> QED BY <1>8, <1>9, <2>1
<1> QED BY <1>3, <1>6, <1>10, <1>11

LEMMA SortDistinct ==
  ASSUME NEW E, Named(E), NEW table \in Seq(E), DistinctNames(table)
  PROVE  DistinctNames(SortTable(table))
<1> DEFINE K == 1 .. Len(table)
           R == NameOrder(table)
           C == Cardinality(K)
           f == Enumerate(K, R)
           r == SortTable(table)
<1>1. Len(table) \in Nat /\ DOMAIN table = K
  OBVIOUS
<1>2. IsFiniteSet(K) /\ C = Len(table)
  <2>1. IsFiniteSet(K)
    BY <1>1, FS_Interval
  <2>2. C = Len(table)
    BY <1>1, FS_Interval
  <2> QED BY <2>1, <2>2
<1>3. StrictOrder(K, R)
  BY NameOrderStrict
<1>4. f \in [1 .. C -> K]
  <2> HIDE DEF K, R
  <2> QED BY <1>2, <1>3, EnumerateInOrder
<1>5. \A k, l \in 1 .. C : k < l => <<f[k], f[l]>> \in R
  <2> HIDE DEF K, R
  <2> QED BY <1>2, <1>3, EnumerateInOrder
<1>6. r = [k \in 1 .. C |-> table[f[k]]]
  <2>1. DOMAIN table = 1 .. C
    BY <1>1, <1>2
  <2> QED BY <1>1, <1>2, <2>1 DEF SortTable
<1>7. C \in Nat
  BY <1>1, <1>2
<1> HIDE DEF f, C, R, r, K
<1> SUFFICES ASSUME NEW k \in 1 .. C, NEW l \in 1 .. C, r[k].name = r[l].name
             PROVE  k = l
  BY <1>6 DEF DistinctNames, r
<1>8. f[k] \in K /\ f[l] \in K /\ table[f[k]].name = table[f[l]].name
  BY <1>4, <1>6
<1>9. f[k] = f[l]
  BY <1>1, <1>8 DEF DistinctNames
<1>10. <<f[k], f[k]>> \notin R
  BY <1>3, <1>8 DEF StrictOrder
<1> QED BY <1>5, <1>7, <1>9, <1>10

LEMMA SortTreeWhole ==
  ASSUME NEW t, IsTree(t), Whole(t)
  PROVE  Whole(SortTree(t))
<1>1. DOMAIN SortTree(t) = DOMAIN t
  BY DEF SortTree
<1>2. ASSUME NEW p \in DOMAIN t
      PROVE  DistinctNames(SortTree(t)[p].folders) /\ FilesOwn(SortTree(t)[p].files)
  <2> DEFINE a == t[p].folders
             b == t[p].files
  <2>1. SortTree(t)[p].folders = SortTable(a) /\ SortTree(t)[p].files = SortTable(b)
    BY DEF SortTree
  <2>2. a \in Seq(ChildEntries) /\ b \in Seq(Files) /\ Named(ChildEntries) /\ Named(Files)
    BY FolderParts, TablesAreNamed
  <2>3. DistinctNames(a) /\ FilesOwn(b)
    BY WholeParts
  <2> HIDE DEF a, b
  <2>4. DistinctNames(SortTable(a))
    BY <2>2, <2>3, SortDistinct
  <2>5. SortTable(b) \in Seq(Files) /\ KeepsEntries(SortTable(b), b)
    BY <2>2, SortKeeps
  <2>6. FilesOwn(SortTable(b))
    BY <2>2, <2>3, <2>5, PickedOwn
  <2> QED BY <2>1, <2>4, <2>6
<1>3. IsFiniteSet(DOMAIN t)
  BY WholeParts
<1> QED BY <1>1, <1>2, <1>3, WholeParts

LEMMA RemovedWhole ==
  ASSUME NEW t, IsTree(t), Whole(t), NEW K
  PROVE  Whole(RemoveFrom(t, K))
<1> DEFINE w == RemoveFrom(t, K)
           L(p) == {i \in DOMAIN t[p].files : t[p].files[i].name.key \notin K}
<1>1. DOMAIN w = DOMAIN t
  BY DEF RemoveFrom
<1>2. ASSUME NEW p \in DOMAIN t
      PROVE  w[p].folders = t[p].folders /\ FilesOwn(w[p].files)
  <2> DEFINE b == t[p].files
             r == Retain(b, L(p))
             a == t[p].folders
             x == t[p]
  <2>1. w[p] = [x EXCEPT !.files = r]
    BY DEF RemoveFrom
  <2>2. x = [folders |-> a, files |-> b] /\ b \in Seq(Files)
    BY FolderParts
  <2>3. FilesOwn(b)
    BY WholeParts
  <2>4. L(p) \in SUBSET (1 .. Len(b))
    <3>1. DOMAIN b = 1 .. Len(b)
      <4> HIDE DEF b
      <4> QED BY <2>2
    <3> QED BY <3>1
  <2>5. r \in Seq(Files) /\ \A k \in 1 .. Len(r) : \E i \in L(p) : r[k] = b[i]
    <3> HIDE DEF L, b
    <3> QED BY <2>2, <2>4, RetainKeeps
  <2>6. w[p].folders = a /\ w[p].files = r
    <3> HIDE DEF x, a, b, r, w
    <3> QED BY <2>1, <2>2
  <2> HIDE DEF L, b, r
  <2>7. KeepsEntries(r, b)
    BY <2>4, <2>5 DEF KeepsEntries
  <2>8. FilesOwn(r)
    BY <2>2, <2>3, <2>5, <2>7, PickedOwn
  <2> QED BY <2>6, <2>8
<1> QED BY <1>1, <1>2, FilesWhole

LEMMA PrunedWhole ==
  ASSUME NEW t, IsTree(t), Whole(t)
  PROVE  Whole(PruneTree(t))
<1> DEFINE w == PruneTree(t)
           kept == {p \in DOMAIN t : p = <<>> \/ HoldsFiles(t, p)}
           L(p) == {i \in DOMAIN t[p].folders : Append(p, t[p].folders[i].name) \in kept}
<1>1. DOMAIN w = kept /\ kept \subseteq DOMAIN t
  BY DEF PruneTree
<1>2. ASSUME NEW p \in kept
      PROVE  DistinctNames(w[p].folders) /\ FilesOwn(w[p].files)
  <2> DEFINE b == t[p].files
             a == t[p].folders
             r == Retain(a, L(p))
             x == t[p]
  <2>0. p \in DOMAIN t
    OBVIOUS
  <2>1. w[p] = [x EXCEPT !.folders = r]
    BY DEF PruneTree
  <2>2. x = [folders |-> a, files |-> b] /\ a \in Seq(ChildEntries)
    BY <2>0, FolderParts
  <2>3. DistinctNames(a) /\ FilesOwn(b)
    BY <2>0, WholeParts
  <2>4. L(p) \in SUBSET (1 .. Len(a))
    <3>1. DOMAIN a = 1 .. Len(a)
      <4> HIDE DEF a
      <4> QED BY <2>2
    <3> QED BY <3>1
  <2>5. w[p].folders = r /\ w[p].files = b
    <3> HIDE DEF x, a, b, r, w
    <3> QED BY <2>1, <2>2
  <2> HIDE DEF L, a
  <2>6. DistinctNames(r)
    BY <2>2, <2>3, <2>4, RetainDistinct
  <2> QED BY <2>3, <2>5, <2>6
<1>3. IsFiniteSet(DOMAIN w)
  <2>1. IsFiniteSet(DOMAIN t)
    BY WholeParts
  <2> QED BY <1>1, <2>1, FS_Subset
<1> HIDE DEF kept
<1> QED BY <1>1, <1>2, <1>3, WholeParts

\* What is re-stored gets the checksum of its new bytes.
LEMMA RepackagedWhole ==
  ASSUME NEW t, IsTree(t), Whole(t), NEW done
  PROVE  Whole(RepackageIn(t, done))
<1> DEFINE w == RepackageIn(t, done)
           New(p, k) == IF \E s \in done : s.path = p /\ s.file = k
                        THEN Repackaged(t[p].files[k])
                        ELSE t[p].files[k]
<1>1. DOMAIN w = DOMAIN t
  BY DEF RepackageIn
<1>2. ASSUME NEW p \in DOMAIN t
      PROVE  w[p].folders = t[p].folders /\ FilesOwn(w[p].files)
  <2> DEFINE b == t[p].files
             a == t[p].folders
             r == [k \in DOMAIN b |-> New(p, k)]
             x == t[p]
  <2>1. w[p] = [x EXCEPT !.files = r]
    BY DEF RepackageIn
  <2>2. x = [folders |-> a, files |-> b] /\ b \in Seq(Files)
    BY FolderParts
  <2>3. w[p].folders = a /\ w[p].files = r
    <3> HIDE DEF x, a, b, r, w
    <3> QED BY <2>1, <2>2
  <2>4. FilesOwn(b)
    BY WholeParts
  <2>5. ASSUME NEW k \in DOMAIN b PROVE ChecksumOwn(New(p, k))
    <3> DEFINE f == b[k]
    <3>1. f \in Files
      <4> HIDE DEF b
      <4> QED BY <2>2
    <3>2. CASE \E s \in done : s.path = p /\ s.file = k
      <4> DEFINE storage == ArtStorage[f.name.key]
                 g == New(p, k)
      <4>1. g = [f EXCEPT !.storage = storage, !.verify = "None",
                          !.crc = {[data |-> f.data, storage |-> storage]}]
        BY <3>2 DEF Repackaged
      <4> HIDE DEF f, storage, g
      <4>2. g.data = f.data /\ g.storage = storage /\ g.crc = {[data |-> f.data, storage |-> storage]}
        BY <3>1, <4>1 DEF Files
      <4>3. ChecksumOwn(g)
        BY <4>2 DEF ChecksumOwn, Stored
      <4> QED BY <4>3 DEF g
    <3>3. CASE ~ \E s \in done : s.path = p /\ s.file = k
      BY <2>4, <3>3 DEF FilesOwn
    <3> QED BY <3>2, <3>3
  <2> HIDE DEF b, New
  <2>6. FilesOwn(r)
    BY <2>5 DEF FilesOwn
  <2> QED BY <2>3, <2>6
<1> QED BY <1>1, <1>2, FilesWhole

(***************************************************************************)
(* Putting a file in.                                                      *)
(***************************************************************************)
LEMMA InsertDistinct ==
  ASSUME NEW E, NEW table \in Seq(E), NEW e \in E, NEW i \in 1 .. Len(table) + 1,
         DistinctNames(table), \A k \in 1 .. Len(table) : table[k].name # e.name
  PROVE  DistinctNames(InsertAt(table, i, e))
<1> DEFINE r == InsertAt(table, i, e)
           n == Len(table)
<1>1. n \in Nat /\ DOMAIN table = 1 .. n
  OBVIOUS
<1>2. r \in Seq(E) /\ Inserted(table, r, i, e)
  BY InsertedThere
<1> HIDE DEF r
<1>3. i \in 1 .. n + 1 /\ Len(r) = n + 1
      /\ \A j \in 1 .. Len(r) : r[j] = IF j < i THEN table[j] ELSE IF j = i THEN e ELSE table[j - 1]
  BY <1>2 DEF Inserted
<1>4. DOMAIN r = 1 .. n + 1
  BY <1>2, <1>3
<1> HIDE DEF n
<1>5. \A j \in 1 .. n + 1 : r[j] = IF j < i THEN table[j] ELSE IF j = i THEN e ELSE table[j - 1]
  BY <1>3
<1>6. \A k, l \in 1 .. n : table[k].name = table[l].name => k = l
  BY <1>1 DEF DistinctNames
<1>7. \A k \in 1 .. n : table[k].name # e.name
  BY DEF n
<1>8. ASSUME NEW j \in 1 .. n + 1, j # i
      PROVE  LET k == IF j < i THEN j ELSE j - 1 IN k \in 1 .. n /\ r[j] = table[k]
  BY <1>1, <1>3, <1>5, <1>8
<1> SUFFICES ASSUME NEW j \in 1 .. n + 1, NEW l \in 1 .. n + 1, r[j].name = r[l].name
             PROVE  j = l
  BY <1>4 DEF DistinctNames, r
<1>9. CASE j = i /\ l # i
  BY <1>3, <1>5, <1>7, <1>8, <1>9
<1>10. CASE l = i /\ j # i
  BY <1>3, <1>5, <1>7, <1>8, <1>10
<1>11. CASE j # i /\ l # i
  <2>1. PICK k : k = (IF j < i THEN j ELSE j - 1) /\ k \in 1 .. n /\ r[j] = table[k]
    BY <1>8, <1>11
  <2>2. PICK m : m = (IF l < i THEN l ELSE l - 1) /\ m \in 1 .. n /\ r[l] = table[m]
    BY <1>8, <1>11
  <2>3. k = m
    BY <1>6, <2>1, <2>2
  <2> QED BY <1>3, <1>11, <2>1, <2>2, <2>3
<1> QED BY <1>9, <1>10, <1>11

LEMMA InsertOwn ==
  ASSUME NEW table \in Seq(Files), NEW entry \in Files, FilesOwn(table), ChecksumOwn(entry),
         NEW r \in InsertOrReplace(table, entry)
  PROVE  r \in Seq(Files) /\ FilesOwn(r)
<1> DEFINE i == Position(table, entry.name)
<1>1. Named(Files)
  BY TablesAreNamed
<1>2. r \in Seq(Files)
  BY <1>1, InsertOrReplaceKeeps
<1>3. DOMAIN r = 1 .. Len(r) /\ DOMAIN table = 1 .. Len(table)
  BY <1>2
<1>4. \A j \in 1 .. Len(r) : r[j] = entry \/ \E k \in 1 .. Len(table) : r[j] = table[k]
  <2>1. CASE i # 0
    <3>1. r = [table EXCEPT ![i] = entry]
      BY <2>1 DEF InsertOrReplace
    <3> HIDE DEF i
    <3> QED BY <1>3, <3>1
  <2>2. CASE i = 0
    <3>1. PICK at \in PartitionPoints(table, entry.name.key) : r = InsertAt(table, at + 1, entry)
      BY <2>2 DEF InsertOrReplace
    <3> QED BY <1>1, <3>1, InsertKeeps
  <2> QED BY <2>1, <2>2
<1>5. \A k \in 1 .. Len(table) : ChecksumOwn(table[k])
  BY <1>3 DEF FilesOwn
<1> QED BY <1>2, <1>3, <1>4, <1>5 DEF FilesOwn

(***************************************************************************)
(* What the edits keep of a walk: the members that remember their places   *)
(* stay in the order they are walked in.                                   *)
(***************************************************************************)
\* Two names that both tables list stand in the same order in both.
NamesKept(a, b) ==
  \A k, l \in DOMAIN a, m, n \in DOMAIN b :
    a[k].name = b[m].name /\ a[l].name = b[n].name /\ k < l => m < n

LEMMA PositionDistinct ==
  ASSUME NEW table \in Seq(ChildEntries), DistinctNames(table), NEW k \in DOMAIN table
  PROVE  Position(table, table[k].name) = k
<1>1. Len(table) \in Nat /\ DOMAIN table = 1 .. Len(table)
  OBVIOUS
<1> DEFINE i == Position(table, table[k].name)
<1>2. i \in 0 .. Len(table) /\ (i = 0 => \A j \in 1 .. Len(table) : table[j].name # table[k].name)
      /\ (i # 0 => table[i].name = table[k].name)
  BY PositionFound
<1> HIDE DEF i
<1>3. i \in DOMAIN table
  BY <1>1, <1>2
<1>4. i = k
  BY <1>1, <1>2, <1>3 DEF DistinctNames
<1> QED BY <1>4 DEF i

LEMMA SameNamesKept ==
  ASSUME NEW a \in Seq(ChildEntries), DistinctNames(a)
  PROVE  NamesKept(a, a)
<1>1. DOMAIN a = 1 .. Len(a) /\ Len(a) \in Nat
  OBVIOUS
<1> QED BY <1>1 DEF NamesKept, DistinctNames

LEMMA RetainedNamesKept ==
  ASSUME NEW a \in Seq(ChildEntries), DistinctNames(a), NEW K \in SUBSET (1 .. Len(a))
  PROVE  NamesKept(a, Retain(a, K))
<1> DEFINE R == {p \in K \X K : p[1] < p[2]}
           order == Enumerate(K, R)
           C == Cardinality(K)
           b == Retain(a, K)
<1>1. Len(a) \in Nat /\ DOMAIN a = 1 .. Len(a)
  OBVIOUS
<1>2. IsFiniteSet(K)
  <2>1. IsFiniteSet(1 .. Len(a))
    BY <1>1, FS_Interval
  <2> QED BY <2>1, FS_Subset
<1>3. StrictOrder(K, R)
  <2>1. \A i \in K : i \in Nat
    BY <1>1
  <2> QED BY <2>1 DEF StrictOrder
<1>4. /\ C \in Nat /\ order \in [1 .. C -> K]
      /\ \A k, l \in 1 .. C : k < l => <<order[k], order[l]>> \in R
  <2> HIDE DEF R
  <2> QED BY <1>2, <1>3, EnumerateInOrder
<1>5. DOMAIN b = 1 .. C /\ \A k \in 1 .. C : b[k] = a[order[k]]
  BY DEF Retain
<1>6. \A k, l \in 1 .. C : k < l => order[k] < order[l]
  <2> HIDE DEF order, C
  <2> QED BY <1>4
<1> HIDE DEF order, C, b, R
<1>7. \A k \in 1 .. C : order[k] \in DOMAIN a
  BY <1>1, <1>4
<1> SUFFICES ASSUME NEW k \in DOMAIN a, NEW l \in DOMAIN a, NEW m \in DOMAIN b, NEW n \in DOMAIN b,
                    a[k].name = b[m].name, a[l].name = b[n].name, k < l
             PROVE  m < n
  BY DEF NamesKept, b
<1>8. m \in 1 .. C /\ n \in 1 .. C
  BY <1>5
<1>9. order[m] = k /\ order[n] = l
  BY <1>5, <1>7, <1>8 DEF DistinctNames
<1>10. ~ n < m /\ m # n
  <2>1. m # n
    BY <1>1, <1>9
  <2>2. ~ n < m
    <3> SUFFICES ASSUME n < m PROVE FALSE
      OBVIOUS
    <3>1. order[n] < order[m]
      BY <1>6, <1>8
    <3> QED BY <1>1, <1>9, <3>1
  <2> QED BY <2>1, <2>2
<1> QED BY <1>4, <1>8, <1>10

LEMMA InsertedNamesKept ==
  ASSUME NEW a \in Seq(ChildEntries), DistinctNames(a), NEW e \in ChildEntries, NEW i \in 1 .. Len(a) + 1,
         \A k \in 1 .. Len(a) : a[k].name # e.name
  PROVE  NamesKept(a, InsertAt(a, i, e))
<1> DEFINE b == InsertAt(a, i, e)
           from(m) == IF m < i THEN m ELSE m - 1
<1>1. Len(a) \in Nat /\ DOMAIN a = 1 .. Len(a)
  OBVIOUS
<1>2. b \in Seq(ChildEntries) /\ Inserted(a, b, i, e)
  BY InsertedThere
<1> HIDE DEF b
<1>3. DOMAIN b = 1 .. Len(a) + 1
  BY <1>2 DEF Inserted
<1>4. ASSUME NEW k \in DOMAIN a, NEW m \in DOMAIN b, a[k].name = b[m].name
      PROVE  from(m) = k /\ m # i
  <2>1. m # i
    BY <1>1, <1>2, <1>3, <1>4 DEF Inserted
  <2>2. from(m) \in DOMAIN a
    BY <1>1, <1>3, <2>1
  <2>3. b[m] = a[from(m)]
    BY <1>2, <1>3, <2>1 DEF Inserted
  <2> HIDE DEF from
  <2> QED BY <1>4, <2>1, <2>2, <2>3 DEF DistinctNames
<1> SUFFICES ASSUME NEW k \in DOMAIN a, NEW l \in DOMAIN a, NEW m \in DOMAIN b, NEW n \in DOMAIN b,
                    a[k].name = b[m].name, a[l].name = b[n].name, k < l
             PROVE  m < n
  BY DEF NamesKept, b
<1>5. from(m) = k /\ from(n) = l /\ m # i /\ n # i
  BY <1>4
<1> QED BY <1>1, <1>3, <1>5

LEMMA PositionsKept ==
  ASSUME NEW a \in Seq(ChildEntries), DistinctNames(a), NEW b \in Seq(ChildEntries), DistinctNames(b),
         NamesKept(a, b), NEW k \in DOMAIN a, NEW l \in DOMAIN a, NEW m \in DOMAIN b, NEW n \in DOMAIN b,
         a[k].name = b[m].name, a[l].name = b[n].name
  PROVE  Position(a, a[k].name) < Position(a, a[l].name) => Position(b, a[k].name) < Position(b, a[l].name)
<1>1. Position(a, a[k].name) = k /\ Position(a, a[l].name) = l
  BY PositionDistinct
<1>2. Position(b, b[m].name) = m /\ Position(b, b[n].name) = n
  BY PositionDistinct
<1>3. Position(b, a[k].name) = m /\ Position(b, a[l].name) = n
  BY <1>2
<1> QED BY <1>1, <1>3 DEF NamesKept

\* A tree whose folders are in the order another has them in.
FoldersInOrder(t, u) ==
  \A p \in DOMAIN t : p \in DOMAIN u => NamesKept(t[p].folders, u[p].folders)

LEMMA DepthKept ==
  ASSUME NEW t, IsTree(t), Whole(t), NEW u, IsTree(u), Whole(u), FoldersInOrder(t, u),
         NEW p \in DOMAIN t, NEW q \in DOMAIN t, p \in DOMAIN u, q \in DOMAIN u, DepthFirst(t, p, q)
  PROVE  DepthFirst(u, p, q)
<1>1. p \in Seq(Names) /\ q \in Seq(Names)
  BY FolderParts
<1>2. p # q
  BY DepthFirstOrders
<1>3. CASE IsPrefix(p, q)
  BY <1>2, <1>3 DEF DepthFirst, IsStrictPrefix
<1>4. CASE IsPrefix(q, p)
  <2>1. DepthFirst(t, q, p)
    BY <1>2, <1>4 DEF DepthFirst, IsStrictPrefix
  <2> QED BY <2>1, DepthFirstOrders
<1>5. ASSUME NEW i \in Nat, Parts(p, q, i) PROVE DepthFirst(u, p, q)
  <2> DEFINE s == SubSeq(p, 1, i - 1)
  <2>1. Rank(t, p, i) < Rank(t, q, i)
    BY <1>5, RanksDiffer
  <2>2. /\ i \in 1 .. Len(p) /\ i <= Len(q) /\ i - 1 \in 0 .. Len(p) /\ i - 1 \in 0 .. Len(q)
        /\ i - 1 < Len(p) /\ i - 1 < Len(q) /\ (i - 1) + 1 = i
        /\ \A j \in 1 .. i - 1 : p[j] = q[j]
    BY <1>1, <1>5 DEF Parts
  <2>3. s = SubSeq(q, 1, i - 1)
    BY <1>1, <2>2, RankAfterSame
  <2>4. s \in DOMAIN t /\ s \in DOMAIN u
    BY <2>2, FoldersAbove
  <2>5. PICK k \in DOMAIN t[s].folders : t[s].folders[k].name = p[i]
    <3>1. \E x \in DOMAIN t[s].folders : t[s].folders[x].name = p[(i - 1) + 1]
      BY <2>2, FoldersAbove
    <3> QED BY <2>2, <3>1
  <2>6. PICK l \in DOMAIN t[s].folders : t[s].folders[l].name = q[i]
    <3> DEFINE r == SubSeq(q, 1, i - 1)
    <3>1. \E x \in DOMAIN t[r].folders : t[r].folders[x].name = q[(i - 1) + 1]
      BY <2>2, FoldersAbove
    <3>2. s = r
      BY <2>3
    <3> HIDE DEF s, r
    <3> QED BY <2>2, <3>1, <3>2
  <2>7. PICK m \in DOMAIN u[s].folders : u[s].folders[m].name = p[i]
    <3>1. \E x \in DOMAIN u[s].folders : u[s].folders[x].name = p[(i - 1) + 1]
      BY <2>2, FoldersAbove
    <3> QED BY <2>2, <3>1
  <2>8. PICK n \in DOMAIN u[s].folders : u[s].folders[n].name = q[i]
    <3> DEFINE r == SubSeq(q, 1, i - 1)
    <3>1. \E x \in DOMAIN u[r].folders : u[r].folders[x].name = q[(i - 1) + 1]
      BY <2>2, FoldersAbove
    <3>2. s = r
      BY <2>3
    <3> HIDE DEF s, r
    <3> QED BY <2>2, <3>1, <3>2
  <2>9. /\ t[s].folders \in Seq(ChildEntries) /\ DistinctNames(t[s].folders)
        /\ u[s].folders \in Seq(ChildEntries) /\ DistinctNames(u[s].folders)
        /\ NamesKept(t[s].folders, u[s].folders)
    BY <2>4, FolderParts, WholeParts DEF FoldersInOrder
  <2>10. /\ Rank(t, p, i) = Position(t[s].folders, p[i]) /\ Rank(t, q, i) = Position(t[s].folders, q[i])
         /\ Rank(u, p, i) = Position(u[s].folders, p[i]) /\ Rank(u, q, i) = Position(u[s].folders, q[i])
    BY <2>3 DEF Rank
  <2> HIDE DEF s
  <2>11. Position(u[s].folders, p[i]) < Position(u[s].folders, q[i])
    BY <2>1, <2>5, <2>6, <2>7, <2>8, <2>9, <2>10, PositionsKept
  <2> QED BY <1>5, <2>10, <2>11, RanksDiffer
<1> QED BY <1>1, <1>3, <1>4, <1>5, PathsPartOrLead

\* A table of files that has taken its placed members from another, in order.
Follow(a, b, m) ==
  /\ \A k \in DOMAIN b : b[k].order # NoOrder =>
       m[k] \in DOMAIN a /\ a[m[k]].data = b[k].data /\ a[m[k]].order = b[k].order
  /\ \A k, l \in DOMAIN b :
       b[k].order # NoOrder /\ b[l].order # NoOrder /\ m[k] < m[l] => k < l

TableFollows(a, b) == \E m : Follow(a, b, m)

Unplaced(table) == \A k \in DOMAIN table : table[k].order = NoOrder

LEMMA SameFollows ==
  ASSUME NEW a, NEW b, DOMAIN b = DOMAIN a,
         \A k \in DOMAIN b : b[k].order # NoOrder => b[k].data = a[k].data /\ b[k].order = a[k].order
  PROVE  TableFollows(a, b)
<1> DEFINE m == [k \in DOMAIN b |-> k]
<1>1. \A k \in DOMAIN b : m[k] = k
  OBVIOUS
<1> HIDE DEF m
<1>2. Follow(a, b, m)
  BY <1>1 DEF Follow
<1> QED BY <1>2 DEF TableFollows

LEMMA RetainedFollows ==
  ASSUME NEW a \in Seq(Files), NEW K \in SUBSET (1 .. Len(a))
  PROVE  TableFollows(a, Retain(a, K))
<1> DEFINE R == {p \in K \X K : p[1] < p[2]}
           order == Enumerate(K, R)
           C == Cardinality(K)
           b == Retain(a, K)
<1>1. Len(a) \in Nat /\ DOMAIN a = 1 .. Len(a)
  OBVIOUS
<1>2. IsFiniteSet(K)
  <2>1. IsFiniteSet(1 .. Len(a))
    BY <1>1, FS_Interval
  <2> QED BY <2>1, FS_Subset
<1>3. StrictOrder(K, R)
  <2>1. \A i \in K : i \in Nat
    BY <1>1
  <2> QED BY <2>1 DEF StrictOrder
<1>4. /\ C \in Nat /\ order \in [1 .. C -> K]
      /\ \A k, l \in 1 .. C : k < l => <<order[k], order[l]>> \in R
  <2> HIDE DEF R
  <2> QED BY <1>2, <1>3, EnumerateInOrder
<1>5. DOMAIN b = 1 .. C /\ \A k \in 1 .. C : b[k] = a[order[k]]
  BY DEF Retain
<1>6. \A k, l \in 1 .. C : k < l => order[k] < order[l]
  <2> HIDE DEF order, C
  <2> QED BY <1>4
<1> HIDE DEF order, C, b, R
<1>7. \A k \in 1 .. C : order[k] \in DOMAIN a /\ order[k] \in Nat
  <2>1. \A k \in 1 .. C : order[k] \in K
    BY <1>4
  <2> DEFINE n == Len(a)
  <2>2. \A k \in K : k \in 1 .. n
    OBVIOUS
  <2>3. n \in Nat /\ DOMAIN a = 1 .. n
    BY <1>1
  <2> HIDE DEF n
  <2>4. \A k \in 1 .. C : order[k] \in 1 .. n
    BY <2>1, <2>2
  <2>5. \A i \in 1 .. n : i \in Nat
    BY <2>3
  <2> QED BY <2>3, <2>4, <2>5
<1>8. ASSUME NEW k \in 1 .. C, NEW l \in 1 .. C, order[k] < order[l] PROVE k < l
  <2>1. k # l
    BY <1>7, <1>8
  <2>2. ~ l < k
    <3> SUFFICES ASSUME l < k PROVE FALSE
      OBVIOUS
    <3>1. order[l] < order[k]
      BY <1>6
    <3>2. order[l] \in Nat /\ order[k] \in Nat
      BY <1>7
    <3> QED BY <1>8, <3>1, <3>2
  <2> QED BY <1>4, <2>1, <2>2
<1>9. Follow(a, b, order)
  BY <1>5, <1>7, <1>8 DEF Follow
<1> QED BY <1>9 DEF TableFollows, b

LEMMA InsertedFollows ==
  ASSUME NEW a \in Seq(Files), NEW e \in Files, e.order = NoOrder, NEW i \in 1 .. Len(a) + 1
  PROVE  TableFollows(a, InsertAt(a, i, e))
<1> DEFINE b == InsertAt(a, i, e)
           m == [k \in DOMAIN b |-> IF k < i THEN k ELSE k - 1]
<1>1. Len(a) \in Nat /\ DOMAIN a = 1 .. Len(a)
  OBVIOUS
<1>2. b \in Seq(Files) /\ Inserted(a, b, i, e)
  BY InsertedThere
<1> HIDE DEF b
<1>3. DOMAIN b = 1 .. Len(a) + 1
  BY <1>2 DEF Inserted
<1>4. \A k \in DOMAIN b : m[k] = IF k < i THEN k ELSE k - 1
  OBVIOUS
<1> HIDE DEF m
<1>5. ASSUME NEW k \in DOMAIN b, b[k].order # NoOrder
      PROVE  k # i /\ m[k] \in DOMAIN a /\ b[k] = a[m[k]]
  <2>1. k # i
    BY <1>2, <1>3, <1>5 DEF Inserted
  <2>2. m[k] \in DOMAIN a
    BY <1>1, <1>3, <1>4, <2>1
  <2>3. b[k] = a[m[k]]
    BY <1>2, <1>3, <1>4, <2>1 DEF Inserted
  <2> QED BY <2>1, <2>2, <2>3
<1>6. ASSUME NEW k \in DOMAIN b, NEW l \in DOMAIN b, b[k].order # NoOrder, b[l].order # NoOrder, m[k] < m[l]
      PROVE  k < l
  <2>1. k # i /\ l # i
    BY <1>5, <1>6
  <2>2. (IF k < i THEN k ELSE k - 1) < (IF l < i THEN l ELSE l - 1)
    BY <1>4, <1>6
  <2> QED BY <1>1, <1>3, <2>1, <2>2
<1>7. Follow(a, b, m)
  BY <1>5, <1>6 DEF Follow
<1> QED BY <1>7 DEF TableFollows, b

LEMMA PutFollows ==
  ASSUME NEW a \in Seq(Files), NEW e \in Files, e.order = NoOrder, NEW r \in InsertOrReplace(a, e)
  PROVE  TableFollows(a, r)
<1> DEFINE i == Position(a, e.name)
<1>1. Len(a) \in Nat /\ DOMAIN a = 1 .. Len(a) /\ i \in 0 .. Len(a)
  BY PositionFound
<1>2. CASE i # 0
  <2>1. r = [a EXCEPT ![i] = e]
    BY <1>2 DEF InsertOrReplace
  <2> HIDE DEF i
  <2>2. DOMAIN r = DOMAIN a /\ \A k \in DOMAIN r : r[k] = IF k = i THEN e ELSE a[k]
    BY <2>1
  <2>3. \A k \in DOMAIN r : r[k].order # NoOrder => r[k] = a[k]
    BY <2>2
  <2> QED BY <2>2, <2>3, SameFollows
<1>3. CASE i = 0
  <2>1. PICK at \in PartitionPoints(a, e.name.key) : r = InsertAt(a, at + 1, e)
    BY <1>3 DEF InsertOrReplace
  <2>2. at \in 0 .. Len(a)
    BY DEF PartitionPoints, Splits
  <2>3. at + 1 \in 1 .. Len(a) + 1
    BY <1>1, <2>2
  <2> QED BY <2>1, <2>3, InsertedFollows
<1> QED BY <1>2, <1>3

\* A tree whose folders and placed members are in the order another has them in.
TreeFollows(t, u) ==
  /\ FoldersInOrder(t, u)
  /\ \A p \in DOMAIN u : \/ Unplaced(u[p].files)
                         \/ p \in DOMAIN t /\ TableFollows(t[p].files, u[p].files)

LEMMA NothingFollows ==
  ASSUME NEW b, TableFollows(<<>>, b)
  PROVE  Unplaced(b)
<1>1. PICK m : Follow(<<>>, b, m)
  BY DEF TableFollows
<1>2. DOMAIN <<>> = {}
  OBVIOUS
<1> QED BY <1>1, <1>2 DEF Follow, Unplaced

LEMMA FilesFollow ==
  ASSUME NEW t, IsTree(t), Whole(t), NEW u, DOMAIN u = DOMAIN t,
         \A p \in DOMAIN t : u[p].folders = t[p].folders /\ TableFollows(t[p].files, u[p].files)
  PROVE  TreeFollows(t, u)
<1>1. ASSUME NEW p \in DOMAIN t PROVE NamesKept(t[p].folders, u[p].folders)
  <2>1. t[p].folders \in Seq(ChildEntries) /\ DistinctNames(t[p].folders)
    BY FolderParts, WholeParts
  <2> QED BY <2>1, SameNamesKept
<1> QED BY <1>1 DEF TreeFollows, FoldersInOrder

LEMMA TreeItself ==
  ASSUME NEW t, IsTree(t), Whole(t)
  PROVE  TreeFollows(t, t)
<1>1. \A p \in DOMAIN t : TableFollows(t[p].files, t[p].files)
  BY SameFollows
<1> QED BY <1>1, FilesFollow

LEMMA RemovedTreeFollows ==
  ASSUME NEW t, IsTree(t), Whole(t), NEW K
  PROVE  TreeFollows(t, RemoveFrom(t, K))
<1> DEFINE w == RemoveFrom(t, K)
<1>1. ASSUME NEW p \in DOMAIN t
      PROVE  w[p].folders = t[p].folders /\ TableFollows(t[p].files, w[p].files)
  <2> DEFINE b == t[p].files
             a == t[p].folders
             x == t[p]
             L == {i \in DOMAIN b : b[i].name.key \notin K}
  <2>1. x = [folders |-> a, files |-> b] /\ b \in Seq(Files)
    BY FolderParts
  <2>2. w[p] = [x EXCEPT !.files = Retain(@, {i \in DOMAIN @ : @[i].name.key \notin K})]
    BY DEF RemoveFrom
  <2>3. L \in SUBSET (1 .. Len(b))
    <3> HIDE DEF b
    <3>1. DOMAIN b = 1 .. Len(b)
      BY <2>1
    <3> QED BY <3>1
  <2> HIDE DEF a, b, x, w
  <2>4. w[p].folders = a /\ w[p].files = Retain(b, L)
    BY <2>1, <2>2
  <2> HIDE DEF L
  <2>5. TableFollows(b, Retain(b, L))
    BY <2>1, <2>3, RetainedFollows
  <2> QED BY <2>4, <2>5 DEF a, b
<1>2. DOMAIN w = DOMAIN t
  BY DEF RemoveFrom
<1> HIDE DEF w
<1>3. TreeFollows(t, w)
  BY <1>1, <1>2, FilesFollow
<1> QED BY <1>3 DEF w

LEMMA RepackagedTreeFollows ==
  ASSUME NEW t, IsTree(t), Whole(t), NEW done
  PROVE  TreeFollows(t, RepackageIn(t, done))
<1> DEFINE w == RepackageIn(t, done)
<1>1. ASSUME NEW p \in DOMAIN t
      PROVE  w[p].folders = t[p].folders /\ TableFollows(t[p].files, w[p].files)
  <2> DEFINE b == t[p].files
             a == t[p].folders
             x == t[p]
             r == [k \in DOMAIN b |-> IF \E s \in done : s.path = p /\ s.file = k THEN Repackaged(b[k]) ELSE b[k]]
  <2>1. x = [folders |-> a, files |-> b] /\ b \in Seq(Files)
    BY FolderParts
  <2>2. w[p] = [x EXCEPT !.files = [k \in DOMAIN @ |->
                                      IF \E s \in done : s.path = p /\ s.file = k THEN Repackaged(@[k]) ELSE @[k]]]
    BY DEF RepackageIn
  <2> HIDE DEF a, b, x, w
  <2>3. w[p].folders = a /\ w[p].files = r
    BY <2>1, <2>2
  <2>4. ASSUME NEW k \in DOMAIN b PROVE r[k].data = b[k].data /\ r[k].order = b[k].order
    <3>1. b[k] \in Files
      BY <2>1
    <3>2. Repackaged(b[k]).data = b[k].data /\ Repackaged(b[k]).order = b[k].order
      <4> DEFINE f == b[k]
      <4> HIDE DEF f
      <4>1. f \in Files
        BY <3>1 DEF f
      <4>2. Repackaged(f).data = f.data /\ Repackaged(f).order = f.order
        BY <4>1 DEF Repackaged, Files
      <4> QED BY <4>2 DEF f
    <3> QED BY <3>2
  <2>5. DOMAIN r = DOMAIN b
    OBVIOUS
  <2> HIDE DEF r
  <2>6. TableFollows(b, r)
    BY <2>4, <2>5, SameFollows
  <2> QED BY <2>3, <2>6 DEF a, b
<1>2. DOMAIN w = DOMAIN t
  BY DEF RepackageIn
<1> HIDE DEF w
<1>3. TreeFollows(t, w)
  BY <1>1, <1>2, FilesFollow
<1> QED BY <1>3 DEF w

LEMMA OverwrittenTreeFollows ==
  ASSUME NEW t, IsTree(t), Whole(t), NEW rel \in Seq(Names) \ {<<>>},
         NEW file \in Files, file.order = NoOrder, Dirs(rel) \in DOMAIN t
  PROVE  TreeFollows(t, Overwrite(t, rel, file))
<1> DEFINE dirs == Dirs(rel)
           b == t[dirs].files
           n == FoldedPosition(b, Last(rel))
           r == [b EXCEPT ![n] = file]
           w == Overwrite(t, rel, file)
<1>1. w = [t EXCEPT ![dirs].files = r]
  BY DEF Overwrite
<1>2. t[dirs] = [folders |-> t[dirs].folders, files |-> b] /\ b \in Seq(Files)
  BY FolderParts
<1> HIDE DEF n, b, w
<1>3. TableFollows(b, r)
  <2>1. DOMAIN r = DOMAIN b /\ \A k \in DOMAIN r : r[k] = IF k = n THEN file ELSE b[k]
    OBVIOUS
  <2>2. \A k \in DOMAIN r : r[k].order # NoOrder => r[k] = b[k]
    BY <2>1
  <2> HIDE DEF r
  <2> QED BY <2>1, <2>2, SameFollows
<1> HIDE DEF r
<1>4. DOMAIN w = DOMAIN t /\ w[dirs] = [t[dirs] EXCEPT !.files = r] /\ \A p \in DOMAIN t : p # dirs => w[p] = t[p]
  BY <1>1
<1> HIDE DEF dirs
<1>5. w[dirs].folders = t[dirs].folders /\ w[dirs].files = r
  BY <1>2, <1>4
<1>6. ASSUME NEW p \in DOMAIN t
      PROVE  w[p].folders = t[p].folders /\ TableFollows(t[p].files, w[p].files)
  <2>1. CASE p = dirs
    BY <1>3, <1>5, <2>1 DEF b
  <2>2. CASE p # dirs
    <3>1. TableFollows(t[p].files, t[p].files)
      BY SameFollows
    <3> QED BY <1>4, <2>2, <3>1
  <2> QED BY <2>1, <2>2
<1>7. TreeFollows(t, w)
  BY <1>4, <1>6, FilesFollow
<1> QED BY <1>7 DEF w

LEMMA PrunedTreeFollows ==
  ASSUME NEW t, IsTree(t), Whole(t)
  PROVE  TreeFollows(t, PruneTree(t))
<1> DEFINE w == PruneTree(t)
           kept == {p \in DOMAIN t : p = <<>> \/ HoldsFiles(t, p)}
           L(p) == {i \in DOMAIN t[p].folders : Append(p, t[p].folders[i].name) \in kept}
<1>1. DOMAIN w = kept /\ kept \subseteq DOMAIN t
  BY DEF PruneTree
<1>2. ASSUME NEW p \in kept
      PROVE  NamesKept(t[p].folders, w[p].folders) /\ TableFollows(t[p].files, w[p].files)
  <2> DEFINE b == t[p].files
             a == t[p].folders
             r == Retain(a, L(p))
             x == t[p]
  <2>0. p \in DOMAIN t
    OBVIOUS
  <2>1. w[p] = [x EXCEPT !.folders = r]
    BY DEF PruneTree
  <2>2. x = [folders |-> a, files |-> b] /\ a \in Seq(ChildEntries)
    BY <2>0, FolderParts
  <2>3. DistinctNames(a)
    BY <2>0, WholeParts
  <2>4. L(p) \in SUBSET (1 .. Len(a))
    <3>1. DOMAIN a = 1 .. Len(a)
      <4> HIDE DEF a
      <4> QED BY <2>2
    <3> QED BY <3>1
  <2>5. w[p].folders = r /\ w[p].files = b
    <3> HIDE DEF x, a, b, r, w
    <3> QED BY <2>1, <2>2
  <2>6. TableFollows(b, b)
    BY SameFollows
  <2> HIDE DEF L, a, b
  <2>7. NamesKept(a, r)
    BY <2>2, <2>3, <2>4, RetainedNamesKept
  <2> QED BY <2>5, <2>6, <2>7 DEF a, b
<1> HIDE DEF kept, w
<1>3. TreeFollows(t, w)
  BY <1>1, <1>2 DEF TreeFollows, FoldersInOrder
<1> QED BY <1>3 DEF w

(***************************************************************************)
(* Inserting into a tree, which may make folders.                          *)
(***************************************************************************)
\* A folder that is made has a name its siblings do not have: it was not there,
\* and every listed folder is.
LEMMA DescendWhole ==
  ASSUME NEW t, IsTree(t), Whole(t), NEW dirs \in Seq(Names),
         \A i \in 1 .. Len(dirs) : IsLower(dirs[i]),
         NEW u \in Descend(t, dirs)
  PROVE  Whole(u) /\ FoldersInOrder(t, u)
<1> DEFINE n == Depth(t, dirs)
           P(m) == SubSeq(dirs, 1, m)
           Made(m) == [name |-> dirs[m]]
           missing == {P(m) : m \in n + 1 .. Len(dirs)}
           Fresh(p) == [folders |-> IF p = dirs THEN <<>> ELSE <<Made(Len(p) + 1)>>,
                        files   |-> <<>>]
<1>1. /\ Len(dirs) \in Nat /\ n \in 0 .. Len(dirs)
      /\ P(n) \in DOMAIN t
      /\ n < Len(dirs) => P(n + 1) \notin DOMAIN t
  BY DepthStops
<1>3. CASE missing = {}
  <2>1. u = t
    BY <1>3 DEF Descend
  <2>2. ASSUME NEW p \in DOMAIN t PROVE NamesKept(t[p].folders, t[p].folders)
    BY FolderParts, WholeParts, SameNamesKept
  <2> QED BY <2>1, <2>2 DEF FoldersInOrder
<1>4. CASE missing # {}
  <2> DEFINE table == t[P(n)].folders
  <2>1. PICK at \in PartitionPoints(table, dirs[n + 1].key) :
          u = [p \in DOMAIN t \cup missing |->
                 IF p \in missing THEN Fresh(p)
                 ELSE IF p = P(n)
                      THEN [t[p] EXCEPT !.folders = InsertAt(@, at + 1, Made(n + 1))]
                      ELSE t[p]]
    BY <1>4 DEF Descend
  <2>2. n + 1 \in 1 .. Len(dirs) /\ n \in 0 .. Len(dirs) - 1 /\ n \in Nat
    BY <1>1, <1>4
  <2>3. Made(n + 1) \in ChildEntries /\ dirs[n + 1] \in Names /\ Made(n + 1).name = dirs[n + 1]
    BY <2>2 DEF ChildEntries
  <2>4. missing \cap DOMAIN t = {}
    BY MissingBelow
  <2>5. Append(P(n), dirs[n + 1]) = P(n + 1) /\ P(n + 1) \notin DOMAIN t
    BY <1>1, <2>2, PrefixGrows
  <2>6. /\ table \in Seq(ChildEntries)
        /\ DOMAIN table = 1 .. Len(table) /\ Len(table) \in Nat
        /\ t[P(n)] = [folders |-> table, files |-> t[P(n)].files]
    BY <1>1, FolderParts
  <2> DEFINE c == Made(n + 1)
             grown == InsertAt(table, at + 1, c)
  <2>7. at \in 0 .. Len(table)
    BY <2>1 DEF PartitionPoints, Splits
  <2>8. /\ DOMAIN u = DOMAIN t \cup missing
        /\ \A p \in missing : u[p] = Fresh(p)
        /\ u[P(n)] = [folders |-> grown, files |-> t[P(n)].files]
        /\ \A p \in DOMAIN t : p # P(n) => u[p] = t[p]
    <3> HIDE DEF missing, Fresh, P, Made, n, table
    <3>1. P(n) \notin missing
      BY <1>1, <2>4
    <3>2. [t[P(n)] EXCEPT !.folders = InsertAt(@, at + 1, Made(n + 1))]
            = [folders |-> grown, files |-> t[P(n)].files]
      BY <2>6 DEF table
    <3> QED BY <1>1, <2>1, <2>4, <3>1, <3>2
  <2>9. \A k \in 1 .. Len(table) : table[k].name # c.name
    <3> SUFFICES ASSUME NEW k \in 1 .. Len(table), table[k].name = dirs[n + 1] PROVE FALSE
      BY <2>3
    <3>1. Append(P(n), table[k].name) \in DOMAIN t
      <4>1. k \in DOMAIN t[P(n)].folders
        BY <2>6
      <4> HIDE DEF P
      <4> QED BY <1>1, <4>1 DEF IsTree
    <3> QED BY <2>5, <3>1
  <2>10. DistinctNames(table) /\ FilesOwn(t[P(n)].files)
    BY <1>1, WholeParts
  <2>11. DistinctNames(grown) /\ NamesKept(table, grown)
    <3>1. at + 1 \in 1 .. Len(table) + 1
      BY <2>6, <2>7
    <3> DEFINE i == at + 1
    <3> HIDE DEF table, c, i
    <3>2. DistinctNames(InsertAt(table, i, c)) /\ NamesKept(table, InsertAt(table, i, c))
      BY <2>3, <2>6, <2>9, <2>10, <3>1, InsertDistinct, InsertedNamesKept DEF c, i
    <3> QED BY <3>2 DEF i
  <2>12. ASSUME NEW p \in missing PROVE DistinctNames(u[p].folders) /\ FilesOwn(u[p].files)
    <3> DEFINE e == Made(Len(p) + 1)
               l == IF p = dirs THEN <<>> ELSE <<e>>
    <3>1. u[p] = [folders |-> l, files |-> <<>>]
      BY <2>8
    <3> HIDE DEF e
    <3>2. DistinctNames(<<>>) /\ DistinctNames(<<e>>)
      BY DEF DistinctNames
    <3>3. DistinctNames(l)
      BY <3>2
    <3>4. FilesOwn(<<>>)
      BY DEF FilesOwn
    <3> HIDE DEF l
    <3> QED BY <3>1, <3>3, <3>4
  <2>13. IsFiniteSet(DOMAIN u)
    <3>1. IsFiniteSet(DOMAIN t)
      BY WholeParts
    <3>2. IsFiniteSet(n + 1 .. Len(dirs))
      BY <1>1, <2>2, FS_Interval
    <3>3. IsFiniteSet(missing)
      <4> DEFINE M == n + 1 .. Len(dirs)
                 g == [m \in M |-> P(m)]
      <4>1. missing = {g[m] : m \in M}
        OBVIOUS
      <4>2. g \in Surjection(M, missing)
        <5> HIDE DEF M, P, n, missing
        <5> QED BY <4>1 DEF Surjection
      <4> HIDE DEF g, M, missing
      <4> QED BY <3>2, <4>2, FS_Surjection DEF M
    <3> HIDE DEF missing
    <3> QED BY <2>8, <3>1, <3>3, FS_Union
  <2>14. ASSUME NEW p \in DOMAIN t PROVE DistinctNames(u[p].folders) /\ FilesOwn(u[p].files)
    <3>1. CASE p = P(n)
      <4> HIDE DEF grown, P
      <4> QED BY <2>8, <2>10, <2>11, <3>1
    <3>2. CASE p # P(n)
      <4>1. u[p] = t[p]
        BY <2>8, <3>2
      <4> QED BY <4>1, WholeParts
    <3> QED BY <3>1, <3>2
  <2>15. ASSUME NEW p \in DOMAIN t PROVE NamesKept(t[p].folders, u[p].folders)
    <3>1. CASE p = P(n)
      <4> HIDE DEF grown, P
      <4> QED BY <2>8, <2>11, <3>1 DEF table
    <3>2. CASE p # P(n)
      <4>1. u[p] = t[p]
        BY <2>8, <3>2
      <4>2. NamesKept(t[p].folders, t[p].folders)
        BY FolderParts, WholeParts, SameNamesKept
      <4> QED BY <4>1, <4>2
    <3> QED BY <3>1, <3>2
  <2> HIDE DEF missing
  <2> QED BY <2>8, <2>12, <2>13, <2>14, <2>15, WholeParts DEF FoldersInOrder
<1> QED BY <1>3, <1>4

LEMMA InsertInTreeWhole ==
  ASSUME NEW t, IsTree(t), Whole(t), NEW rel \in Seq(Names) \ {<<>>},
         NEW file \in Files, ChecksumOwn(file), NEW w \in InsertInTree(t, rel, file)
  PROVE  Whole(w) /\ (file.order = NoOrder => TreeFollows(t, w))
<1> DEFINE dirs    == Dirs(rel)
           lowered == [file EXCEPT !.name = Lower(@)]
<1>0. PICK u \in Descend(t, dirs) :
        \E table \in InsertOrReplace(u[dirs].files, lowered) :
          w = [u EXCEPT ![dirs].files = table]
  BY DEF InsertInTree
<1>1. PICK table \in InsertOrReplace(u[dirs].files, lowered) : w = [u EXCEPT ![dirs].files = table]
  BY <1>0
<1>2. dirs \in Seq(Names) /\ \A i \in 1 .. Len(dirs) : IsLower(dirs[i])
  BY DirsAreLower
<1>3. lowered \in Files /\ ChecksumOwn(lowered) /\ lowered.order = file.order
  <2>1. lowered \in Files
    BY LoweredFile
  <2>2. lowered.data = file.data /\ lowered.storage = file.storage /\ lowered.crc = file.crc
        /\ lowered.order = file.order
    BY DEF Files
  <2> HIDE DEF lowered
  <2> QED BY <2>1, <2>2 DEF ChecksumOwn, Stored
<1> HIDE DEF dirs, lowered
<1>4. Whole(u) /\ IsTree(u) /\ dirs \in DOMAIN u /\ FoldersInOrder(t, u)
  BY <1>2, DescendWhole, DescendFolders
<1> DEFINE b == u[dirs].files
<1>5. b \in Seq(Files) /\ u[dirs] = [folders |-> u[dirs].folders, files |-> b] /\ FilesOwn(b)
  BY <1>4, FolderParts, WholeParts
<1> HIDE DEF b
<1>6. FilesOwn(table)
  BY <1>1, <1>3, <1>5, InsertOwn DEF b
<1>7. DOMAIN w = DOMAIN u /\ w[dirs].folders = u[dirs].folders /\ w[dirs].files = table
      /\ \A p \in DOMAIN u : p # dirs => w[p] = u[p]
  BY <1>1, <1>4, <1>5
<1>8. ASSUME NEW p \in DOMAIN u PROVE w[p].folders = u[p].folders /\ FilesOwn(w[p].files)
  <2>1. FilesOwn(u[p].files)
    BY <1>4, WholeParts
  <2> QED BY <1>6, <1>7, <2>1
<1>9. Whole(w)
  BY <1>4, <1>7, <1>8, FilesWhole
<1>10. ASSUME file.order = NoOrder PROVE TreeFollows(t, w)
  <2>1. /\ u[dirs].files = FilesIn(t, dirs) /\ FilesIn(t, dirs) \in Seq(Files)
        /\ \A tab \in Seq(Files) : TreeWith(t, [u EXCEPT ![dirs].files = tab], dirs, tab)
    BY <1>2, FilesPlaced
  <2>2. table \in Seq(Files)
    BY <1>1, <1>3, <1>5, InsertOwn DEF b
  <2>3. \A p : FilesIn(w, p) = IF p = dirs THEN table ELSE FilesIn(t, p)
    BY <1>1, <2>1, <2>2 DEF TreeWith
  <2>4. TableFollows(FilesIn(t, dirs), table)
    BY <1>1, <1>3, <1>10, <2>1, PutFollows
  <2>5. ASSUME NEW p \in DOMAIN w
        PROVE  \/ Unplaced(w[p].files)
               \/ p \in DOMAIN t /\ TableFollows(t[p].files, w[p].files)
    <3>1. TableFollows(FilesIn(t, p), w[p].files)
      <4>1. w[p].files = IF p = dirs THEN table ELSE FilesIn(t, p)
        BY <2>3 DEF FilesIn
      <4>2. TableFollows(FilesIn(t, p), FilesIn(t, p))
        BY SameFollows
      <4> QED BY <2>4, <4>1, <4>2
    <3>2. p \notin DOMAIN t => Unplaced(w[p].files)
      BY <3>1, NothingFollows DEF FilesIn
    <3>3. p \in DOMAIN t => TableFollows(t[p].files, w[p].files)
      BY <3>1 DEF FilesIn
    <3> QED BY <3>2, <3>3
  <2>6. FoldersInOrder(t, w)
    BY <1>4, <1>7 DEF FoldersInOrder
  <2> QED BY <2>5, <2>6 DEF TreeFollows
<1> QED BY <1>9, <1>10

LEMMA OverwriteWhole ==
  ASSUME NEW t, IsTree(t), Whole(t), NEW rel \in Seq(Names) \ {<<>>},
         NEW file \in Files, ChecksumOwn(file), Dirs(rel) \in DOMAIN t,
         FoldedPosition(t[Dirs(rel)].files, Last(rel)) # 0
  PROVE  Whole(Overwrite(t, rel, file))
<1> DEFINE dirs == Dirs(rel)
           b == t[dirs].files
           k == FoldedPosition(b, Last(rel))
           r == [b EXCEPT ![k] = file]
           w == Overwrite(t, rel, file)
<1>1. b \in Seq(Files) /\ FilesOwn(b) /\ t[dirs] = [folders |-> t[dirs].folders, files |-> b]
  BY FolderParts, WholeParts
<1>2. w = [t EXCEPT ![dirs].files = r]
  <2>1. w = [t EXCEPT ![dirs].files = [@ EXCEPT ![k] = file]]
    BY DEF Overwrite
  <2> HIDE DEF k, w
  <2> QED BY <1>1, <2>1
<1>3. FilesOwn(r)
  <2>1. DOMAIN r = DOMAIN b
    OBVIOUS
  <2>2. \A i \in DOMAIN b : r[i] = file \/ r[i] = b[i]
    <3> HIDE DEF b, k
    <3> QED OBVIOUS
  <2> HIDE DEF r, b
  <2> QED BY <1>1, <2>1, <2>2 DEF FilesOwn
<1> HIDE DEF r, w, b, dirs
<1>4. dirs \in DOMAIN t
  BY DEF dirs
<1>5. DOMAIN w = DOMAIN t /\ w[dirs].folders = t[dirs].folders /\ w[dirs].files = r
      /\ \A p \in DOMAIN t : p # dirs => w[p] = t[p]
  BY <1>1, <1>2, <1>4
<1>6. ASSUME NEW p \in DOMAIN t PROVE w[p].folders = t[p].folders /\ FilesOwn(w[p].files)
  <2>1. FilesOwn(t[p].files)
    BY WholeParts
  <2> QED BY <1>3, <1>5, <2>1
<1>7. Whole(w)
  BY <1>5, <1>6, FilesWhole
<1> QED BY <1>7 DEF w

LEMMA EmptyTreeWhole == Whole(EmptyTree)
<1>1. DOMAIN EmptyTree = {<<>>} /\ EmptyTree[<<>>] = [folders |-> <<>>, files |-> <<>>]
  BY DEF EmptyTree, EmptyFolder
<1>2. IsFiniteSet(DOMAIN EmptyTree)
  BY <1>1, FS_Singleton
<1>3. \A p \in DOMAIN EmptyTree : DistinctNames(EmptyTree[p].folders) /\ FilesOwn(EmptyTree[p].files)
  BY <1>1 DEF DistinctNames, FilesOwn
<1> QED BY <1>2, <1>3, WholeParts

LEMMA StoredFileOwn ==
  ASSUME NEW name \in Names, NEW d \in Data
  PROVE  ChecksumOwn(StoredFile(name, d))
BY DEF StoredFile, ChecksumOwn, Stored

(***************************************************************************)
(* Each edit leaves the archive in memory whole.                           *)
(***************************************************************************)
\* A tree has taken its placed members from the one it replaces, if it has any.
FollowsAt(ts, us, i) ==
  \/ \A p \in DOMAIN us[i].tree : Unplaced(us[i].tree[p].files)
  \/ i \in DOMAIN ts /\ TreeFollows(ts[i].tree, us[i].tree)

KeptWhole(ts, us) == \A i \in DOMAIN us : Whole(us[i].tree) /\ FollowsAt(ts, us, i)

\* An archive with the TOCs of another, and empty ones.
Obtained(ts, w) ==
  \A i \in DOMAIN w : \/ i \in DOMAIN ts /\ w[i] = ts[i]
                     \/ w[i].tree = EmptyTree

LEMMA EmptyFollowed ==
  ASSUME NEW u, TreeFollows(EmptyTree, u)
  PROVE  \A p \in DOMAIN u : Unplaced(u[p].files)
<1>1. DOMAIN EmptyTree = {<<>>} /\ EmptyTree[<<>>].files = <<>>
  BY DEF EmptyTree, EmptyFolder
<1> SUFFICES ASSUME NEW p \in DOMAIN u, TableFollows(EmptyTree[<<>>].files, u[p].files)
             PROVE  Unplaced(u[p].files)
  BY <1>1 DEF TreeFollows
<1>2. TableFollows(<<>>, u[p].files)
  BY <1>1
<1> QED BY <1>2, NothingFollows

LEMMA TreeWhole ==
  ASSUME NEW ts, NEW w, Sound(w), WholeArchive(w), Obtained(ts, w),
         NEW i \in DOMAIN w, NEW u, IsTree(u), Whole(u), TreeFollows(w[i].tree, u)
  PROVE  KeptWhole(ts, [w EXCEPT ![i].tree = u])
<1> DEFINE us == [w EXCEPT ![i].tree = u]
<1>1. DOMAIN us = DOMAIN w /\ \A j \in DOMAIN w : us[j].tree = IF j = i THEN u ELSE w[j].tree
  BY TreeReplaced DEF Sound
<1> HIDE DEF us
<1>2. \A j \in DOMAIN us : Whole(us[j].tree)
  BY <1>1 DEF WholeArchive
<1>3. ASSUME NEW j \in DOMAIN us PROVE FollowsAt(ts, us, j)
  <2>1. TreeFollows(w[j].tree, us[j].tree)
    <3>1. IsTree(w[j].tree) /\ Whole(w[j].tree)
      BY <1>1, TocParts DEF Sound, WholeArchive
    <3>2. TreeFollows(w[j].tree, w[j].tree)
      BY <3>1, TreeItself
    <3> QED BY <1>1, <3>2
  <2>2. CASE j \in DOMAIN ts /\ w[j] = ts[j]
    BY <2>1, <2>2 DEF FollowsAt
  <2>3. CASE w[j].tree = EmptyTree
    BY <2>1, <2>3, EmptyFollowed DEF FollowsAt
  <2> QED BY <1>1, <2>2, <2>3 DEF Obtained
<1>4. KeptWhole(ts, us)
  BY <1>2, <1>3 DEF KeptWhole
<1> QED BY <1>4 DEF us

LEMMA ObtainedWhole ==
  ASSUME NEW ts, Sound(ts), WholeArchive(ts), NEW alias \in Aliases
  PROVE  WholeArchive(GetOrCreateToc(ts, alias)) /\ Obtained(ts, GetOrCreateToc(ts, alias))
<1> DEFINE w == GetOrCreateToc(ts, alias)
<1>1. IsArchive(ts) /\ DOMAIN ts = 1 .. Len(ts) /\ \A i \in DOMAIN ts : Whole(ts[i].tree)
  BY TocParts DEF Sound, WholeArchive
<1>2. /\ IsArchive(w)
      /\ \A i \in 1 .. Len(ts) : w[i] = ts[i]
      /\ \A i \in DOMAIN w \ 1 .. Len(ts) :
           w[i] = [alias |-> alias, tree |-> EmptyTree] /\ TocIndex(w, alias) = i
  BY <1>1, TocObtained
<1> HIDE DEF w
<1>3. ASSUME NEW i \in DOMAIN w PROVE Whole(w[i].tree)
  <2>1. CASE i \in 1 .. Len(ts)
    BY <1>1, <1>2, <2>1
  <2>2. CASE i \notin 1 .. Len(ts)
    <3>1. w[i].tree = EmptyTree
      BY <1>2, <2>2
    <3> QED BY <3>1, EmptyTreeWhole
  <2> QED BY <2>1, <2>2
<1>4. WholeArchive(w)
  BY <1>2, <1>3 DEF WholeArchive
<1>5. Obtained(ts, w)
  <2> SUFFICES ASSUME NEW i \in DOMAIN w, i \notin 1 .. Len(ts) PROVE w[i].tree = EmptyTree
    BY <1>1, <1>2 DEF Obtained
  <2> QED BY <1>2
<1> QED BY <1>4, <1>5 DEF w

LEMMA UpsertStoredInWhole ==
  ASSUME Sound(tocs), WholeArchive(tocs), NEW to \in Targets, NEW d \in Data,
         UpsertStoredIn(to.alias, to.rel, d)
  PROVE  KeptWhole(tocs, tocs')
<1> DEFINE with == GetOrCreateToc(tocs, to.alias)
           i == TocIndex(with, to.alias)
           file == StoredFile(Last(to.rel), d)
<1>1. to.alias \in Aliases /\ to.rel \in Seq(Names) \ {<<>>}
  BY InputsAssumption
<1>2. PICK t \in InsertInTree(with[i].tree, to.rel, file) : tocs' = [with EXCEPT ![i].tree = t]
  BY DEF UpsertStoredIn, UpsertIn
<1>3. file \in Files /\ ChecksumOwn(file) /\ file.order = NoOrder
  BY <1>1, LastIsName, StoredFileTyped, StoredFileOwn DEF StoredFile
<1>4. Sound(with) /\ i \in DOMAIN with
  BY <1>1, GetOrCreateTocSound
<1>5. WholeArchive(with) /\ Obtained(tocs, with)
  BY <1>1, ObtainedWhole
<1> HIDE DEF with, i, file
<1>6. IsTree(with[i].tree) /\ TreeSorted(with[i].tree) /\ Whole(with[i].tree)
  BY <1>4, <1>5, TocParts DEF Sound, ArchiveSorted, WholeArchive
<1> DEFINE a == with[i].tree
<1>7. IsTree(a) /\ TreeSorted(a) /\ Whole(a) /\ t \in InsertInTree(a, to.rel, file)
  BY <1>2, <1>6
<1> HIDE DEF a
<1>8. IsTree(t)
  BY <1>1, <1>3, <1>7, InsertInTreeKeeps
<1>9. Whole(t) /\ TreeFollows(a, t)
  BY <1>1, <1>3, <1>7, InsertInTreeWhole
<1> QED BY <1>2, <1>4, <1>5, <1>8, <1>9, TreeWhole DEF a

LEMMA UpsertStoredWhole ==
  ASSUME Sound(tocs), WholeArchive(tocs), NEW rel \in StoredRels, NEW d \in Data, UpsertStored(rel, d)
  PROVE  KeptWhole(tocs, tocs')
<1> DEFINE with == IF tocs = <<>> THEN GetOrCreateToc(tocs, DefaultAlias) ELSE tocs
           file == StoredFile(Last(rel), d)
           H == Holders(with, rel)
           i == Min(H)
<1>1. rel \in Seq(Names) \ {<<>>} /\ DefaultAlias \in Aliases
  BY InputsAssumption
<1>2. file \in Files /\ ChecksumOwn(file) /\ file.name = Last(rel) /\ file.order = NoOrder
  BY <1>1, LastIsName, StoredFileTyped, StoredFileOwn DEF StoredFile
<1>3. \/ H # {} /\ tocs' = [with EXCEPT ![i].tree = Overwrite(@, rel, file)]
      \/ \E t \in InsertInTree(with[1].tree, rel, file) : tocs' = [with EXCEPT ![1].tree = t]
  BY DEF UpsertStored
<1>4. Sound(with) /\ WholeArchive(with) /\ 1 \in DOMAIN with /\ Obtained(tocs, with)
  <2>1. CASE tocs = <<>>
    BY <1>1, <2>1, GetOrCreateTocSound, ObtainedWhole
  <2>2. CASE tocs # <<>>
    <3>1. tocs \in Seq(Range(tocs))
      BY DEF Sound, IsArchive
    <3>2. 1 \in DOMAIN tocs
      BY <2>2, <3>1, EmptySeq
    <3> QED BY <2>2, <3>2 DEF Obtained
  <2> QED BY <2>1, <2>2
<1>5. \A j \in DOMAIN with : IsTree(with[j].tree) /\ TreeSorted(with[j].tree) /\ Whole(with[j].tree)
  BY <1>4, TocParts DEF Sound, ArchiveSorted, WholeArchive
<1>6. H # {} => i \in DOMAIN with /\ i \in H
  <2>1. DOMAIN with = 1 .. Len(with) /\ Len(with) \in Nat
    BY <1>4, TocParts DEF Sound
  <2>2. H \subseteq DOMAIN with
    BY DEF Holders
  <2>3. H \subseteq Nat
    BY <2>1, <2>2
  <2> HIDE DEF H, with
  <2> QED BY <2>2, <2>3, LeastIs
<1> HIDE DEF with, file
<1>7. CASE H # {} /\ tocs' = [with EXCEPT ![i].tree = Overwrite(@, rel, file)]
  <2>1. i \in DOMAIN with /\ i \in H
    BY <1>6, <1>7
  <2>2. Dirs(rel) \in DOMAIN with[i].tree /\ FoldedPosition(with[i].tree[Dirs(rel)].files, Last(rel)) # 0
    BY <2>1 DEF Holders
  <2> HIDE DEF i, H
  <2> DEFINE a == with[i].tree
             u == Overwrite(a, rel, file)
  <2>3. tocs' = [with EXCEPT ![i].tree = u]
    BY <1>4, <1>7, <2>1
  <2>4. IsTree(a) /\ TreeSorted(a) /\ Whole(a)
        /\ Dirs(rel) \in DOMAIN a /\ FoldedPosition(a[Dirs(rel)].files, Last(rel)) # 0
    BY <1>5, <2>1, <2>2
  <2> HIDE DEF a
  <2>5. IsTree(u)
    BY <1>1, <1>2, <2>4, OverwriteInTreeKeeps
  <2>6. Whole(u)
    BY <1>1, <1>2, <2>4, OverwriteWhole
  <2>7. TreeFollows(a, u)
    BY <1>1, <1>2, <2>4, OverwrittenTreeFollows
  <2> HIDE DEF u
  <2> QED BY <1>4, <2>1, <2>3, <2>5, <2>6, <2>7, TreeWhole DEF a
<1>8. CASE \E t \in InsertInTree(with[1].tree, rel, file) : tocs' = [with EXCEPT ![1].tree = t]
  <2>1. PICK t \in InsertInTree(with[1].tree, rel, file) : tocs' = [with EXCEPT ![1].tree = t]
    BY <1>8
  <2> DEFINE a == with[1].tree
  <2>2. IsTree(a) /\ TreeSorted(a) /\ Whole(a) /\ t \in InsertInTree(a, rel, file)
    BY <1>4, <1>5, <2>1
  <2> HIDE DEF a
  <2>3. IsTree(t)
    BY <1>1, <1>2, <2>2, InsertInTreeKeeps
  <2>4. Whole(t) /\ TreeFollows(a, t)
    BY <1>1, <1>2, <2>2, InsertInTreeWhole
  <2> QED BY <1>4, <2>1, <2>3, <2>4, TreeWhole DEF a
<1> QED BY <1>3, <1>7, <1>8

LEMMA TreesWhole ==
  ASSUME NEW ts, Sound(ts), NEW g, \A i \in DOMAIN ts : IsTree(g[i]) /\ Whole(g[i]),
         NEW w, w = [i \in DOMAIN ts |-> [ts[i] EXCEPT !.tree = g[i]]]
  PROVE  /\ \A i \in DOMAIN w : Whole(w[i].tree)
         /\ (\A i \in DOMAIN ts : TreeFollows(ts[i].tree, g[i])) => KeptWhole(ts, w)
<1>1. DOMAIN w = DOMAIN ts /\ \A i \in DOMAIN ts : w[i].tree = g[i]
  BY TreesMapped DEF Sound
<1>2. \A i \in DOMAIN w : Whole(w[i].tree)
  BY <1>1
<1> QED BY <1>1, <1>2 DEF KeptWhole, FollowsAt

LEMMA RemoveFilesWhereWhole ==
  ASSUME Sound(tocs), WholeArchive(tocs), NEW K, RemoveFilesWhere(K)
  PROVE  KeptWhole(tocs, tocs')
<1> DEFINE g == [i \in DOMAIN tocs |-> RemoveFrom(tocs[i].tree, K)]
<1>1. \A i \in DOMAIN tocs : IsTree(tocs[i].tree) /\ TreeSorted(tocs[i].tree) /\ Whole(tocs[i].tree)
  BY TocParts DEF Sound, ArchiveSorted, WholeArchive
<1>2. \A i \in DOMAIN tocs : IsTree(g[i])
  BY <1>1, RemoveInTreeKeeps
<1>3. \A i \in DOMAIN tocs : Whole(g[i]) /\ TreeFollows(tocs[i].tree, g[i])
  BY <1>1, RemovedWhole, RemovedTreeFollows
<1>4. tocs' = [i \in DOMAIN tocs |-> [tocs[i] EXCEPT !.tree = g[i]]]
  BY DEF RemoveFilesWhere
<1> HIDE DEF g
<1> QED BY <1>2, <1>3, <1>4, TreesWhole

LEMMA PruneEmptyFoldersWhole ==
  ASSUME Sound(tocs), WholeArchive(tocs), PruneEmptyFolders
  PROVE  KeptWhole(tocs, tocs')
<1> DEFINE g == [i \in DOMAIN tocs |-> PruneTree(tocs[i].tree)]
<1>1. \A i \in DOMAIN tocs : IsTree(tocs[i].tree) /\ TreeSorted(tocs[i].tree) /\ Whole(tocs[i].tree)
  BY TocParts DEF Sound, ArchiveSorted, WholeArchive
<1>2. \A i \in DOMAIN tocs : IsTree(g[i])
  BY <1>1, PruneTreeKeeps
<1>3. \A i \in DOMAIN tocs : Whole(g[i]) /\ TreeFollows(tocs[i].tree, g[i])
  BY <1>1, PrunedWhole, PrunedTreeFollows
<1>4. tocs' = [i \in DOMAIN tocs |-> [tocs[i] EXCEPT !.tree = g[i]]]
  BY DEF PruneEmptyFolders
<1> HIDE DEF g
<1> QED BY <1>2, <1>3, <1>4, TreesWhole

LEMMA RepackageArtWhole ==
  ASSUME Sound(tocs), WholeArchive(tocs), RepackageArt
  PROVE  KeptWhole(tocs, tocs')
<1> DEFINE art    == {s \in Slots : ArtStorage[At(s).name.key] # NotArt}
           failed == {s \in art : At(s).encrypted}
           done   == {s \in art \ failed : \A f \in failed : VisitedBefore(s, f)}
           In(i)  == {s \in done : s.toc = i}
<1>1. \A i \in DOMAIN tocs : IsTree(tocs[i].tree) /\ Whole(tocs[i].tree)
  BY TocParts DEF Sound, WholeArchive
<1>2. tocs' = [i \in DOMAIN tocs |-> [tocs[i] EXCEPT !.tree = RepackageIn(@, In(i))]]
  BY DEF RepackageArt
<1> HIDE DEF In
<1>3. \A i \in DOMAIN tocs : tocs[i] = [alias |-> tocs[i].alias, tree |-> tocs[i].tree]
  BY TocParts DEF Sound
<1>4. \A i \in DOMAIN tocs : tocs'[i].tree = RepackageIn(tocs[i].tree, In(i))
  BY <1>2, <1>3
<1>5. DOMAIN tocs' = DOMAIN tocs
  BY <1>2
<1>6. \A i \in DOMAIN tocs : /\ Whole(RepackageIn(tocs[i].tree, In(i)))
                              /\ TreeFollows(tocs[i].tree, RepackageIn(tocs[i].tree, In(i)))
  BY <1>1, RepackagedWhole, RepackagedTreeFollows
<1> QED BY <1>4, <1>5, <1>6 DEF KeptWhole, FollowsAt

LEMMA SortedWhole ==
  ASSUME NEW ts, Sound(ts), WholeArchive(ts)
  PROVE  Sound(SortArchive(ts)) /\ WholeArchive(SortArchive(ts))
<1> DEFINE g == [i \in DOMAIN ts |-> SortTree(ts[i].tree)]
           w == SortArchive(ts)
<1>1. \A i \in DOMAIN ts : IsTree(ts[i].tree) /\ Whole(ts[i].tree)
  BY TocParts DEF Sound, WholeArchive
<1>2. \A i \in DOMAIN ts : IsTree(g[i]) /\ TreeSorted(g[i])
  BY <1>1, SortTreeKeeps
<1>3. \A i \in DOMAIN ts : Whole(g[i])
  BY <1>1, SortTreeWhole
<1>4. w = [i \in DOMAIN ts |-> [ts[i] EXCEPT !.tree = g[i]]]
  BY DEF SortArchive
<1> HIDE DEF g, w
<1>5. Sound(w)
  BY <1>2, <1>4, MapTrees
<1>6. \A i \in DOMAIN w : Whole(w[i].tree)
  BY <1>2, <1>3, <1>4, TreesWhole
<1> QED BY <1>5, <1>6 DEF Sound, WholeArchive, w

LEMMA EditsKeepWhole ==
  ASSUME Sound(tocs), WholeArchive(tocs), Edit
  PROVE  Sound(tocs') /\ WholeArchive(tocs') /\ KeptWhole(tocs, tocs')
<1>1. Next
  BY DEF Edit, Next
<1>2. Sound(tocs')
  BY <1>1, StepKeeps DEF Keeps
<1>3. KeptWhole(tocs, tocs')
  <2>1. CASE \E to \in Targets, d \in Data : UpsertStoredIn(to.alias, to.rel, d)
    BY <2>1, UpsertStoredInWhole
  <2>2. CASE \E rel \in StoredRels, d \in Data : UpsertStored(rel, d)
    BY <2>2, UpsertStoredWhole
  <2>3. CASE \E K \in Predicates : RemoveFilesWhere(K)
    BY <2>3, RemoveFilesWhereWhole
  <2>4. CASE RepackageArt
    BY <2>4, RepackageArtWhole
  <2>5. CASE PruneEmptyFolders
    BY <2>5, PruneEmptyFoldersWhole
  <2> QED BY <2>1, <2>2, <2>3, <2>4, <2>5 DEF Edit
<1> QED BY <1>2, <1>3 DEF Sound, WholeArchive, KeptWhole

(***************************************************************************)
(* The file of a session is one that write lays out, of some archive.      *)
(***************************************************************************)
SessionVersions == Versions \cup {FreshVersion}

WrittenFile(file, sizes, l, v, ts) ==
  /\ Sound(ts) /\ WholeArchive(ts) /\ l \in Layouts /\ v \in SessionVersions
  /\ file = ImageBy(sizes, l, v, ts)

FileWritten(file) == \E sizes, l, v, ts : WrittenFile(file, sizes, l, v, ts)

SessionSound ==
  /\ Sound(tocs) /\ WholeArchive(tocs)
  /\ layout \in Layouts /\ version \in SessionVersions /\ edits \in 0 .. MaxEdits
  /\ FileWritten(disk)

LEMMA SessionVersionsAre == \A v \in SessionVersions : v \in Nat /\ v \in 3 .. 11
BY SessionAssumption DEF SessionVersions, FreshVersion

LEMMA WrittenIs ==
  ASSUME NEW file, NEW sizes, NEW l, NEW v, NEW ts, WrittenFile(file, sizes, l, v, ts)
  PROVE  /\ WrittenOf(file, ts, Visits(l, ts)) /\ l \in Layouts /\ v \in Nat
         /\ ImageParts(file, l, v, ts, Visits(l, ts), SlotTable(Visits(l, ts), ts), FilesOf(Visits(l, ts), ts))
         /\ file.version = v
<1> DEFINE visits == Visits(l, ts)
<1>1. Sound(ts) /\ WholeArchive(ts) /\ l \in Layouts /\ v \in Nat /\ file = ImageBy(sizes, l, v, ts)
  BY SessionVersionsAre DEF WrittenFile
<1>2. ImageParts(file, l, v, ts, visits, SlotTable(visits, ts), FilesOf(visits, ts))
  BY <1>1, ImageIs
<1>3. Visited(ts, visits) /\ RootsLead(visits) /\ ParentsLead(visits)
  BY <1>1, VisitsAre
<1> HIDE DEF visits
<1>4. WrittenOf(file, ts, visits)
  BY <1>1, <1>2, <1>3 DEF WrittenOf
<1>5. file.version = v
  BY <1>2 DEF ImageParts
<1> QED BY <1>1, <1>2, <1>4, <1>5 DEF visits

\* What a command reads is an archive it could have written.
LEMMA WrittenRereads ==
  ASSUME NEW file, FileWritten(file)
  PROVE  /\ Sound(LoadTocs(file)) /\ WholeArchive(LoadTocs(file))
         /\ file.version \in SessionVersions
<1>1. PICK sizes, l, v, ts : WrittenFile(file, sizes, l, v, ts)
  BY DEF FileWritten
<1> DEFINE visits == Visits(l, ts)
           us == LoadTocs(file)
<1>2. WrittenOf(file, ts, visits) /\ v \in Nat /\ file.version = v
  BY <1>1, WrittenIs
<1>3. Sound(ts) /\ WholeArchive(ts) /\ v \in SessionVersions
  BY <1>1 DEF WrittenFile
<1> HIDE DEF visits
<1>4. RereadArchive(file, ts, us)
  BY <1>2, ArchiveReread
<1> HIDE DEF us
<1>5. Sound(us) /\ WholeArchive(us)
  BY <1>2, <1>3, <1>4, RereadKeeps
<1> QED BY <1>2, <1>3, <1>5 DEF us

LEMMA WrittenTables ==
  ASSUME NEW file, FileWritten(file)
  PROVE  \A x \in DOMAIN file.folders : RangesIn(file, file.folders[x])
<1>1. PICK sizes, l, v, ts : WrittenFile(file, sizes, l, v, ts)
  BY DEF FileWritten
<1> DEFINE visits == Visits(l, ts)
           table == FolderTable(visits, ts)
<1>2. WrittenOf(file, ts, visits)
  BY <1>1, WrittenIs
<1>3. ImageParts(file, l, v, ts, visits, SlotTable(visits, ts), FilesOf(visits, ts))
  BY <1>1, WrittenIs
<1> HIDE DEF visits
<1>4. WholeArchive(ts) /\ IsArchive(ts) /\ Visited(ts, visits) /\ RootsLead(visits) /\ ParentsLead(visits)
  BY <1>2 DEF WrittenOf, WholeArchive
<1>5. PlacedFolders(visits, ts) /\ PlacedFiles(visits, ts)
  BY <1>4, FoldersArePlaced, FilesArePlaced
<1>6. table \in Seq(VisitsOf(ts))
  BY <1>5 DEF PlacedFolders
<1>7. DOMAIN file.folders = DOMAIN table
  BY <1>3 DEF ImageParts
<1>8. DOMAIN table = 1 .. Len(table) /\ \A x \in 1 .. Len(table) : table[x] \in VisitsOf(ts)
  <2> DEFINE V == VisitsOf(ts)
  <2> HIDE DEF table, V
  <2> QED BY <1>6 DEF V
<1> SUFFICES ASSUME NEW x \in 1 .. Len(table) PROVE RangesIn(file, file.folders[x])
  BY <1>7, <1>8
<1>9. PICK w \in 1 .. Len(visits) : visits[w] = table[x]
  BY <1>4, <1>8, VisitedOnce
<1>10. FolderRead(file, ts, visits, x, w)
  BY <1>2, <1>9, EntryIsRead
<1> DEFINE e == file.folders[x]
           s == Start(visits, ts, w)
           n == Len(Children(visits[w], ts))
           b == Before(visits, ts, w)
           m == Len(FolderAt(ts, visits[w]).files)
<1>11. /\ e.name \in DOMAIN file.strings
       /\ e.folders = s /\ e.folderEnd = s + n /\ e.folderEnd <= Len(file.folders)
       /\ e.files = b /\ e.fileEnd = b + m /\ e.fileEnd <= Len(file.files)
  BY <1>10 DEF FolderRead
<1>12. s \in Nat /\ b \in Nat
  BY <1>5 DEF PlacedFolders, PlacedFiles
<1>13. n \in Nat /\ m \in Nat
  <2>1. visits[w] \in VisitsOf(ts)
    BY <1>8, <1>9
  <2> DEFINE c == Children(visits[w], ts)
             f == FolderAt(ts, visits[w]).files
  <2>2. c \in Seq(VisitsOf(ts))
    BY <1>4, <2>1, ChildrenAre
  <2>3. f \in Seq(Files)
    BY <1>4, <2>1, VisitParts
  <2> HIDE DEF c, f
  <2>4. Len(c) \in Nat /\ Len(f) \in Nat
    BY <2>2, <2>3, LenProperties
  <2> QED BY <2>4 DEF c, f
<1> HIDE DEF e, s, n, b, m
<1>14. e.folders <= e.folderEnd /\ e.files <= e.fileEnd
  BY <1>11, <1>12, <1>13
<1>15. RangesIn(file, e)
  BY <1>11, <1>14 DEF RangesIn
<1> QED BY <1>15 DEF e

LEMMA WrittenFiles ==
  ASSUME NEW file, FileWritten(file)
  PROVE  \A x \in DOMAIN file.files :
           /\ file.files[x].name \in DOMAIN file.strings
           /\ Decodings(file, file.files[x]) # {}
           /\ x \notin CrcMismatches(file) /\ x \notin Sha1Mismatches(file)
           /\ file.version # 7 => x \notin Unhashed(file)
<1>1. PICK sizes, l, v, ts : WrittenFile(file, sizes, l, v, ts)
  BY DEF FileWritten
<1> DEFINE visits == Visits(l, ts)
           files == FilesOf(visits, ts)
<1>2. WrittenOf(file, ts, visits)
  BY <1>1, WrittenIs
<1>3. l \in Layouts /\ v \in Nat
      /\ ImageParts(file, l, v, ts, visits, SlotTable(visits, ts), files)
  BY <1>1, WrittenIs
<1> HIDE DEF visits
<1>4. WholeArchive(ts) /\ IsArchive(ts) /\ Visited(ts, visits)
  BY <1>2 DEF WrittenOf, WholeArchive
<1>5. PlacedFiles(visits, ts)
  BY <1>4, FilesArePlaced
<1>6. DOMAIN file.files = 1 .. Len(files)
  BY <1>3 DEF ImageParts
<1> SUFFICES ASSUME NEW x \in 1 .. Len(files)
             PROVE  /\ file.files[x].name \in DOMAIN file.strings
                    /\ Decodings(file, file.files[x]) # {}
                    /\ x \notin CrcMismatches(file) /\ x \notin Sha1Mismatches(file)
                    /\ file.version # 7 => x \notin Unhashed(file)
  BY <1>6
<1>7. PICK w, k : IsFileOf(visits, ts, x, w, k)
  BY <1>5 DEF PlacedFiles
<1> DEFINE f == FolderAt(ts, visits[w]).files[k]
<1>8. FileRead(file, x, f)
  BY <1>3, <1>4, <1>7, FileIsRead
<1> HIDE DEF f
<1> QED BY <1>8 DEF FileRead

(***************************************************************************)
(* The invariant.                                                          *)
(***************************************************************************)
LEMMA NothingLoaded == Sound(<<>>) /\ WholeArchive(<<>>)
BY DEF Sound, ArchiveSorted, WholeArchive, IsArchive

LEMMA SessionStarts ==
  ASSUME BasesWhole, SessionInit
  PROVE  SessionSound
<1>1. PICK b \in Bases, l \in Layouts, v \in Versions : disk = Packed(l, v, b)
  BY DEF SessionInit
<1>2. Sound(b) /\ WholeArchive(b)
  BY BasesAssumption DEF BasesWhole, Sound, ArchiveSorted
<1>3. WrittenFile(disk, RecordSizes(v), l, v, b)
  BY <1>1, <1>2 DEF WrittenFile, Packed, SessionVersions
<1>4. FileWritten(disk)
  BY <1>3 DEF FileWritten
<1> QED BY <1>4, NothingLoaded, SessionAssumption
        DEF SessionInit, SessionSound, Layouts, FreshLayout, SessionVersions

LEMMA SessionKeeps ==
  ASSUME SessionSound, SessionNext
  PROVE  SessionSound'
<1>0. /\ Sound(tocs) /\ WholeArchive(tocs) /\ layout \in Layouts /\ version \in SessionVersions
      /\ edits \in 0 .. MaxEdits /\ FileWritten(disk)
  BY DEF SessionSound
<1>1. CASE Open
  <2>1. tocs' = LoadTocs(disk) /\ version' = disk.version /\ edits' = edits /\ disk' = disk
        /\ layout' = DetectLayout(disk)
    BY <1>1 DEF Open
  <2>2. Sound(tocs') /\ WholeArchive(tocs') /\ version' \in SessionVersions
    BY <1>0, <2>1, WrittenRereads
  <2>3. layout' \in Layouts
    BY <2>1 DEF DetectLayout, Layouts
  <2> QED BY <1>0, <2>1, <2>2, <2>3 DEF SessionSound, SessionVersions
<1>2. CASE Edit
  <2>1. Sound(tocs') /\ WholeArchive(tocs')
    BY <1>0, <1>2, EditsKeepWhole
  <2>2. layout' = layout /\ version' = version /\ disk' = disk /\ edits' \in 0 .. MaxEdits
    BY <1>0, <1>2, SessionAssumption DEF Edit
  <2> QED BY <1>0, <2>1, <2>2 DEF SessionSound, SessionVersions
<1>3. CASE WriteEager
  <2> DEFINE s == SortArchive(tocs)
  <2>1. disk' = ImageBy(WrittenSizes, layout, version, s) /\ tocs' = <<>> /\ edits' = 0
        /\ layout' = FreshLayout /\ version' = FreshVersion
    BY <1>3 DEF WriteEager, Image
  <2>2. Sound(s) /\ WholeArchive(s)
    BY <1>0, SortedWhole
  <2> HIDE DEF s
  <2>3. WrittenFile(disk', WrittenSizes, layout, version, s)
    BY <1>0, <2>1, <2>2 DEF WrittenFile
  <2>4. FileWritten(disk')
    BY <2>3 DEF FileWritten
  <2>5. layout' \in Layouts /\ version' \in SessionVersions /\ edits' \in 0 .. MaxEdits
    BY <2>1, SessionAssumption DEF Layouts, FreshLayout, SessionVersions
  <2> QED BY <2>1, <2>4, <2>5, NothingLoaded DEF SessionSound, SessionVersions
<1> QED BY <1>1, <1>2, <1>3 DEF SessionNext

LEMMA SessionInvariant ==
  ASSUME BasesWhole
  PROVE  SessionSpec => []SessionSound
<1>1. SessionInit => SessionSound
  BY SessionStarts
<1>2. SessionSound /\ [SessionNext]_vars => SessionSound'
  <2> SUFFICES ASSUME SessionSound, [SessionNext]_vars PROVE SessionSound'
    OBVIOUS
  <2>1. CASE SessionNext
    BY <2>1, SessionKeeps
  <2>2. CASE UNCHANGED vars
    BY <2>2 DEF vars, SessionSound, SessionVersions
  <2> QED BY <2>1, <2>2
<1> QED BY <1>1, <1>2, PTL DEF SessionSpec

\* At any time of a session the archive in memory is well formed, and the file
\* on disk is one whose tables hold together: the ranges and string offsets
\* that Archive::write counts in separate walks lie inside the tables, so that
\* index_folder and index_file find whatever an entry refers to.
THEOREM SessionTypeCorrect ==
  ASSUME BasesWhole
  PROVE  SessionSpec => []SessionTypeOK
<1>1. SessionSound => SessionTypeOK
  <2> SUFFICES ASSUME SessionSound PROVE SessionTypeOK
    OBVIOUS
  <2>1. TypeOK /\ layout \in Layouts /\ version \in 3 .. 11 /\ edits \in 0 .. MaxEdits /\ FileWritten(disk)
    BY SessionVersionsAre DEF SessionSound, Sound, TypeOK
  <2>2. disk.version \in 3 .. 11
    BY <2>1, WrittenRereads, SessionVersionsAre
  <2>3. \A k \in DOMAIN disk.folders : RangesIn(disk, disk.folders[k])
    BY <2>1, WrittenTables
  <2>4. \A k \in DOMAIN disk.files : disk.files[k].name \in DOMAIN disk.strings
    BY <2>1, WrittenFiles
  <2> QED BY <2>1, <2>2, <2>3, <2>4 DEF SessionTypeOK
<1> QED BY <1>1, SessionInvariant, PTL

\* Whatever a command reads, edits and writes, ArchiveReader::verify finds no
\* fault with any file of the session: re-stored and replaced members carry the
\* checksum and block hashes of their new bytes, or claim none, and verify and
\* push_file_entry count the same blocks.  Version 7 is left out because it
\* keeps its hashes in a field of its own, of which the reader has no table: a
\* file of it that claims block hashes is always counted as unhashed.  Of the
\* versions below 10, which write lays out with the record sizes of version 10,
\* this speaks of the tables as written and not of whether they are found.
THEOREM FilesVerify ==
  ASSUME BasesWhole, 7 \notin Versions
  PROVE  SessionSpec => []FileVerifies
<1>1. SessionSound => FileVerifies
  <2> SUFFICES ASSUME SessionSound PROVE FileVerifies
    OBVIOUS
  <2>1. FileWritten(disk)
    BY DEF SessionSound
  <2>2. disk.version # 7
    BY <2>1, WrittenRereads DEF SessionVersions, FreshVersion
  <2>3. \A x \in DOMAIN disk.files :
           x \notin CrcMismatches(disk) /\ x \notin Sha1Mismatches(disk) /\ x \notin Unhashed(disk)
    BY <2>1, <2>2, WrittenFiles
  <2>4. CrcMismatches(disk) \subseteq DOMAIN disk.files
        /\ Sha1Mismatches(disk) \subseteq DOMAIN disk.files
        /\ Unhashed(disk) \subseteq DOMAIN disk.files
    BY DEF CrcMismatches, Sha1Mismatches, Unhashed
  <2> QED BY <2>3, <2>4 DEF FileVerifies
<1> QED BY <1>1, SessionInvariant, PTL

(***************************************************************************)
(* What is written reads back.                                             *)
(***************************************************************************)
LEMMA RecordSizesAgree ==
  ASSUME NEW v \in {10, 11}
  PROVE  RecordSizes(v) = WrittenSizes
<1>1. /\ When(v < 6, 32) = 0 /\ When(v >= 9, 8) = 8 /\ When(v = 8, 4) = 0 /\ WideField(v) = 8
      /\ When(v = 5, 4) = 0 /\ When(v = 5, 8) = 0 /\ When(v >= 8, 256) = 256 /\ IndexField(v) = 4
      /\ When(v >= 7, 4) = 4 /\ When(v >= 8, 4) = 4 /\ When(v >= 4 /\ v < 10, 4) = 0
      /\ When(v >= 6, 4) = 4 /\ When(v = 7, 4) = 0
  BY DEF When, WideField, IndexField
<1>2. MainHeaderBytes(v) = 428
  BY <1>1 DEF MainHeaderBytes
<1>3. IndexTableBytes(v) = 44
  BY <1>1 DEF IndexTableBytes
<1>4. FileEntryBytes(v) = 30
  BY <1>1 DEF FileEntryBytes
<1>5. 128 + 5 * IndexField(v) = 148 /\ 4 + 4 * IndexField(v) = 20
  BY <1>1
<1> QED BY <1>2, <1>3, <1>4, <1>5 DEF RecordSizes, WrittenSizes

LEMMA LengthIs ==
  ASSUME NEW n \in Nat, NEW f, f = [i \in 1 .. n |-> f[i]]
  PROVE  Len(f) = n
<1> DEFINE E == {f[i] : i \in 1 .. n}
<1>1. f \in [1 .. n -> E]
  OBVIOUS
<1>2. f \in Seq(E) /\ DOMAIN f = 1 .. n
  BY <1>1, SeqDef
<1> HIDE DEF E
<1> QED BY <1>2, LenProperties

\* The counts the offsets are computed from are those of the tables.
LEMMA OffsetsAre ==
  ASSUME NEW ts, WholeArchive(ts), NEW l \in Layouts, NEW v \in Nat, NEW sizes
  PROVE  ImageBy(sizes, l, v, ts).at = OffsetsBy(sizes, Counts(ImageBy(sizes, l, v, ts)))
<1> DEFINE visits  == Visits(l, ts)
           said    == Said(l, ts)
           slots   == FlattenSeq([w \in DOMAIN visits |-> FolderSlots(visits[w], ts)])
           files   == [k \in DOMAIN slots |-> FileAt(ts, slots[k])]
           placed  == Enumerate(DOMAIN files, Placing(files))
           bytes   == [r \in DOMAIN placed |-> Units(Stored(files[placed[r]]))]
           hashes  == [k \in DOMAIN files |-> HashesOf(files[k])]
           listed  == [w \in DOMAIN visits |-> Listed(visits[w], ts)]
           folders == FlattenSeq(listed)
           Root(i) == IndexIn(visits, [toc |-> i, path |-> <<>>])
           T       == [i \in DOMAIN ts |-> [alias |-> ts[i].alias, root |-> Upto(listed, Root(i) - 1)]]
           D       == [k \in DOMAIN folders |-> FolderEntry(l, ts, visits, said, folders[k])]
           F       == [k \in DOMAIN files |->
                        FileEntry(files[k],
                                  NameOffset(l, said, FileString(slots[k], files[k].name)),
                                  Upto(hashes, k - 1),
                                  Upto(bytes, IndexIn(placed, k) - 1))]
           image   == ImageBy(sizes, l, v, ts)
<1>1. /\ image.data = FlattenSeq(bytes) /\ image.tocs = T /\ image.folders = D /\ image.files = F
      /\ image.strings = Strings(l, ts)
      /\ image.at = OffsetsBy(sizes, [data |-> Len(FlattenSeq(bytes)), tocs |-> Len(ts),
                                      folders |-> Len(folders), files |-> Len(files),
                                      strings |-> Len(Strings(l, ts))])
  BY DEF ImageBy
<1>2. IsArchive(ts) /\ Visited(ts, visits) /\ RootsLead(visits) /\ ParentsLead(visits)
  BY VisitsAre DEF WholeArchive
<1>3. files = FilesOf(visits, ts) /\ folders = FolderTable(visits, ts)
  BY DEF FilesOf, SlotTable, SlotsOfVisits, FolderTable, ListedOf
<1>4. files \in Seq(Files) /\ folders \in Seq(VisitsOf(ts))
  <2> HIDE DEF files, folders, visits
  <2> QED BY <1>2, <1>3, FilesArePlaced, FoldersArePlaced DEF PlacedFiles, PlacedFolders
<1>5. DOMAIN files = 1 .. Len(files) /\ Len(files) \in Nat
  <2> HIDE DEF files
  <2> QED BY <1>4
<1>6. DOMAIN folders = 1 .. Len(folders) /\ Len(folders) \in Nat
  <2> DEFINE V == VisitsOf(ts)
  <2> HIDE DEF folders, V
  <2> QED BY <1>4 DEF V
<1>7. DOMAIN ts = 1 .. Len(ts) /\ Len(ts) \in Nat
  BY <1>2, ArchiveParts
<1>8. Len(T) = Len(ts)
  <2>1. T = [i \in 1 .. Len(ts) |-> T[i]]
    BY <1>7
  <2> HIDE DEF T
  <2> QED BY <1>7, <2>1, LengthIs
<1>9. Len(D) = Len(folders)
  <2>1. D = [i \in 1 .. Len(folders) |-> D[i]]
    BY <1>6
  <2> HIDE DEF D, folders
  <2> QED BY <1>6, <2>1, LengthIs
<1>10. Len(F) = Len(files)
  <2>1. F = [i \in 1 .. Len(files) |-> F[i]]
    BY <1>5
  <2> HIDE DEF F, files
  <2> QED BY <1>5, <2>1, LengthIs
<1> HIDE DEF T, D, F, folders, files, bytes, image
<1> QED BY <1>1, <1>8, <1>9, <1>10 DEF Counts, image

LEMMA WrittenRegions ==
  ASSUME NEW ts, Sound(ts), WholeArchive(ts), NEW l \in Layouts, NEW v \in {10, 11},
         v \in SessionVersions
  PROVE  /\ Readable(Image(l, v, ts))
         /\ Content(LoadTocs(Image(l, v, ts))) = Content(ts)
         /\ Image(l, v, ts).version = v
<1> DEFINE file == Image(l, v, ts)
<1>1. WrittenFile(file, WrittenSizes, l, v, ts)
  BY DEF WrittenFile, Image
<1>2. WrittenOf(file, ts, Visits(l, ts)) /\ file.version = v /\ v \in Nat
  BY <1>1, WrittenIs
<1>3. file.at = OffsetsBy(WrittenSizes, Counts(file))
  BY <1>2, OffsetsAre DEF Image
<1> HIDE DEF file
<1>4. RecordSizes(file.version) = WrittenSizes
  BY <1>2, RecordSizesAgree
<1>5. RegionsFound(file)
  BY <1>2, <1>3, <1>4 DEF RegionsFound
<1>6. FileWritten(file)
  BY <1>1 DEF FileWritten
<1>7. \A x \in DOMAIN file.files : Decodings(file, file.files[x]) # {}
  BY <1>6, WrittenFiles
<1>8. Readable(file)
  BY <1>5, <1>7 DEF Readable
<1> DEFINE us == LoadTocs(file)
           visits == Visits(l, ts)
<1>9. WrittenOf(file, ts, visits) /\ IsArchive(ts) /\ file.version \in Nat /\ file.version >= 10
  BY <1>2 DEF Sound
<1> HIDE DEF visits
<1>10. RereadArchive(file, ts, us)
  BY <1>9, ArchiveReread
<1> HIDE DEF us
<1>11. Content(us) = Content(ts)
  BY <1>9, <1>10, RereadContent
<1> QED BY <1>2, <1>8, <1>11 DEF file, us

\* What write_eager writes, Archive::read finds again: the same TOCs, folders,
\* members, order of every table, contents and attributes, in either layout and
\* whatever was edited.  The versions are the two whose record sizes the
\* constants at the head of archive.rs are; on any other the tables are not
\* where the written header says (README, section 5).
THEOREM WhatIsWrittenReadsBack ==
  ASSUME BasesWhole, Versions \subseteq {10, 11}
  PROVE  SessionSpec => WrittenReadsBack
<1> DEFINE A == WriteEager => /\ Readable(disk')
                              /\ Content(LoadTocs(disk')) = Content(SortArchive(tocs))
                              /\ disk'.version = version
<1>1. SessionSound /\ [SessionNext]_vars => [A]_vars
  <2> SUFFICES ASSUME SessionSound, WriteEager
               PROVE  /\ Readable(disk')
                      /\ Content(LoadTocs(disk')) = Content(SortArchive(tocs))
                      /\ disk'.version = version
    OBVIOUS
  <2> DEFINE s == SortArchive(tocs)
  <2>1. Sound(tocs) /\ WholeArchive(tocs) /\ layout \in Layouts /\ version \in SessionVersions
    BY DEF SessionSound
  <2>2. version \in {10, 11}
    BY <2>1 DEF SessionVersions, FreshVersion
  <2>3. Sound(s) /\ WholeArchive(s)
    BY <2>1, SortedWhole
  <2>4. disk' = Image(layout, version, s)
    BY DEF WriteEager
  <2> HIDE DEF s
  <2>5. /\ Readable(Image(layout, version, s))
        /\ Content(LoadTocs(Image(layout, version, s))) = Content(s)
        /\ Image(layout, version, s).version = version
    BY <2>1, <2>2, <2>3, WrittenRegions
  <2> QED BY <2>4, <2>5 DEF s
<1>2. SessionSpec => [][A]_vars
  BY <1>1, SessionInvariant, PTL DEF SessionSpec
<1> QED BY <1>2 DEF WrittenReadsBack

(***************************************************************************)
(* What is read and written again.  Two archives that differ in no more    *)
(* than where the bytes of members were are walked alike, and give one     *)
(* file if they place their bytes alike.                                   *)
(***************************************************************************)
SameButOrder(f, g) == \E o : g = [f EXCEPT !.order = o]

Reordered(ts, us) ==
  /\ Len(us) = Len(ts) /\ DOMAIN us = DOMAIN ts
  /\ \A i \in DOMAIN ts :
       /\ us[i].alias = ts[i].alias
       /\ DOMAIN us[i].tree = DOMAIN ts[i].tree
       /\ \A p \in DOMAIN ts[i].tree :
            /\ us[i].tree[p].folders = ts[i].tree[p].folders
            /\ DOMAIN us[i].tree[p].files = DOMAIN ts[i].tree[p].files
            /\ \A k \in DOMAIN ts[i].tree[p].files :
                 SameButOrder(ts[i].tree[p].files[k], us[i].tree[p].files[k])

LEMMA WalkOrderSame ==
  ASSUME NEW t, IsTree(t), NEW u, DOMAIN u = DOMAIN t,
         \A p \in DOMAIN t : u[p].folders = t[p].folders, NEW lay
  PROVE  WalkOrder(lay, u) = WalkOrder(lay, t) /\ Walk(lay, u) = Walk(lay, t)
<1>1. ASSUME NEW p \in DOMAIN t, NEW q
      PROVE  DepthFirst(u, p, q) <=> DepthFirst(t, p, q)
  <2>1. \A n \in 0 .. Len(p) - 1 : u[SubSeq(p, 1, n)].folders = t[SubSeq(p, 1, n)].folders
    <3>1. \A n \in 0 .. Len(p) : SubSeq(p, 1, n) \in DOMAIN t
      BY FoldersAbove
    <3>2. Len(p) \in Nat
      BY FolderParts
    <3> QED BY <3>1, <3>2
  <2> QED BY <2>1 DEF DepthFirst
<1>2. \A p, q \in DOMAIN t : BreadthFirst(u, p, q) <=> BreadthFirst(t, p, q)
  BY <1>1 DEF BreadthFirst
<1>3. WalkOrder(lay, u) = WalkOrder(lay, t)
  BY <1>1, <1>2 DEF WalkOrder
<1>4. Walk(lay, u) = Enumerate(DOMAIN u, WalkOrder(lay, u)) /\ Walk(lay, t) = Enumerate(DOMAIN t, WalkOrder(lay, t))
  BY DEF Walk, WalkOrder
<1> QED BY <1>3, <1>4

LEMMA ReorderedFolder ==
  ASSUME NEW ts, IsArchive(ts), NEW us, Reordered(ts, us), NEW visit \in VisitsOf(ts)
  PROVE  /\ FolderAt(us, visit).folders = FolderAt(ts, visit).folders
         /\ DOMAIN FolderAt(us, visit).files = DOMAIN FolderAt(ts, visit).files
         /\ \A k \in DOMAIN FolderAt(ts, visit).files :
              /\ SameButOrder(FolderAt(ts, visit).files[k], FolderAt(us, visit).files[k])
              /\ FolderAt(us, visit).files[k].name = FolderAt(ts, visit).files[k].name
<1>1. visit.toc \in DOMAIN ts /\ visit.path \in DOMAIN ts[visit.toc].tree /\ FolderAt(ts, visit).files \in Seq(Files)
  BY VisitParts
<1> DEFINE f == FolderAt(ts, visit)
           g == FolderAt(us, visit)
<1>2. /\ g.folders = f.folders /\ DOMAIN g.files = DOMAIN f.files
      /\ \A k \in DOMAIN f.files : SameButOrder(f.files[k], g.files[k])
  BY <1>1 DEF Reordered, FolderAt
<1>3. ASSUME NEW k \in DOMAIN f.files PROVE g.files[k].name = f.files[k].name
  <2> DEFINE a == f.files[k]
             b == g.files[k]
  <2>1. PICK o : b = [a EXCEPT !.order = o]
    BY <1>2 DEF SameButOrder
  <2>2. a \in Files
    <3> DEFINE s == f.files
    <3>1. s \in Seq(Files) /\ k \in DOMAIN s
      BY <1>1
    <3> HIDE DEF s
    <3>2. s[k] \in Files
      BY <3>1
    <3> QED BY <3>2 DEF s
  <2> HIDE DEF a, b
  <2>3. b.name = a.name
    BY <2>1, <2>2 DEF Files
  <2> QED BY <2>3 DEF a, b
<1> QED BY <1>2, <1>3

LEMMA ReorderedVisits ==
  ASSUME NEW ts, IsArchive(ts), NEW us, Reordered(ts, us), NEW lay
  PROVE  /\ Visits(lay, us) = Visits(lay, ts)
         /\ \A visit \in VisitsOf(ts) :
              /\ Children(visit, us) = Children(visit, ts)
              /\ FolderSlots(visit, us) = FolderSlots(visit, ts)
              /\ Listed(visit, us) = Listed(visit, ts)
              /\ SaidAt(lay, us, visit) = SaidAt(lay, ts, visit)
<1>1. /\ Len(ts) \in Nat /\ DOMAIN ts = 1 .. Len(ts)
      /\ \A i \in 1 .. Len(ts) : IsTree(ts[i].tree)
  BY ArchiveParts
<1>2. ASSUME NEW i \in DOMAIN ts
      PROVE  DOMAIN us[i].tree = DOMAIN ts[i].tree /\ Walk(lay, us[i].tree) = Walk(lay, ts[i].tree)
  <2>1. DOMAIN us[i].tree = DOMAIN ts[i].tree
    BY DEF Reordered
  <2>2. \A p \in DOMAIN ts[i].tree : us[i].tree[p].folders = ts[i].tree[p].folders
    BY DEF Reordered
  <2> QED BY <1>1, <2>1, <2>2, WalkOrderSame
<1>3. DOMAIN us = DOMAIN ts
  BY DEF Reordered
<1>4. WalksOf(lay, us) = WalksOf(lay, ts)
  BY <1>2, <1>3 DEF WalksOf
<1>5. Visits(lay, us) = Visits(lay, ts)
  BY <1>4 DEF Visits, WalksOf
<1>6. ASSUME NEW visit \in VisitsOf(ts)
      PROVE  /\ Children(visit, us) = Children(visit, ts)
             /\ FolderSlots(visit, us) = FolderSlots(visit, ts)
             /\ Listed(visit, us) = Listed(visit, ts)
             /\ SaidAt(lay, us, visit) = SaidAt(lay, ts, visit)
  <2> DEFINE f == FolderAt(ts, visit)
             g == FolderAt(us, visit)
  <2>1. g.folders = f.folders /\ DOMAIN g.files = DOMAIN f.files /\ \A k \in DOMAIN f.files : g.files[k].name = f.files[k].name
    BY ReorderedFolder
  <2> HIDE DEF f, g
  <2>2. \A k : Child(visit, us, k) = Child(visit, ts, k)
    BY <2>1 DEF Child, f, g
  <2>3. Children(visit, us) = Children(visit, ts)
    BY <2>1, <2>2 DEF Children, f, g
  <2>4. FolderSlots(visit, us) = FolderSlots(visit, ts)
    BY <2>1 DEF FolderSlots, f, g
  <2>5. Listed(visit, us) = Listed(visit, ts)
    BY <2>3 DEF Listed
  <2>6. [k \in DOMAIN g.files |-> FileString(visit, g.files[k].name)] = [k \in DOMAIN f.files |-> FileString(visit, f.files[k].name)]
    BY <2>1
  <2>7. SaidAt(lay, us, visit) = SaidAt(lay, ts, visit)
    BY <2>3, <2>6 DEF SaidAt, f, g
  <2> QED BY <2>3, <2>4, <2>5, <2>7
<1> QED BY <1>5, <1>6

LEMMA ReorderedParts ==
  ASSUME NEW f \in Files, NEW g, SameButOrder(f, g)
  PROVE  /\ g.name = f.name /\ Stored(g) = Stored(f) /\ g.storage = f.storage
         /\ g.encrypted = f.encrypted /\ g.verify = f.verify /\ g.crc = f.crc
<1>1. PICK o : g = [f EXCEPT !.order = o]
  BY DEF SameButOrder
<1>2. f = [name |-> f.name, data |-> f.data, storage |-> f.storage, encrypted |-> f.encrypted,
           verify |-> f.verify, crc |-> f.crc, order |-> f.order]
  BY DEF Files
<1>3. g = [name |-> f.name, data |-> f.data, storage |-> f.storage, encrypted |-> f.encrypted,
           verify |-> f.verify, crc |-> f.crc, order |-> o]
  BY <1>1, <1>2
<1> QED BY <1>3 DEF Stored

LEMMA ReorderedStrings ==
  ASSUME NEW ts, WholeArchive(ts), NEW us, Reordered(ts, us), NEW lay
  PROVE  Said(lay, us) = Said(lay, ts) /\ Strings(lay, us) = Strings(lay, ts)
<1> DEFINE V == Visits(lay, ts)
<1>1. IsArchive(ts) /\ Visited(ts, V)
  BY VisitsAre DEF WholeArchive
<1>2. \A w \in DOMAIN V : V[w] \in VisitsOf(ts)
  <2> DEFINE S == VisitsOf(ts)
  <2>1. V \in Seq(S)
    BY <1>1 DEF Visited
  <2> HIDE DEF S, V
  <2>2. \A w \in DOMAIN V : V[w] \in S
    BY <2>1
  <2> QED BY <2>2 DEF S
<1>3. Visits(lay, us) = V /\ \A w \in DOMAIN V : SaidAt(lay, us, V[w]) = SaidAt(lay, ts, V[w])
  BY <1>1, <1>2, ReorderedVisits
<1> HIDE DEF V
<1>4. [w \in DOMAIN V |-> SaidAt(lay, us, V[w])] = [w \in DOMAIN V |-> SaidAt(lay, ts, V[w])]
  BY <1>3
<1>5. Said(lay, us) = Said(lay, ts)
  BY <1>3, <1>4 DEF Said, V
<1> QED BY <1>5 DEF Strings

LEMMA ReorderedTables ==
  ASSUME NEW ts, WholeArchive(ts), NEW us, Reordered(ts, us), NEW lay
  PROVE  LET V == Visits(lay, ts)
         IN  /\ SlotsOfVisits(V, us) = SlotsOfVisits(V, ts)
             /\ ListedOf(V, us) = ListedOf(V, ts)
             /\ ChildrenOf(V, us) = ChildrenOf(V, ts)
             /\ DOMAIN FilesOf(V, us) = DOMAIN FilesOf(V, ts)
             /\ \A k \in DOMAIN FilesOf(V, ts) :
                  FilesOf(V, ts)[k] \in Files /\ SameButOrder(FilesOf(V, ts)[k], FilesOf(V, us)[k])
<1> DEFINE V == Visits(lay, ts)
<1>1. IsArchive(ts) /\ Visited(ts, V)
  BY VisitsAre DEF WholeArchive
<1>2. \A w \in DOMAIN V : V[w] \in VisitsOf(ts)
  <2> DEFINE S == VisitsOf(ts)
  <2>1. V \in Seq(S)
    BY <1>1 DEF Visited
  <2> HIDE DEF S, V
  <2>2. \A w \in DOMAIN V : V[w] \in S
    BY <2>1
  <2> QED BY <2>2 DEF S
<1>3. \A w \in DOMAIN V : /\ Children(V[w], us) = Children(V[w], ts)
                          /\ FolderSlots(V[w], us) = FolderSlots(V[w], ts)
                          /\ Listed(V[w], us) = Listed(V[w], ts)
  BY <1>1, <1>2, ReorderedVisits
<1> DEFINE files == FilesOf(V, ts)
<1>4. PlacedFiles(V, ts)
  BY <1>1, FilesArePlaced
<1>d. DOMAIN V = 1 .. Len(V)
  BY <1>1 DEF Visited
<1> HIDE DEF V
<1>5. SlotsOfVisits(V, us) = SlotsOfVisits(V, ts)
  BY <1>3 DEF SlotsOfVisits
<1>6. ListedOf(V, us) = ListedOf(V, ts) /\ ChildrenOf(V, us) = ChildrenOf(V, ts)
  BY <1>3 DEF ListedOf, ChildrenOf
<1>7. SlotTable(V, us) = SlotTable(V, ts)
  BY <1>5 DEF SlotTable
<1>8. DOMAIN FilesOf(V, us) = DOMAIN files /\ \A k \in DOMAIN files : FilesOf(V, us)[k] = FileAt(us, SlotTable(V, ts)[k])
  BY <1>7 DEF FilesOf
<1>9. DOMAIN files = 1 .. Len(files) /\ \A k \in 1 .. Len(files) : files[k] \in Files
  <2>1. files \in Seq(Files)
    BY <1>4 DEF PlacedFiles
  <2> HIDE DEF files
  <2> QED BY <2>1
<1>10. ASSUME NEW x \in DOMAIN files PROVE SameButOrder(files[x], FilesOf(V, us)[x])
  <2>1. PICK w, k : IsFileOf(V, ts, x, w, k)
    BY <1>4, <1>9 DEF PlacedFiles
  <2>2. /\ w \in 1 .. Len(V) /\ k \in 1 .. Len(FolderAt(ts, V[w]).files)
    BY <2>1 DEF IsFileOf
  <2>3. /\ SlotTable(V, ts)[x] = [toc |-> V[w].toc, path |-> V[w].path, file |-> k]
        /\ files[x] = FolderAt(ts, V[w]).files[k]
    BY <1>4, <2>1 DEF PlacedFiles
  <2>4. V[w] \in VisitsOf(ts)
    BY <1>2, <1>d, <2>2
  <2>5. k \in DOMAIN FolderAt(ts, V[w]).files
    <3> DEFINE T == FolderAt(ts, V[w]).files
    <3>1. T \in Seq(Files) /\ k \in 1 .. Len(T)
      BY <1>1, <2>2, <2>4, VisitParts
    <3> HIDE DEF T
    <3>2. k \in DOMAIN T
      BY <3>1
    <3> QED BY <3>2 DEF T
  <2>6. SameButOrder(FolderAt(ts, V[w]).files[k], FolderAt(us, V[w]).files[k])
    BY <1>1, <2>4, <2>5, ReorderedFolder
  <2>7. FilesOf(V, us)[x] = FolderAt(us, V[w]).files[k]
    BY <1>8, <2>3 DEF FileAt, FolderAt
  <2> QED BY <2>3, <2>6, <2>7
<1> QED BY <1>5, <1>6, <1>8, <1>9, <1>10 DEF V

LEMMA ReorderedImage ==
  ASSUME NEW ts, WholeArchive(ts), NEW us, WholeArchive(us), Reordered(ts, us), NEW lay, NEW ver, NEW sizes,
         Placing(FilesOf(Visits(lay, us), us)) = Placing(FilesOf(Visits(lay, ts), ts))
  PROVE  ImageBy(sizes, lay, ver, us) = ImageBy(sizes, lay, ver, ts)
<1> DEFINE visits == Visits(lay, ts)
           said   == Said(lay, ts)
           A(xs, slots) == [k \in DOMAIN slots |-> FileAt(xs, slots[k])]
           slots  == FlattenSeq([v \in DOMAIN visits |-> FolderSlots(visits[v], ts)])
           files  == A(ts, slots)
           gs     == A(us, slots)
           placed == Enumerate(DOMAIN files, Placing(files))
           bytes  == [r \in DOMAIN placed |-> Units(Stored(files[placed[r]]))]
           hashes == [k \in DOMAIN files |-> HashesOf(files[k])]
           listed == [v \in DOMAIN visits |-> Listed(visits[v], ts)]
           folders == FlattenSeq(listed)
<1>1. Visits(lay, us) = visits /\ Said(lay, us) = said /\ Strings(lay, us) = Strings(lay, ts)
  BY ReorderedVisits, ReorderedStrings DEF WholeArchive
<1>2. /\ SlotsOfVisits(visits, us) = SlotsOfVisits(visits, ts)
      /\ ListedOf(visits, us) = ListedOf(visits, ts)
      /\ ChildrenOf(visits, us) = ChildrenOf(visits, ts)
      /\ DOMAIN FilesOf(visits, us) = DOMAIN FilesOf(visits, ts)
      /\ \A k \in DOMAIN FilesOf(visits, ts) :
           FilesOf(visits, ts)[k] \in Files /\ SameButOrder(FilesOf(visits, ts)[k], FilesOf(visits, us)[k])
  BY ReorderedTables
<1>3. slots = SlotTable(visits, ts) /\ slots = SlotTable(visits, us)
  BY <1>2 DEF SlotTable, SlotsOfVisits
<1>4. files = FilesOf(visits, ts) /\ gs = FilesOf(visits, us)
  <2> HIDE DEF slots
  <2> QED BY <1>3 DEF FilesOf
<1>f. FilesOf(visits, ts) \in Seq(Files)
  <2>1. IsArchive(ts) /\ Visited(ts, visits)
    BY VisitsAre DEF WholeArchive
  <2> HIDE DEF visits
  <2> QED BY <2>1, FilesArePlaced DEF PlacedFiles
<1>s. files \in Seq(Files)
  <2> HIDE DEF files
  <2> QED BY <1>4, <1>f
<1>5. Placing(gs) = Placing(files) /\ DOMAIN gs = DOMAIN files
  BY <1>1, <1>2, <1>4
<1>6. ASSUME NEW k \in DOMAIN files
      PROVE  /\ gs[k].name = files[k].name /\ Stored(gs[k]) = Stored(files[k])
             /\ HashesOf(gs[k]) = HashesOf(files[k])
             /\ \A n, h, d : FileEntry(gs[k], n, h, d) = FileEntry(files[k], n, h, d)
  <2> DEFINE f == files[k]
             g == gs[k]
  <2>1. f \in Files /\ SameButOrder(f, g)
    BY <1>2, <1>4
  <2> HIDE DEF f, g
  <2>2. /\ g.name = f.name /\ Stored(g) = Stored(f) /\ g.storage = f.storage
        /\ g.encrypted = f.encrypted /\ g.verify = f.verify /\ g.crc = f.crc
    BY <2>1, ReorderedParts
  <2>3. HashesOf(g) = HashesOf(f) /\ \A n, h, d : FileEntry(g, n, h, d) = FileEntry(f, n, h, d)
    BY <2>2 DEF HashesOf, FileEntry
  <2> QED BY <2>2, <2>3 DEF f, g
<1>7. IsArchive(ts) /\ Visited(ts, visits)
  BY VisitsAre DEF WholeArchive
<1>8. \A r \in DOMAIN placed : placed[r] \in DOMAIN files
  <2>1. files \in Seq(Files)
    BY <1>s
  <2> HIDE DEF files, placed
  <2>2. DOMAIN files = 1 .. Len(files) /\ Len(files) \in Nat
    BY <2>1
  <2>3. PlacedIn(Enumerate(1 .. Len(files), Placing(files)), Len(files))
    BY <2>1, AllArePlaced
  <2>4. PlacedIn(placed, Len(files))
    BY <2>2, <2>3 DEF placed
  <2> QED BY <2>2, <2>4 DEF PlacedIn
<1> HIDE DEF visits, said, slots, files, gs
<1>9. [r \in DOMAIN placed |-> Units(Stored(gs[placed[r]]))] = bytes
  <2> HIDE DEF placed
  <2>1. \A r \in DOMAIN placed : Stored(gs[placed[r]]) = Stored(files[placed[r]])
    BY <1>6, <1>8
  <2> QED BY <2>1
<1>10. [k \in DOMAIN gs |-> HashesOf(gs[k])] = hashes
  BY <1>5, <1>6
<1>11. [v \in DOMAIN visits |-> Listed(visits[v], us)] = listed
  BY <1>2 DEF ListedOf
<1>12. \A visit : FolderEntry(lay, us, visits, said, visit) = FolderEntry(lay, ts, visits, said, visit)
  BY <1>2 DEF FolderEntry, ChildrenOf, SlotsOfVisits
<1>13. FlattenSeq([v \in DOMAIN visits |-> FolderSlots(visits[v], us)]) = slots
  BY <1>3 DEF SlotTable, SlotsOfVisits
<1>14. Enumerate(DOMAIN gs, Placing(gs)) = placed
  BY <1>5
<1>15. DOMAIN us = DOMAIN ts /\ Len(us) = Len(ts) /\ \A i \in DOMAIN ts : us[i].alias = ts[i].alias
  BY DEF Reordered
<1> DEFINE Root(i) == IndexIn(visits, [toc |-> i, path |-> <<>>])
           E(xs, hs) == [k \in DOMAIN xs |->
                      FileEntry(xs[k], NameOffset(lay, said, FileString(slots[k], xs[k].name)),
                                Upto(hs, k - 1), Upto(bytes, IndexIn(placed, k) - 1))]
           T(xs) == [i \in DOMAIN xs |-> [alias |-> xs[i].alias, root |-> Upto(listed, Root(i) - 1)]]
           F(xs) == [k \in DOMAIN folders |-> FolderEntry(lay, xs, visits, said, folders[k])]
           I(xs, ys) ==
             [version |-> ver, data |-> FlattenSeq(bytes), tocs |-> T(xs), folders |-> F(xs),
              files |-> E(ys, hashes), strings |-> Strings(lay, xs), hashes |-> FlattenSeq(hashes),
              at |-> OffsetsBy(sizes, [data |-> Len(FlattenSeq(bytes)), tocs |-> Len(xs),
                                       folders |-> Len(folders), files |-> Len(ys),
                                       strings |-> Len(Strings(lay, xs))])]
<1>16. ImageBy(sizes, lay, ver, ts) = I(ts, files)
  BY DEF ImageBy, visits, said, slots, files
<1>17. gs = [k \in DOMAIN slots |-> FileAt(us, slots[k])]
  BY DEF gs
<1>18. ImageBy(sizes, lay, ver, us) = I(us, gs)
  <2> DEFINE visits2 == Visits(lay, us)
             said2   == Said(lay, us)
             slots2  == FlattenSeq([v \in DOMAIN visits2 |-> FolderSlots(visits2[v], us)])
             files2  == [k \in DOMAIN slots2 |-> FileAt(us, slots2[k])]
             placed2 == Enumerate(DOMAIN files2, Placing(files2))
             bytes2  == [r \in DOMAIN placed2 |-> Units(Stored(files2[placed2[r]]))]
             hashes2 == [k \in DOMAIN files2 |-> HashesOf(files2[k])]
             listed2 == [v \in DOMAIN visits2 |-> Listed(visits2[v], us)]
             folders2 == FlattenSeq(listed2)
             Root2(i) == IndexIn(visits2, [toc |-> i, path |-> <<>>])
  <2>1. ImageBy(sizes, lay, ver, us) =
          [version |-> ver, data |-> FlattenSeq(bytes2),
           tocs |-> [i \in DOMAIN us |-> [alias |-> us[i].alias, root |-> Upto(listed2, Root2(i) - 1)]],
           folders |-> [k \in DOMAIN folders2 |-> FolderEntry(lay, us, visits2, said2, folders2[k])],
           files |-> [k \in DOMAIN files2 |->
                      FileEntry(files2[k], NameOffset(lay, said2, FileString(slots2[k], files2[k].name)),
                                Upto(hashes2, k - 1), Upto(bytes2, IndexIn(placed2, k) - 1))],
           strings |-> Strings(lay, us), hashes |-> FlattenSeq(hashes2),
           at |-> OffsetsBy(sizes, [data |-> Len(FlattenSeq(bytes2)), tocs |-> Len(us),
                                    folders |-> Len(folders2), files |-> Len(files2),
                                    strings |-> Len(Strings(lay, us))])]
    BY DEF ImageBy
  <2>2. visits2 = visits /\ said2 = said
    BY <1>1
  <2> HIDE DEF visits2, said2
  <2>3. slots2 = slots
    BY <1>13, <2>2
  <2> HIDE DEF slots2
  <2>4. files2 = gs
    BY <1>17, <2>3
  <2> HIDE DEF files2
  <2>5. placed2 = placed
    BY <1>14, <2>4
  <2> HIDE DEF placed2, placed
  <2>6. bytes2 = bytes /\ hashes2 = hashes /\ listed2 = listed
    BY <1>9, <1>10, <1>11, <2>2, <2>4, <2>5
  <2> HIDE DEF bytes2, hashes2, listed2, bytes, hashes, listed
  <2>7. folders2 = folders
    BY <2>6
  <2> HIDE DEF folders2, folders
  <2>8. \A i : Root2(i) = Root(i)
    BY <2>2
  <2> HIDE DEF Root2, Root
  <2> QED BY <2>1, <2>2, <2>3, <2>4, <2>5, <2>6, <2>7, <2>8
<1>19. E(gs, hashes) = E(files, hashes)
  <2> HIDE DEF placed, bytes, hashes, listed
  <2> QED BY <1>5, <1>6
<1>20. T(us) = T(ts)
  <2> HIDE DEF Root, listed
  <2> QED BY <1>15
<1>21. F(us) = F(ts)
  <2> HIDE DEF folders
  <2> QED BY <1>12
<1>22. Len(gs) = Len(files)
  <2>1. files \in Seq(Files)
    BY <1>s
  <2>2. DOMAIN files = 1 .. Len(files) /\ Len(files) \in Nat
    BY <2>1
  <2>3. gs = [k \in 1 .. Len(files) |-> gs[k]]
    BY <1>5, <1>17, <2>2
  <2> QED BY <2>2, <2>3, LengthIs
<1> HIDE DEF E, T, F, placed, bytes, hashes, listed, folders
<1> QED BY <1>1, <1>15, <1>16, <1>18, <1>19, <1>20, <1>21, <1>22

LEMMA TocsAreRead ==
  ASSUME NEW image, NEW ts, NEW visits, WrittenOf(image, ts, visits)
  PROVE  LoadTocs(image) =
           [i \in 1 .. Len(ts) |->
              [alias |-> ts[i].alias, tree |-> ReadTree(image, ts, visits, [toc |-> i, path |-> <<>>])]]
<1> DEFINE Root(i) == [toc |-> i, path |-> <<>>]
           u == LoadTocs(image)
<1>1. PICK lay \in Layouts, ver \in Nat :
        ImageParts(image, lay, ver, ts, visits, SlotTable(visits, ts), FilesOf(visits, ts))
  BY DEF WrittenOf
<1>2. ASSUME NEW i \in 1 .. Len(ts)
      PROVE  /\ image.tocs[i].alias = ts[i].alias
             /\ LoadFolders(image)[image.tocs[i].root + 1] = ReadTree(image, ts, visits, Root(i))
  <2>1. /\ image.tocs[i].alias = ts[i].alias
        /\ image.tocs[i].root + 1 \in 1 .. Len(FolderTable(visits, ts))
        /\ FolderTable(visits, ts)[image.tocs[i].root + 1] = Root(i)
    BY <1>1, RootIsRead DEF WrittenOf
  <2> DEFINE x == image.tocs[i].root + 1
  <2>2. x \in 1 .. Len(FolderTable(visits, ts)) /\ FolderTable(visits, ts)[x] = Root(i)
    BY <2>1
  <2> HIDE DEF x
  <2>3. LoadFolders(image)[x] = ReadTree(image, ts, visits, Root(i))
    BY <2>2, FoldersLoaded
  <2> QED BY <2>1, <2>3 DEF x
<1>3. DOMAIN image.tocs = 1 .. Len(ts)
  BY <1>1 DEF ImageParts
<1> QED BY <1>2, <1>3 DEF LoadTocs

\* A file read has the place of its bytes for its order.
FileReordered(image, ts, us, visits, x) ==
  /\ image.files[x].data \in Nat
  /\ FilesOf(visits, us)[x] = [FilesOf(visits, ts)[x] EXCEPT !.order = image.files[x].data]

LEMMA ReadReorders ==
  ASSUME NEW image, NEW ts, NEW lay, WrittenOf(image, ts, Visits(lay, ts)),
         image.version \in Nat, image.version >= 10
  PROVE  /\ Reordered(ts, LoadTocs(image))
         /\ \A x \in 1 .. Len(FilesOf(Visits(lay, ts), ts)) :
              FileReordered(image, ts, LoadTocs(image), Visits(lay, ts), x)
<1> DEFINE visits == Visits(lay, ts)
           us == LoadTocs(image)
<1>1. WholeArchive(ts) /\ IsArchive(ts) /\ Visited(ts, visits) /\ PlacedFiles(visits, ts)
  BY FilesArePlaced DEF WrittenOf, WholeArchive
<1>2. us = [i \in 1 .. Len(ts) |->
              [alias |-> ts[i].alias, tree |-> ReadTree(image, ts, visits, [toc |-> i, path |-> <<>>])]]
  BY TocsAreRead
<1>3. RereadArchive(image, ts, us)
  BY ArchiveReread
<1>4. Len(ts) \in Nat /\ DOMAIN ts = 1 .. Len(ts) /\ \A i \in 1 .. Len(ts) : IsTree(ts[i].tree)
  BY <1>1, ArchiveParts
<1>5. Reordered(ts, us)
  <2> HIDE DEF us
  <2>1. us = [i \in 1 .. Len(ts) |-> [alias |-> ts[i].alias, tree |-> us[i].tree]]
        /\ \A i \in 1 .. Len(ts) : Reread(image, ts[i].tree, us[i].tree)
    BY <1>3 DEF RereadArchive
  <2>2. DOMAIN us = 1 .. Len(ts) /\ \A i \in 1 .. Len(ts) : us[i].alias = ts[i].alias
    BY <2>1
  <2>3. Len(us) = Len(ts)
    BY <1>4, <2>1, LengthIs
  <2>4. ASSUME NEW i \in 1 .. Len(ts), NEW p \in DOMAIN ts[i].tree
        PROVE  /\ us[i].tree[p].folders = ts[i].tree[p].folders
               /\ DOMAIN us[i].tree[p].files = DOMAIN ts[i].tree[p].files
               /\ \A k \in DOMAIN ts[i].tree[p].files :
                    SameButOrder(ts[i].tree[p].files[k], us[i].tree[p].files[k])
    <3> DEFINE a == ts[i].tree
               b == us[i].tree
    <3>1. IsTree(a) /\ Reread(image, a, b) /\ p \in DOMAIN a
      BY <1>4, <2>1
    <3> HIDE DEF a, b
    <3>2. /\ b[p] = [folders |-> a[p].folders, files |-> b[p].files]
          /\ b[p].files = [k \in 1 .. Len(a[p].files) |-> b[p].files[k]]
      BY <3>1 DEF Reread
    <3>3. b[p].folders = a[p].folders /\ DOMAIN b[p].files = 1 .. Len(a[p].files)
      BY <3>2
    <3>4. a[p].files \in Seq(Files)
      BY <3>1, FolderParts
    <3>5. DOMAIN a[p].files = 1 .. Len(a[p].files)
      BY <3>4
    <3>6. \A k \in 1 .. Len(a[p].files) : OnlyMoved(a[p].files[k], b[p].files[k])
      BY <3>1, RereadFile
    <3>7. \A k \in 1 .. Len(a[p].files) : SameButOrder(a[p].files[k], b[p].files[k])
      BY <3>6 DEF OnlyMoved, SameButOrder
    <3> QED BY <3>3, <3>5, <3>7 DEF a, b
  <2>5. \A i \in 1 .. Len(ts) : DOMAIN us[i].tree = DOMAIN ts[i].tree
    BY <2>1 DEF Reread
  <2> QED BY <1>4, <2>2, <2>3, <2>4, <2>5 DEF Reordered
<1>6. ASSUME NEW x \in 1 .. Len(FilesOf(visits, ts))
      PROVE  FileReordered(image, ts, us, visits, x)
  <2>1. PICK w, k : IsFileOf(visits, ts, x, w, k)
    BY <1>1 DEF PlacedFiles
  <2>2. /\ w \in 1 .. Len(visits) /\ k \in 1 .. Len(FolderAt(ts, visits[w]).files)
        /\ x = Before(visits, ts, w) + k
    BY <2>1 DEF IsFileOf
  <2>3. /\ SlotTable(visits, ts)[x] = [toc |-> visits[w].toc, path |-> visits[w].path, file |-> k]
        /\ FilesOf(visits, ts)[x] = FolderAt(ts, visits[w]).files[k]
        /\ SlotTable(visits, ts) \in Seq(SlotsIn(ts)) /\ Len(FilesOf(visits, ts)) = Len(SlotTable(visits, ts))
    BY <1>1, <2>1 DEF PlacedFiles
  <2> DEFINE i == visits[w].toc
             p == visits[w].path
             file == FolderAt(ts, visits[w]).files[k]
  <2>4. visits[w] \in VisitsOf(ts)
    <3> DEFINE S == VisitsOf(ts)
    <3>1. visits \in Seq(S)
      BY <1>1 DEF Visited
    <3> HIDE DEF S, visits
    <3>2. visits[w] \in S
      BY <2>2, <3>1
    <3> QED BY <3>2 DEF S
  <2>5. /\ i \in 1 .. Len(ts) /\ p \in DOMAIN ts[i].tree /\ visits[w] = [toc |-> i, path |-> p]
        /\ p \in Seq(Names)
    BY <1>1, <2>4, VisitParts
  <2>6. PICK lay2 \in Layouts, ver \in Nat :
          ImageParts(image, lay2, ver, ts, visits, SlotTable(visits, ts), FilesOf(visits, ts))
    BY DEF WrittenOf
  <2>7. FileRead(image, x, file)
    <3> HIDE DEF visits
    <3> QED BY <1>1, <2>1, <2>6, FileIsRead
  <2>8. image.files[x].data \in Nat
        /\ LoadFile(image, image.files[x]) = IndexFile(image, [file EXCEPT !.order = image.files[x].data])
    <3> HIDE DEF file
    <3> QED BY <2>7 DEF FileRead
  <2>9. file \in Files
    <3> DEFINE T == FolderAt(ts, visits[w]).files
    <3>1. T \in Seq(Files) /\ k \in 1 .. Len(T)
      BY <1>1, <2>2, <2>4, VisitParts
    <3> HIDE DEF T
    <3>2. T[k] \in Files
      BY <3>1
    <3> QED BY <3>2 DEF T
  <2>10. LoadFile(image, image.files[x]) = [file EXCEPT !.order = image.files[x].data]
    <3> HIDE DEF file
    <3> QED BY <2>8, <2>9, IndexedFile
  <2>11. IndexIn(visits, visits[w]) = w
    BY <1>1, <2>2, VisitIndex
  <2>12. FileAt(us, SlotTable(visits, ts)[x]) = LoadFile(image, image.files[x])
    <3> DEFINE root == [toc |-> i, path |-> <<>>]
    <3>1. us[i].tree = ReadTree(image, ts, visits, root)
      <4> HIDE DEF us
      <4> QED BY <1>2, <2>5
    <3>2. <<>> \o p = p
      BY <2>5
    <3>3. p \in Rest(ts, root) /\ Under(root, p) = visits[w]
      BY <2>5, <3>2 DEF Rest, Under
    <3>4. us[i].tree[p] = ReadFolder(image, ts, visits, visits[w])
      BY <3>1, <3>3 DEF ReadTree
    <3>5. us[i].tree[p].files[k] = LoadFile(image, image.files[Before(visits, ts, w) + k])
      <4> HIDE DEF us, visits
      <4> QED BY <2>2, <2>11, <3>4 DEF ReadFolder
    <3>6. FileAt(us, SlotTable(visits, ts)[x]) = us[i].tree[p].files[k]
      <4> HIDE DEF us, visits
      <4> QED BY <2>3 DEF FileAt, FolderAt
    <3> QED BY <2>2, <3>5, <3>6
  <2>13. x \in DOMAIN SlotTable(visits, ts) /\ SlotTable(visits, us) = SlotTable(visits, ts)
    <3>1. SlotsOfVisits(visits, us) = SlotsOfVisits(visits, ts)
      <4> HIDE DEF us
      <4> QED BY <1>1, <1>5, ReorderedTables
    <3>2. x \in DOMAIN SlotTable(visits, ts)
      <4> DEFINE s == SlotTable(visits, ts)
      <4>1. s \in Seq(SlotsIn(ts)) /\ x \in 1 .. Len(s)
        BY <2>3
      <4> HIDE DEF s
      <4>2. x \in DOMAIN s
        BY <4>1
      <4> QED BY <4>2 DEF s
    <3> QED BY <3>1, <3>2 DEF SlotTable
  <2>14. FilesOf(visits, us)[x] = FileAt(us, SlotTable(visits, ts)[x])
    <3> HIDE DEF us, visits
    <3> QED BY <2>13 DEF FilesOf
  <2> HIDE DEF file, us, visits
  <2> QED BY <2>3, <2>8, <2>10, <2>12, <2>14 DEF FileReordered, file
<1> QED BY <1>5, <1>6

\* Where write puts the bytes of file x.
PlaceOf(files, x) == Upto(BytesOf(files, PlacedOf(files)), IndexIn(PlacedOf(files), x) - 1)

LEMMA RanksFollow ==
  ASSUME NEW files \in Seq(Files), NEW x \in 1 .. Len(files), NEW y \in 1 .. Len(files),
         <<x, y>> \in Placing(files)
  PROVE  /\ IndexIn(PlacedOf(files), x) \in 1 .. Len(PlacedOf(files))
         /\ IndexIn(PlacedOf(files), y) \in 1 .. Len(PlacedOf(files))
         /\ PlacedOf(files)[IndexIn(PlacedOf(files), x)] = x
         /\ IndexIn(PlacedOf(files), x) < IndexIn(PlacedOf(files), y)
<1> DEFINE K == 1 .. Len(files)
           R == Placing(files)
           p == PlacedOf(files)
           C == Cardinality(K)
           a == IndexIn(p, x)
           b == IndexIn(p, y)
<1>1. StrictOrder(K, R) /\ IsFiniteSet(K)
  BY PlacingStrict, FS_Interval
<1>2. C \in Nat /\ p \in [1 .. C -> K] /\ \A k, l \in 1 .. C : k < l => <<p[k], p[l]>> \in R
  <2> HIDE DEF K, R
  <2>1. p = Enumerate(K, R)
    BY DEF PlacedOf, K, R
  <2> HIDE DEF p
  <2> QED BY <1>1, <2>1, EnumerateInOrder
<1>3. PlacedIn(p, Len(files))
  BY AllArePlaced DEF PlacedOf
<1>4. a \in 1 .. Len(p) /\ p[a] = x /\ b \in 1 .. Len(p) /\ p[b] = y
  BY <1>3 DEF PlacedIn
<1> HIDE DEF K, R, p, C, a, b
<1>5. Len(p) = C
  BY <1>2
<1>6. x \in K /\ y \in K /\ <<x, y>> \in R
  BY DEF K, R
<1>7. a # b
  BY <1>1, <1>4, <1>6 DEF StrictOrder
<1>8. ~ b < a
  <2> SUFFICES ASSUME b < a PROVE FALSE
    OBVIOUS
  <2>1. <<y, x>> \in R
    BY <1>2, <1>4, <1>5
  <2>2. <<x, x>> \in R
    BY <1>1, <1>6, <2>1 DEF StrictOrder
  <2> QED BY <1>1, <1>6, <2>2 DEF StrictOrder
<1>9. a < b
  BY <1>2, <1>4, <1>5, <1>7, <1>8
<1> QED BY <1>4, <1>9 DEF a, b, p

\* A file placed ahead of another starts no later, and earlier unless it is
\* empty.
LEMMA PlacesFollow ==
  ASSUME NEW files \in Seq(Files), NEW x \in 1 .. Len(files), NEW y \in 1 .. Len(files),
         <<x, y>> \in Placing(files)
  PROVE  /\ PlaceOf(files, x) \in Nat /\ PlaceOf(files, y) \in Nat
         /\ PlaceOf(files, x) <= PlaceOf(files, y)
         /\ PlaceOf(files, x) = PlaceOf(files, y) => Len(Units(Stored(files[x]))) = 0
<1> DEFINE p == PlacedOf(files)
           a == IndexIn(p, x)
           b == IndexIn(p, y)
           s == BytesOf(files, p)
           u == Units(Stored(files[x]))
<1>1. a \in 1 .. Len(p) /\ b \in 1 .. Len(p) /\ p[a] = x /\ a < b
  BY RanksFollow
<1>2. PlacedIn(p, Len(files))
  BY AllArePlaced DEF PlacedOf
<1>3. DOMAIN p = 1 .. Len(p) /\ Len(p) \in Nat /\ \A q \in 1 .. Len(p) : p[q] \in 1 .. Len(files)
  <2> DEFINE K == 1 .. Len(files)
  <2>1. p \in Seq(K)
    BY <1>2 DEF PlacedIn
  <2> HIDE DEF K, p
  <2>2. DOMAIN p = 1 .. Len(p) /\ Len(p) \in Nat /\ \A q \in 1 .. Len(p) : p[q] \in K
    BY <2>1
  <2> QED BY <2>2 DEF K
<1>4. \A q \in 1 .. Len(files) : files[q] \in Files
  OBVIOUS
<1> HIDE DEF p
<1>5. s = [q \in 1 .. Len(p) |-> Units(Stored(files[p[q]]))]
  BY <1>3 DEF BytesOf
<1>6. \A q \in 1 .. Len(p) : Units(Stored(files[p[q]])) \in Seq(UnitsIn)
  BY <1>3, <1>4, StoredTyped
<1> DEFINE Z == Seq(UnitsIn)
<1>7. s \in Seq(Z) /\ Len(s) = Len(p) /\ s[a] = u
  <2> HIDE DEF s, Z
  <2>1. s \in [1 .. Len(p) -> Z]
    BY <1>5, <1>6 DEF Z
  <2>2. s[a] = Units(Stored(files[p[a]]))
    BY <1>1, <1>5
  <2>3. s \in Seq(Z) /\ Len(s) = Len(p)
    BY <1>3, <2>1
  <2>4. s[a] = u
    BY <1>1, <2>2
  <2> QED BY <2>3, <2>4
<1>8. Counters(s) /\ Ordered(s)
  <2> HIDE DEF s
  <2> QED BY <1>7, CountersGrow, CountersOrdered
<1>9. Len(u) \in Nat
  <2>1. u \in Seq(UnitsIn)
    BY <1>4, StoredTyped
  <2> HIDE DEF u
  <2> QED BY <2>1, LenProperties
<1> HIDE DEF s, a, b, u
<1>10. /\ Upto(s, a) = Upto(s, a - 1) + Len(u) /\ Upto(s, a - 1) \in Nat /\ Upto(s, b - 1) \in Nat
       /\ Upto(s, a) <= Upto(s, b - 1)
  <2>1. a - 1 \in 0 .. Len(s) /\ b - 1 \in 0 .. Len(s) /\ a \in 0 .. Len(s) /\ a \in 1 .. Len(s) /\ a <= b - 1
    BY <1>1, <1>3, <1>7
  <2> QED BY <1>7, <1>8, <2>1 DEF Counters, Ordered
<1>11. PlaceOf(files, x) = Upto(s, a - 1) /\ PlaceOf(files, y) = Upto(s, b - 1)
  BY DEF PlaceOf, s, a, b, p
<1> QED BY <1>9, <1>10, <1>11 DEF u

\* Where all files are ordered, an empty one ahead of another is walked first.
EmptiesLead(files) ==
  (\A x \in DOMAIN files : files[x].order # NoOrder) =>
    \A x, y \in DOMAIN files :
      Length[files[x].data] = 0 /\ files[x].order < files[y].order => x < y

\* The order read from the places is the order they were given in.
LEMMA PlacesTell ==
  ASSUME NEW files \in Seq(Files), EmptiesLead(files), NEW gs, DOMAIN gs = 1 .. Len(files),
         \A x \in 1 .. Len(files) : gs[x].order = PlaceOf(files, x)
  PROVE  Placing(gs) = Placing(files)
<1> DEFINE K == 1 .. Len(files)
           R == Placing(files)
           Q == Placing(gs)
           at(x) == PlaceOf(files, x)
<1>0. DOMAIN files = K /\ \A x \in K : files[x] \in Files
  OBVIOUS
<1>1. StrictOrder(K, R)
  BY PlacingStrict
<1>2. ASSUME NEW x \in K, NEW y \in K, <<x, y>> \in R
      PROVE  /\ at(x) \in Nat /\ at(y) \in Nat /\ at(x) <= at(y)
             /\ at(x) = at(y) => x < y
  <2>1. /\ at(x) \in Nat /\ at(y) \in Nat /\ at(x) <= at(y)
        /\ at(x) = at(y) => Len(Units(Stored(files[x]))) = 0
    BY <1>2, PlacesFollow
  <2>2. ASSUME Len(Units(Stored(files[x]))) = 0 PROVE Length[files[x].data] = 0
    <3> DEFINE f == files[x]
    <3>1. f \in Files
      BY <1>0
    <3> HIDE DEF f
    <3>2. f.data \in Data /\ f.storage \in Storages /\ Stored(f) = [data |-> f.data, storage |-> f.storage]
      BY <3>1, StoredTyped
    <3>3. Len(Units(Stored(f))) = Length[f.data] + (IF f.storage = "Store" THEN 0 ELSE 1)
      BY <3>2, UnitsTyped
    <3>4. Length[f.data] \in Nat
      BY <3>2, ImageAssumption
    <3>5. Length[f.data] = 0
      BY <2>2, <3>3, <3>4 DEF f
    <3> QED BY <3>5 DEF f
  <2>3. \/ (\A k \in DOMAIN files : files[k].order # NoOrder) /\ files[x].order < files[y].order
        \/ x < y
    <3>1. IF (\A k \in DOMAIN files : files[k].order # NoOrder) /\ files[x].order # files[y].order
          THEN files[x].order < files[y].order
          ELSE x < y
      BY <1>2 DEF Placing
    <3> QED BY <3>1
  <2>4. ASSUME Length[files[x].data] = 0 PROVE x < y
    BY <1>0, <2>3, <2>4 DEF EmptiesLead
  <2> QED BY <2>1, <2>2, <2>4
<1>3. ASSUME NEW x \in K PROVE at(x) # NoOrder \/ K = {x}
  <2>1. ASSUME NEW y \in K, y # x PROVE at(x) \in Nat
    <3>1. <<x, y>> \in R \/ <<y, x>> \in R
      BY <1>1, <2>1 DEF StrictOrder
    <3> QED BY <1>2, <3>1
  <2> QED BY <2>1 DEF NoOrder
<1>4. Q \subseteq K \X K /\ R \subseteq K \X K
  BY <1>0 DEF Placing
<1>5. \A x, y \in K : <<x, y>> \in Q <=>
        IF (\A k \in K : at(k) # NoOrder) /\ at(x) # at(y) THEN at(x) < at(y) ELSE x < y
  BY DEF Placing
<1> HIDE DEF at, Q, R
<1>6. ASSUME NEW x \in K, NEW y \in K
      PROVE  <<x, y>> \in Q <=> <<x, y>> \in R
  <2>1. CASE x = y
    <3>1. <<x, y>> \notin Q
      BY <1>5, <2>1
    <3>2. <<x, y>> \notin R
      BY <1>1, <2>1 DEF StrictOrder
    <3> QED BY <3>1, <3>2
  <2>2. CASE x # y
    <3>1. \A k \in K : at(k) # NoOrder
      BY <1>3, <2>2
    <3>2. <<x, y>> \in Q <=> IF at(x) # at(y) THEN at(x) < at(y) ELSE x < y
      BY <1>5, <3>1
    <3>3. CASE <<x, y>> \in R
      BY <1>2, <3>2, <3>3
    <3>4. CASE <<x, y>> \notin R
      <4>1. <<y, x>> \in R
        BY <1>1, <2>2, <3>4 DEF StrictOrder
      <4>2. at(x) \in Nat /\ at(y) \in Nat /\ at(y) <= at(x) /\ (at(y) = at(x) => y < x)
        BY <1>2, <4>1
      <4>3. <<x, y>> \notin Q
        BY <3>2, <4>2
      <4> QED BY <3>4, <4>3
    <3> QED BY <3>3, <3>4
  <2> QED BY <2>1, <2>2
<1>7. Q = R
  <2> HIDE DEF K
  <2>1. \A e \in K \X K : e \in Q <=> e \in R
    <3> SUFFICES ASSUME NEW e \in K \X K PROVE e \in Q <=> e \in R
      OBVIOUS
    <3>1. PICK x \in K, y \in K : e = <<x, y>>
      OBVIOUS
    <3> QED BY <1>6, <3>1
  <2> QED BY <1>4, <2>1
<1> QED BY <1>7 DEF Q, R
\* The visits of a TOC are in the order of its walk.
WalkedBefore(lay, ts, a, b) ==
  \/ a.toc < b.toc
  \/ a.toc = b.toc /\ <<a.path, b.path>> \in WalkOrder(lay, ts[a.toc].tree)

LEMMA WalkInOrder ==
  ASSUME NEW t, IsTree(t), IsFiniteSet(DOMAIN t), NEW lay
  PROVE  \A k, l \in 1 .. Len(Walk(lay, t)) : k < l => <<Walk(lay, t)[k], Walk(lay, t)[l]>> \in WalkOrder(lay, t)
<1>1. Walk(lay, t) = Enumerate(DOMAIN t, WalkOrder(lay, t))
  BY DEF Walk, WalkOrder
<1>2. StrictOrder(DOMAIN t, WalkOrder(lay, t)) /\ Len(Walk(lay, t)) = Cardinality(DOMAIN t)
  BY WalkOrderStrict, WalkIs
<1> QED BY <1>1, <1>2, EnumerateInOrder

LEMMA VisitsInOrder ==
  ASSUME NEW ts, WholeArchive(ts), NEW lay,
         NEW u \in 1 .. Len(Visits(lay, ts)), NEW v \in 1 .. Len(Visits(lay, ts)), u < v
  PROVE  WalkedBefore(lay, ts, Visits(lay, ts)[u], Visits(lay, ts)[v])
<1> DEFINE walks == WalksOf(lay, ts)
           visits == Visits(lay, ts)
           N == Len(ts)
           V == VisitsOf(ts)
<1>1. visits = FlattenSeq(walks) /\ visits \in Seq(V)
  <2>1. visits = FlattenSeq(walks)
    BY DEF Visits, WalksOf
  <2>2. visits \in Seq(V)
    BY VisitsAre DEF Visited
  <2> QED BY <2>1, <2>2
<1>2. N \in Nat /\ DOMAIN ts = 1 .. N /\ \A i \in 1 .. N : IsTree(ts[i].tree) /\ IsFiniteSet(DOMAIN ts[i].tree)
  BY ArchiveParts DEF WholeArchive, Whole
<1>3. walks \in Seq(Seq(V)) /\ Len(walks) = N
  <2>1. walks = [i \in 1 .. N |-> walks[i]]
    BY <1>2 DEF WalksOf
  <2>2. \A i \in 1 .. N : walks[i] \in Seq(V)
    BY WalksAre
  <2> HIDE DEF walks, V
  <2>3. walks \in [1 .. N -> Seq(V)]
    BY <2>1, <2>2
  <2> QED BY <1>2, <2>3
<1>4. ASSUME NEW i \in 1 .. N, NEW k \in 1 .. Len(walks[i])
      PROVE  /\ k \in 1 .. Len(Walk(lay, ts[i].tree))
             /\ walks[i][k] = [toc |-> i, path |-> Walk(lay, ts[i].tree)[k]]
             /\ Len(walks[i]) = Len(Walk(lay, ts[i].tree))
  <2> DEFINE w == Walk(lay, ts[i].tree)
  <2>1. Len(w) = Cardinality(DOMAIN ts[i].tree) /\ Len(w) \in Nat
    BY <1>2, WalkIs DEF Walked
  <2>2. walks[i] = [l \in 1 .. Len(w) |-> [toc |-> i, path |-> w[l]]]
    BY <1>2, <2>1 DEF WalksOf
  <2> HIDE DEF w, walks
  <2>3. Len(walks[i]) = Len(w)
    <3> DEFINE x == walks[i]
    <3>1. x = [l \in 1 .. Len(w) |-> x[l]]
      BY <2>2
    <3> HIDE DEF x
    <3>2. Len(x) = Len(w)
      BY <2>1, <3>1, LengthIs
    <3> QED BY <3>2 DEF x
  <2> QED BY <2>2, <2>3 DEF w
<1> HIDE DEF walks, V, N, visits
<1>5. Counters(walks) /\ Ordered(walks)
  BY <1>3, CountersGrow, CountersOrdered
<1>6. ASSUME NEW x \in 1 .. Len(visits)
      PROVE  \E n \in 1 .. N : \E k \in 1 .. Len(walks[n]) :
               x = Upto(walks, n - 1) + k /\ visits[x] = walks[n][k]
                 /\ Upto(walks, n) = Upto(walks, n - 1) + Len(walks[n])
  <2>1. PICK n, k : FromOne(walks, x, n, k)
    BY <1>1, <1>3, FlatFrom
  <2>2. n \in 1 .. N /\ k \in 1 .. Len(walks[n]) /\ x = Upto(walks, n - 1) + k
    BY <1>3, <2>1 DEF FromOne
  <2>3. InFlat(walks, n, k)
    BY <1>3, <2>2, FlatHolds
  <2> QED BY <1>1, <1>3, <1>5, <2>2, <2>3 DEF InFlat, Counters
<1>7. u \in 1 .. Len(visits) /\ v \in 1 .. Len(visits)
  BY DEF visits
<1>8. PICK n \in 1 .. N : \E k \in 1 .. Len(walks[n]) :
             u = Upto(walks, n - 1) + k /\ visits[u] = walks[n][k]
             /\ Upto(walks, n) = Upto(walks, n - 1) + Len(walks[n])
  BY <1>6, <1>7
<1>9. PICK k \in 1 .. Len(walks[n]) :
             u = Upto(walks, n - 1) + k /\ visits[u] = walks[n][k]
             /\ Upto(walks, n) = Upto(walks, n - 1) + Len(walks[n])
  BY <1>8
<1>10. PICK m \in 1 .. N : \E l \in 1 .. Len(walks[m]) :
             v = Upto(walks, m - 1) + l /\ visits[v] = walks[m][l]
             /\ Upto(walks, m) = Upto(walks, m - 1) + Len(walks[m])
  BY <1>6, <1>7
<1>11. PICK l \in 1 .. Len(walks[m]) :
             v = Upto(walks, m - 1) + l /\ visits[v] = walks[m][l]
             /\ Upto(walks, m) = Upto(walks, m - 1) + Len(walks[m])
  BY <1>10
<1>12. /\ n - 1 \in 0 .. Len(walks) /\ m - 1 \in 0 .. Len(walks) /\ m \in 0 .. Len(walks) /\ n \in Nat /\ m \in Nat
       /\ Upto(walks, n - 1) \in Nat /\ Upto(walks, m - 1) \in Nat /\ Upto(walks, m) \in Nat
  <2>1. n - 1 \in 0 .. Len(walks) /\ m - 1 \in 0 .. Len(walks) /\ m \in 0 .. Len(walks)
    BY <1>2, <1>3
  <2> QED BY <1>2, <1>5, <2>1 DEF Counters
<1>13. Len(walks[m]) \in Nat
  <2>1. walks[m] \in Seq(V)
    BY <1>3
  <2> QED BY <2>1, LenProperties
<1>14. ~ m < n
  <2> SUFFICES ASSUME m < n PROVE FALSE
    OBVIOUS
  <2>1. m <= n - 1
    BY <1>12
  <2>2. Upto(walks, m) <= Upto(walks, n - 1)
    BY <1>5, <1>12, <2>1 DEF Ordered
  <2> QED BY <1>9, <1>11, <1>12, <1>13, <2>2
<1>15. visits[u].toc = n /\ visits[v].toc = m
       /\ visits[u].path = Walk(lay, ts[n].tree)[k] /\ visits[v].path = Walk(lay, ts[m].tree)[l]
       /\ k \in 1 .. Len(Walk(lay, ts[n].tree)) /\ l \in 1 .. Len(Walk(lay, ts[m].tree))
  <2>1. visits[u] = [toc |-> n, path |-> Walk(lay, ts[n].tree)[k]]
        /\ k \in 1 .. Len(Walk(lay, ts[n].tree))
    BY <1>4, <1>9
  <2>2. visits[v] = [toc |-> m, path |-> Walk(lay, ts[m].tree)[l]]
        /\ l \in 1 .. Len(Walk(lay, ts[m].tree))
    BY <1>4, <1>11
  <2> QED BY <2>1, <2>2
<1>16. CASE n = m
  <2>1. k < l
    BY <1>9, <1>11, <1>12, <1>13, <1>16
  <2>2. <<visits[u].path, visits[v].path>> \in WalkOrder(lay, ts[n].tree)
    BY <1>2, <1>15, <1>16, <2>1, WalkInOrder
  <2> QED BY <1>15, <1>16, <2>2 DEF WalkedBefore, visits
<1>17. CASE n # m
  <2>1. n < m
    BY <1>12, <1>14, <1>17
  <2>2. visits[u].toc < visits[v].toc
    BY <1>15, <2>1
  <2> DEFINE a == visits[u]
             b == visits[v]
  <2>3. a.toc < b.toc
    BY <2>2
  <2> HIDE DEF a, b
  <2>4. WalkedBefore(lay, ts, a, b)
    BY <2>3 DEF WalkedBefore
  <2> QED BY <2>4 DEF a, b, visits
<1> QED BY <1>16, <1>17

(***************************************************************************)
(* Where both layouts write the same strings they write the same file.     *)
(***************************************************************************)
LEMMA SaidsAre ==
  ASSUME NEW ts, WholeArchive(ts), NEW lay
  PROVE  /\ Saids(lay, ts) \in Seq(Seq(Strs)) /\ Len(Saids(lay, ts)) = Len(Visits(lay, ts))
         /\ \A v \in 1 .. Len(Visits(lay, ts)) :
              /\ Visits(lay, ts)[v] \in VisitsOf(ts)
              /\ Saids(lay, ts)[v] = SaidAt(lay, ts, Visits(lay, ts)[v])
         /\ Said(lay, ts) = FlattenSeq(Saids(lay, ts)) /\ Said(lay, ts) \in Seq(Strs)
<1> DEFINE visits == Visits(lay, ts)
           saids == Saids(lay, ts)
           V == VisitsOf(ts)
           N == Len(visits)
<1>1. IsArchive(ts) /\ visits \in Seq(V) /\ N \in Nat
  BY VisitsAre DEF Visited, WholeArchive
<1>2. DOMAIN visits = 1 .. N /\ \A v \in 1 .. N : visits[v] \in V
  <2> HIDE DEF visits, V
  <2> QED BY <1>1
<1>3. saids = [v \in 1 .. N |-> SaidAt(lay, ts, visits[v])]
  BY <1>2 DEF Saids
<1>4. \A v \in 1 .. N : saids[v] = SaidAt(lay, ts, visits[v]) /\ saids[v] \in Seq(Strs)
  BY <1>1, <1>2, <1>3, SaidAtAre
<1>5. saids \in Seq(Seq(Strs)) /\ Len(saids) = N
  <2> HIDE DEF saids, N
  <2>1. saids \in [1 .. N -> Seq(Strs)]
    BY <1>3, <1>4
  <2> QED BY <1>1, <2>1
<1>6. Said(lay, ts) = FlattenSeq(saids)
  BY DEF Said, Saids
<1>7. Said(lay, ts) \in Seq(Strs)
  BY <1>5, <1>6, FlatTyped
<1> QED BY <1>2, <1>4, <1>5, <1>6, <1>7

\* The legacy layout keeps every string.
LEMMA LegacyKeepsAll ==
  ASSUME NEW ts, WholeArchive(ts)
  PROVE  LET said == Said("Legacy", ts)
         IN  /\ Emitted("Legacy", said) = 1 .. Len(said)
             /\ DOMAIN Strings("Legacy", ts) = 1 .. Len(said)
             /\ \A i \in 1 .. Len(said) : Strings("Legacy", ts)[i] = Text(said[i])
<1> DEFINE said == Said("Legacy", ts)
           n == Len(said)
           K == Emitted("Legacy", said)
           pool == PoolOf("Legacy", said)
<1>1. said \in Seq(Strs)
  BY SaidsAre
<1>2. Strings("Legacy", ts) = [k \in DOMAIN pool |-> Text(pool[k])]
  BY DEF Strings, PoolOf
<1> HIDE DEF said
<1>3. n \in Nat /\ DOMAIN said = 1 .. n
  BY <1>1
<1>4. K = 1 .. n
  BY <1>3 DEF Emitted
<1>5. pool = Retain(said, 1 .. n)
  BY <1>4 DEF PoolOf
<1>6. Cardinality(1 .. n) = n
  <2> HIDE DEF n
  <2>1. CASE n = 0
    <3>1. 1 .. n = {}
      BY <2>1
    <3> QED BY <2>1, <3>1, FS_EmptySet
  <2>2. CASE n # 0
    BY <1>3, <2>2, FS_Interval
  <2> QED BY <2>1, <2>2
<1>7. DOMAIN pool = 1 .. n
  BY <1>5, <1>6 DEF Retain
<1>8. ASSUME NEW i \in 1 .. n PROVE pool[i] = said[i]
  <2>1. UpTo(1 .. n, i) = 1 .. i
    BY <1>3 DEF UpTo
  <2>2. Cardinality(1 .. i) = i
    BY FS_Interval
  <2>3. Retain(said, 1 .. n)[Cardinality(UpTo(1 .. n, i))] = said[i]
    BY <1>1, RetainedAt
  <2> QED BY <1>5, <2>1, <2>2, <2>3
<1> HIDE DEF pool
<1> QED BY <1>2, <1>4, <1>7, <1>8 DEF said

\* The modern layout keeps one of each.
LEMMA ModernKeepsOne ==
  ASSUME NEW ts, WholeArchive(ts)
  PROVE  \A k, l \in DOMAIN Strings("Modern", ts) :
           Strings("Modern", ts)[k] = Strings("Modern", ts)[l] => k = l
<1> DEFINE said == Said("Modern", ts)
           n == Len(said)
           K == Emitted("Modern", said)
           R == {p \in K \X K : p[1] < p[2]}
           order == Enumerate(K, R)
           C == Cardinality(K)
           pool == PoolOf("Modern", said)
<1>1. said \in Seq(Strs)
  BY SaidsAre
<1>2. Strings("Modern", ts) = [k \in DOMAIN pool |-> Text(pool[k])]
  BY DEF Strings, PoolOf
<1> HIDE DEF said
<1>3. n \in Nat /\ DOMAIN said = 1 .. n
  BY <1>1
<1>4. K \subseteq 1 .. n /\ IsFiniteSet(K)
  <2>1. K \subseteq 1 .. n
    BY <1>3 DEF Emitted
  <2>2. IsFiniteSet(1 .. n)
    BY <1>3, FS_Interval
  <2> HIDE DEF K, n
  <2> QED BY <2>1, <2>2, FS_Subset
<1>5. StrictOrder(K, R)
  <2> HIDE DEF K
  <2>1. \A i \in K : i \in Nat
    BY <1>4
  <2> QED BY <2>1 DEF StrictOrder
<1>6. /\ C \in Nat /\ order \in [1 .. C -> K]
      /\ \A k, l \in 1 .. C : k < l => <<order[k], order[l]>> \in R
  <2> HIDE DEF K, R
  <2> QED BY <1>4, <1>5, EnumerateInOrder
<1>7. DOMAIN pool = 1 .. C /\ \A k \in 1 .. C : pool[k] = said[order[k]]
  BY DEF PoolOf, Retain
<1>8. ASSUME NEW k \in 1 .. C, NEW l \in 1 .. C, k < l
      PROVE  Text(pool[k]) # Text(pool[l])
  <2>1. order[k] \in K /\ order[l] \in K /\ order[k] < order[l]
    <3> HIDE DEF order, C, K
    <3> QED BY <1>6, <1>8
  <2>2. order[k] \in 1 .. order[l] - 1
    <3> DEFINE a == order[k]
               b == order[l]
    <3>1. a \in 1 .. n /\ b \in 1 .. n /\ a < b
      BY <1>4, <2>1
    <3> HIDE DEF a, b, n
    <3>2. a \in 1 .. b - 1
      BY <1>3, <3>1
    <3> QED BY <3>2 DEF a, b
  <2>3. Text(said[order[k]]) # Text(said[order[l]])
    <3> HIDE DEF order
    <3> QED BY <2>1, <2>2 DEF Emitted
  <2> QED BY <1>7, <2>3
<1> HIDE DEF pool, C
<1>9. \A k, l \in 1 .. C : Text(pool[k]) = Text(pool[l]) => k = l
  BY <1>6, <1>8
<1> DEFINE strings == Strings("Modern", ts)
<1>10. DOMAIN strings = 1 .. C /\ \A k \in 1 .. C : strings[k] = Text(pool[k])
  BY <1>2, <1>7
<1> HIDE DEF strings
<1>11. \A k, l \in DOMAIN strings : strings[k] = strings[l] => k = l
  BY <1>9, <1>10
<1> QED BY <1>11 DEF strings

\* What any walk says.
IsSaid(ts, s) ==
  \E visit \in VisitsOf(ts) :
    \/ s = FolderString(visit)
    \/ \E k \in DOMAIN FolderAt(ts, visit).files : s = FileString(visit, FolderAt(ts, visit).files[k].name)

\* x is the k-th string of the v-th visit.
SaidBy(lay, ts, x, v, k) ==
  /\ v \in 1 .. Len(Visits(lay, ts)) /\ k \in 1 .. Len(SaidAt(lay, ts, Visits(lay, ts)[v]))
  /\ x \in 1 .. Len(Said(lay, ts)) /\ x = Upto(Saids(lay, ts), v - 1) + k
  /\ Said(lay, ts)[x] = SaidAt(lay, ts, Visits(lay, ts)[v])[k]

LEMMA SaidHere ==
  ASSUME NEW ts, WholeArchive(ts), NEW lay, NEW v \in 1 .. Len(Visits(lay, ts)),
         NEW k \in 1 .. Len(SaidAt(lay, ts, Visits(lay, ts)[v]))
  PROVE  SaidBy(lay, ts, Upto(Saids(lay, ts), v - 1) + k, v, k)
<1> DEFINE saids == Saids(lay, ts)
           said == Said(lay, ts)
<1>1. /\ saids \in Seq(Seq(Strs)) /\ Len(saids) = Len(Visits(lay, ts))
      /\ saids[v] = SaidAt(lay, ts, Visits(lay, ts)[v])
      /\ said = FlattenSeq(saids) /\ said \in Seq(Strs)
  BY SaidsAre
<1> HIDE DEF saids, said
<1>2. v \in 1 .. Len(saids) /\ k \in 1 .. Len(saids[v])
  BY <1>1
<1>3. InFlat(saids, v, k)
  BY <1>1, <1>2, FlatHolds
<1>4. DOMAIN said = 1 .. Len(said)
  BY <1>1
<1> QED BY <1>1, <1>3, <1>4 DEF InFlat, SaidBy, saids, said

LEMMA SaidFrom ==
  ASSUME NEW ts, WholeArchive(ts), NEW lay, NEW x \in 1 .. Len(Said(lay, ts))
  PROVE  \E v, k : SaidBy(lay, ts, x, v, k)
<1> DEFINE saids == Saids(lay, ts)
           said == Said(lay, ts)
<1>1. /\ saids \in Seq(Seq(Strs)) /\ Len(saids) = Len(Visits(lay, ts))
      /\ \A v \in 1 .. Len(Visits(lay, ts)) : saids[v] = SaidAt(lay, ts, Visits(lay, ts)[v])
      /\ said = FlattenSeq(saids)
  BY SaidsAre
<1>2. x \in 1 .. Len(said)
  OBVIOUS
<1> HIDE DEF saids, said
<1>3. PICK v, k : FromOne(saids, x, v, k)
  BY <1>1, <1>2, FlatFrom
<1>4. v \in 1 .. Len(Visits(lay, ts)) /\ k \in 1 .. Len(SaidAt(lay, ts, Visits(lay, ts)[v])) /\ x = Upto(saids, v - 1) + k
  BY <1>1, <1>3 DEF FromOne
<1> QED BY <1>4, SaidHere DEF saids

LEMMA OnlySaid ==
  ASSUME NEW ts, WholeArchive(ts), NEW lay, NEW x \in 1 .. Len(Said(lay, ts))
  PROVE  IsSaid(ts, Said(lay, ts)[x])
<1>1. PICK v, k : SaidBy(lay, ts, x, v, k)
  BY SaidFrom
<1> DEFINE visit == Visits(lay, ts)[v]
           s == Said(lay, ts)[x]
<1>2. IsArchive(ts) /\ visit \in VisitsOf(ts)
  BY <1>1, SaidsAre DEF SaidBy, WholeArchive
<1>3. SaidOf(lay, ts, visit, s)
  BY <1>1, <1>2, SaidAtAre DEF SaidBy
<1> HIDE DEF visit, s
<1>4. IsSaid(ts, s)
  <2>1. CASE s = FolderString(visit)
    BY <1>2, <2>1 DEF IsSaid
  <2>2. CASE \E j \in DOMAIN FolderAt(ts, visit).files : s = FileString(visit, FolderAt(ts, visit).files[j].name)
    BY <1>2, <2>2 DEF IsSaid
  <2>3. CASE \E j \in DOMAIN FolderAt(ts, visit).folders : s = FolderString(Child(visit, ts, j))
    <3>1. PICK j \in DOMAIN FolderAt(ts, visit).folders : s = FolderString(Child(visit, ts, j))
      BY <2>3
    <3>2. Child(visit, ts, j) \in VisitsOf(ts)
      BY <1>2, ChildVisited
    <3> QED BY <3>1, <3>2 DEF IsSaid
  <2> QED BY <1>3, <2>1, <2>2, <2>3 DEF SaidOf
<1> QED BY <1>4 DEF s

LEMMA SaidSomewhere ==
  ASSUME NEW ts, WholeArchive(ts), NEW lay, NEW s, IsSaid(ts, s)
  PROVE  \E x \in 1 .. Len(Said(lay, ts)) : Said(lay, ts)[x] = s
<1>1. SaysAll(lay, ts)
  BY AllIsSaid
<1> QED BY <1>1 DEF SaysAll, IsSaid

\* Both layouts write the same pool.
SameStrings(ts) == Strings("Legacy", ts) = Strings("Modern", ts)

LEMMA TextsTell ==
  ASSUME NEW ts, WholeArchive(ts), SameStrings(ts), NEW a, IsSaid(ts, a), NEW b, IsSaid(ts, b), Text(a) = Text(b)
  PROVE  a = b
<1> DEFINE said == Said("Legacy", ts)
           S == Strings("Legacy", ts)
<1>1. PICK x \in 1 .. Len(said) : said[x] = a
  BY SaidSomewhere
<1>2. PICK y \in 1 .. Len(said) : said[y] = b
  BY SaidSomewhere
<1>3. DOMAIN S = 1 .. Len(said) /\ \A i \in 1 .. Len(said) : S[i] = Text(said[i])
  BY LegacyKeepsAll
<1>4. \A k, l \in DOMAIN S : S[k] = S[l] => k = l
  BY ModernKeepsOne DEF SameStrings
<1> HIDE DEF S, said
<1>5. x = y
  BY <1>1, <1>2, <1>3, <1>4
<1> QED BY <1>1, <1>2, <1>5

LEMMA NamesAgree ==
  ASSUME NEW ts, WholeArchive(ts), SameStrings(ts), NEW key, IsSaid(ts, key)
  PROVE  NameOffset("Legacy", Said("Legacy", ts), key) = NameOffset("Modern", Said("Modern", ts), key)
<1>1. ASSUME NEW lay \in Layouts
      PROVE  LET n == NameOffset(lay, Said(lay, ts), key)
             IN  n \in DOMAIN Strings(lay, ts) /\ Strings(lay, ts)[n] = Text(key)
  <2> DEFINE said == Said(lay, ts)
             n == NameOffset(lay, said, key)
             pool == PoolOf(lay, said)
  <2>1. said \in Seq(Strs)
    BY SaidsAre
  <2>2. PICK x \in 1 .. Len(said) : said[x] = key
    BY SaidSomewhere
  <2>3. n \in DOMAIN pool /\ Text(pool[n]) = Text(key)
    <3> HIDE DEF said
    <3> QED BY <2>1, <2>2, KeptString
  <2>4. Strings(lay, ts) = [k \in DOMAIN pool |-> Text(pool[k])]
    BY DEF Strings, PoolOf
  <2> HIDE DEF pool, n
  <2>5. n \in DOMAIN Strings(lay, ts) /\ Strings(lay, ts)[n] = Text(key)
    BY <2>3, <2>4
  <2> QED BY <2>5 DEF n
<1> DEFINE n == NameOffset("Legacy", Said("Legacy", ts), key)
           m == NameOffset("Modern", Said("Modern", ts), key)
           S == Strings("Modern", ts)
<1>2. n \in DOMAIN S /\ S[n] = Text(key)
  BY <1>1 DEF SameStrings, Layouts
<1>3. m \in DOMAIN S /\ S[m] = Text(key)
  BY <1>1 DEF Layouts
<1>4. \A k, l \in DOMAIN S : S[k] = S[l] => k = l
  BY ModernKeepsOne
<1> HIDE DEF n, m, S
<1>5. n = m
  BY <1>2, <1>3, <1>4
<1> QED BY <1>5 DEF n, m
\* Where each string of one text has one of another ahead of it, the pool keeps
\* the other first.
SaidAhead(said, a, b) ==
  /\ \E x \in 1 .. Len(said) : Text(said[x]) = b
  /\ \A y \in 1 .. Len(said) : Text(said[y]) = b => \E x \in 1 .. y - 1 : Text(said[x]) = a

KeptAhead(pool, a, b) ==
  \E k, l \in DOMAIN pool : k < l /\ Text(pool[k]) = a /\ Text(pool[l]) = b

LEMMA ModernFirst ==
  ASSUME NEW said \in Seq(Strs), NEW a, NEW b, SaidAhead(said, a, b)
  PROVE  KeptAhead(PoolOf("Modern", said), a, b)
<1> DEFINE n == Len(said)
           K == Emitted("Modern", said)
           R == {p \in K \X K : p[1] < p[2]}
           order == Enumerate(K, R)
           C == Cardinality(K)
           pool == PoolOf("Modern", said)
<1>1. n \in Nat /\ DOMAIN said = 1 .. n
  OBVIOUS
<1>2. K \subseteq 1 .. n /\ IsFiniteSet(K)
  <2>1. K \subseteq 1 .. n
    BY <1>1 DEF Emitted
  <2>2. IsFiniteSet(1 .. n)
    BY <1>1, FS_Interval
  <2> HIDE DEF K, n
  <2> QED BY <2>1, <2>2, FS_Subset
<1>3. StrictOrder(K, R)
  <2> HIDE DEF K
  <2>1. \A i \in K : i \in Nat
    BY <1>2
  <2> QED BY <2>1 DEF StrictOrder
<1>4. /\ C \in Nat /\ order \in [1 .. C -> K]
      /\ \A i \in K : \E k \in 1 .. C : order[k] = i
      /\ \A k, l \in 1 .. C : k < l => <<order[k], order[l]>> \in R
  <2> HIDE DEF K, R
  <2> QED BY <1>2, <1>3, EnumerateInOrder
<1>5. DOMAIN pool = 1 .. C /\ \A k \in 1 .. C : pool[k] = said[order[k]]
  BY DEF PoolOf, Retain
<1>6. ASSUME NEW c, \E x \in 1 .. n : Text(said[x]) = c
      PROVE  \E x \in K : Text(said[x]) = c /\ \A y \in 1 .. n : Text(said[y]) = c => x <= y
  <2> DEFINE B == {x \in 1 .. n : Text(said[x]) = c}
  <2>1. B \subseteq Nat /\ B # {}
    BY <1>1, <1>6
  <2>2. PICK x \in B : \A y \in B : x <= y
    <3> HIDE DEF B
    <3> QED BY <2>1, LeastNatural
  <2>3. x \in 1 .. n /\ Text(said[x]) = c
    BY <2>2
  <2>4. ASSUME NEW j \in 1 .. x - 1 PROVE Text(said[j]) # Text(said[x])
    <3>1. j \in 1 .. n /\ ~ x <= j
      BY <1>1, <2>3
    <3>2. j \notin B
      <4> HIDE DEF B
      <4> QED BY <2>2, <3>1
    <3> QED BY <2>3, <3>1, <3>2
  <2>5. x \in K
    BY <1>1, <2>3, <2>4 DEF Emitted
  <2> HIDE DEF K
  <2> QED BY <2>2, <2>3, <2>5
<1>7. PICK y \in K : Text(said[y]) = b
  BY <1>6 DEF SaidAhead
<1>8. PICK w \in 1 .. y - 1 : Text(said[w]) = a
  <2>1. y \in 1 .. n
    BY <1>2, <1>7
  <2> QED BY <1>7, <2>1 DEF SaidAhead
<1>9. PICK x \in K : Text(said[x]) = a /\ \A z \in 1 .. n : Text(said[z]) = a => x <= z
  <2>1. w \in 1 .. n
    BY <1>1, <1>2, <1>7, <1>8
  <2> QED BY <1>6, <1>8, <2>1
<1>10. x < y /\ x \in 1 .. n /\ y \in 1 .. n
  <2>1. x \in 1 .. n /\ y \in 1 .. n
    BY <1>2, <1>7, <1>9
  <2>2. w \in 1 .. n
    BY <1>1, <2>1, <1>8
  <2>3. x <= w
    BY <1>8, <1>9, <2>2
  <2> QED BY <1>1, <1>8, <2>1, <2>2, <2>3
<1>11. PICK k \in 1 .. C : order[k] = x
  BY <1>4, <1>9
<1>12. PICK l \in 1 .. C : order[l] = y
  BY <1>4, <1>7
<1>13. k < l
  <2> HIDE DEF order, C, K
  <2>1. ~ l < k
    <3> SUFFICES ASSUME l < k PROVE FALSE
      OBVIOUS
    <3>1. order[l] < order[k]
      BY <1>4
    <3> QED BY <1>1, <1>10, <1>11, <1>12, <3>1
  <2>2. k # l
    BY <1>1, <1>10, <1>11, <1>12
  <2> QED BY <1>4, <2>1, <2>2
<1> HIDE DEF pool, order, C, K
<1>14. Text(pool[k]) = a /\ Text(pool[l]) = b /\ k \in DOMAIN pool /\ l \in DOMAIN pool
  BY <1>5, <1>7, <1>9, <1>11, <1>12
<1>15. KeptAhead(pool, a, b)
  BY <1>13, <1>14 DEF KeptAhead
<1> QED BY <1>15 DEF pool

\* The legacy pool lists the folders in the order of the walk.
LEMMA LegacyInOrder ==
  ASSUME NEW ts, WholeArchive(ts), NEW a \in VisitsOf(ts), NEW b \in VisitsOf(ts),
         a # b, ~ WalkedBefore("Legacy", ts, b, a)
  PROVE  LET S == Strings("Legacy", ts)
         IN  \E x, y \in DOMAIN S : x < y /\ S[x] = a.path /\ S[y] = b.path
<1> DEFINE V == Visits("Legacy", ts)
           saids == Saids("Legacy", ts)
           said == Said("Legacy", ts)
           S == Strings("Legacy", ts)
<1>1. IsArchive(ts) /\ Visited(ts, V)
  BY VisitsAre DEF WholeArchive
<1>2. PICK u \in 1 .. Len(V) : V[u] = a
  BY <1>1 DEF Visited
<1>3. PICK v \in 1 .. Len(V) : V[v] = b
  BY <1>1 DEF Visited
<1>4. u < v
  <2>1. ~ v < u
    BY <1>2, <1>3, VisitsInOrder
  <2>2. Len(V) \in Nat
    BY <1>1 DEF Visited
  <2> HIDE DEF V
  <2> QED BY <1>2, <1>3, <2>1, <2>2
<1>5. /\ saids \in Seq(Seq(Strs)) /\ Len(saids) = Len(V)
      /\ \A w \in 1 .. Len(V) : saids[w] = SaidAt("Legacy", ts, V[w])
  BY SaidsAre
<1>6. Counters(saids) /\ Ordered(saids)
  BY <1>5, CountersGrow, CountersOrdered
<1>7. ASSUME NEW w \in 1 .. Len(V)
      PROVE  /\ SaidBy("Legacy", ts, Upto(saids, w - 1) + 1, w, 1)
             /\ 1 \in 1 .. Len(saids[w])
             /\ SaidAt("Legacy", ts, V[w])[1] = FolderString(V[w])
  <2>1. V[w] \in VisitsOf(ts)
    BY SaidsAre
  <2>2. 1 \in 1 .. Len(SaidAt("Legacy", ts, V[w])) /\ SaidAt("Legacy", ts, V[w])[1] = FolderString(V[w])
    BY <1>1, <2>1, SaidAtAre DEF SaysOwn
  <2>3. SaidBy("Legacy", ts, Upto(Saids("Legacy", ts), w - 1) + 1, w, 1)
    BY <2>2, SaidHere
  <2> QED BY <1>5, <2>2, <2>3
<1> DEFINE x == Upto(saids, u - 1) + 1
           y == Upto(saids, v - 1) + 1
<1>8. x \in 1 .. Len(said) /\ said[x] = FolderString(a)
  BY <1>2, <1>7 DEF SaidBy
<1>9. y \in 1 .. Len(said) /\ said[y] = FolderString(b)
  BY <1>3, <1>7 DEF SaidBy
<1>10. x < y
  <2> HIDE DEF V, saids
  <2>0. Len(saids) \in Nat /\ Len(saids[u]) \in Nat /\ 1 <= Len(saids[u])
    <3>1. u \in 1 .. Len(saids)
      BY <1>5
    <3>2. saids[u] \in Seq(Strs)
      BY <1>5, <3>1
    <3>3. Len(saids) \in Nat /\ Len(saids[u]) \in Nat
      BY <1>5, <3>2, LenProperties
    <3> QED BY <1>7, <3>3
  <2>1. /\ u \in 1 .. Len(saids) /\ u \in 0 .. Len(saids) /\ u - 1 \in 0 .. Len(saids) /\ v - 1 \in 0 .. Len(saids)
        /\ u <= v - 1
    BY <1>4, <1>5, <2>0
  <2>2. /\ Upto(saids, u) = Upto(saids, u - 1) + Len(saids[u])
        /\ Upto(saids, u) <= Upto(saids, v - 1)
        /\ Upto(saids, u) \in Nat /\ Upto(saids, u - 1) \in Nat /\ Upto(saids, v - 1) \in Nat
    BY <1>6, <2>1 DEF Counters, Ordered
  <2> QED BY <2>0, <2>2
<1> HIDE DEF x, y
<1>11. DOMAIN S = 1 .. Len(said) /\ \A i \in 1 .. Len(said) : S[i] = Text(said[i])
  BY LegacyKeepsAll
<1>12. Text(FolderString(a)) = a.path /\ Text(FolderString(b)) = b.path
  BY DEF Text, FolderString
<1> HIDE DEF S, said
<1>13. x \in DOMAIN S /\ y \in DOMAIN S /\ S[x] = a.path /\ S[y] = b.path
  BY <1>8, <1>9, <1>11, <1>12
<1> QED BY <1>10, <1>13 DEF S
\* Where the walks differ, they differ on a folder and one a level below it.
LEMMA WalksPart ==
  ASSUME NEW t, IsTree(t), NEW p \in DOMAIN t, NEW q \in DOMAIN t,
         BreadthFirst(t, p, q), ~ DepthFirst(t, p, q)
  PROVE  \E r \in DOMAIN t :
           /\ r # <<>> /\ p # <<>> /\ Len(r) = Len(p) + 1 /\ r # p
           /\ DepthFirst(t, r, p)
<1>1. p \in Seq(Names) /\ q \in Seq(Names) /\ Len(p) \in Nat /\ Len(q) \in Nat
  BY FolderParts
<1>2. Len(p) < Len(q)
  BY DEF BreadthFirst
<1>3. ~ IsPrefix(p, q)
  <2>1. ~ IsStrictPrefix(p, q)
    BY DEF DepthFirst
  <2> QED BY <1>2, <2>1 DEF IsStrictPrefix
<1>4. ~ IsPrefix(q, p)
  BY <1>1, <1>2, PrefixPointwise
<1>5. PICK i \in Nat : Parts(p, q, i)
  BY <1>1, <1>3, <1>4, PathsPartOrLead
<1> DEFINE n == Len(p)
           r == SubSeq(q, 1, n + 1)
<1>6. n + 1 \in 0 .. Len(q) /\ i \in 1 .. n /\ i \in 1 .. n + 1 /\ i <= Len(q) /\ p[i] # q[i]
      /\ \A j \in 1 .. i - 1 : p[j] = q[j]
  BY <1>1, <1>2, <1>5 DEF Parts
<1>7. r \in Seq(Names) /\ Len(r) = n + 1 /\ \A j \in 1 .. n + 1 : r[j] = q[j]
  BY <1>1, <1>6, PrefixParts
<1>8. r \in DOMAIN t
  BY <1>6, FoldersAbove
<1> HIDE DEF r
<1>9. r # <<>> /\ p # <<>> /\ r # p /\ Len(r) = Len(p) + 1
  <2>1. Len(r) # 0 /\ Len(p) # 0 /\ Len(r) # Len(p)
    BY <1>1, <1>6, <1>7
  <2> QED BY <1>7, <2>1
<1>10. \A j \in 1 .. i : r[j] = q[j]
  BY <1>6, <1>7
<1>11. Parts(p, r, i) /\ Parts(r, p, i)
  <2>1. p[i] # r[i] /\ \A j \in 1 .. i - 1 : p[j] = r[j]
    BY <1>6, <1>10
  <2> QED BY <1>1, <1>6, <1>7, <2>1 DEF Parts
<1>12. ~ Rank(t, p, i) < Rank(t, q, i) /\ Rank(t, p, i) \in Nat /\ Rank(t, q, i) \in Nat
       /\ Rank(t, p, i) # Rank(t, q, i)
  BY <1>5, RanksDiffer
<1>13. Rank(t, r, i) = Rank(t, q, i)
  <2>1. i \in 1 .. Len(r) /\ i <= Len(q)
    BY <1>6, <1>7
  <2>2. \A j \in 1 .. i - 1 : r[j] = q[j]
    BY <1>6, <1>10
  <2>3. r[i] = q[i]
    BY <1>6, <1>10
  <2> QED BY <1>1, <1>7, <2>1, <2>2, <2>3, RankAfterSame
<1>14. DepthFirst(t, r, p) <=> Rank(t, r, i) < Rank(t, p, i)
  BY <1>8, <1>11, RanksDiffer
<1>15. DepthFirst(t, r, p)
  BY <1>12, <1>13, <1>14
<1> QED BY <1>8, <1>9, <1>15

\* In the modern layout a folder is said before every folder a level below it.
LEMMA LevelsSaidInOrder ==
  ASSUME NEW ts, WholeArchive(ts), SameStrings(ts), NEW a \in VisitsOf(ts), NEW b \in VisitsOf(ts),
         a.toc = b.toc, a.path # <<>>, b.path # <<>>, Len(b.path) = Len(a.path) + 1,
         NEW y \in 1 .. Len(Said("Modern", ts)), Text(Said("Modern", ts)[y]) = b.path
  PROVE  \E x \in 1 .. y - 1 : Text(Said("Modern", ts)[x]) = a.path
<1> DEFINE V == Visits("Modern", ts)
           saids == Saids("Modern", ts)
           said == Said("Modern", ts)
<1>1. IsArchive(ts) /\ Visited(ts, V) /\ Len(V) \in Nat
  BY VisitsAre DEF WholeArchive, Visited
<1>2. said[y] = FolderString(b)
  <2>1. IsSaid(ts, said[y])
    BY OnlySaid
  <2>2. IsSaid(ts, FolderString(b))
    BY DEF IsSaid
  <2>3. Text(FolderString(b)) = b.path
    BY DEF Text, FolderString
  <2> QED BY <2>1, <2>2, <2>3, TextsTell
<1>3. PICK v, k : SaidBy("Modern", ts, y, v, k)
  BY SaidFrom
<1> DEFINE w == V[v]
<1>4. v \in 1 .. Len(V) /\ w \in VisitsOf(ts) /\ k \in 1 .. Len(SaidAt("Modern", ts, w))
      /\ SaidAt("Modern", ts, w)[k] = FolderString(b) /\ y = Upto(saids, v - 1) + k
  BY <1>2, <1>3, SaidsAre DEF SaidBy
<1>5. w.toc = b.toc /\ w.path = Front(b.path)
  <2> HIDE DEF w
  <2>1. SaidOf("Modern", ts, w, FolderString(b))
    BY <1>1, <1>4, SaidAtAre
  <2>2. \A c : FolderString(b) = FolderString(c) => b.path = c.path /\ b.toc = c.toc
    BY DEF FolderString
  <2>3. \A name : FolderString(b) # FileString(w, name)
    <3> SUFFICES ASSUME NEW name, FolderString(b) = FileString(w, name) PROVE FALSE
      OBVIOUS
    <3>1. FolderString(b).file = <<>> /\ FileString(w, name).file = <<name>>
      BY DEF FolderString, FileString
    <3>2. <<name>> # <<>>
      OBVIOUS
    <3> QED BY <3>1, <3>2
  <2>4. ~ (SaysOwn("Modern", w) /\ FolderString(b) = FolderString(w))
    <3>1. SaysOwn("Modern", w) => w.path = <<>>
      BY DEF SaysOwn
    <3> QED BY <2>2, <3>1
  <2>5. PICK j \in DOMAIN FolderAt(ts, w).folders : FolderString(b) = FolderString(Child(w, ts, j))
    BY <2>1, <2>3, <2>4 DEF SaidOf
  <2>6. b.path = Child(w, ts, j).path /\ b.toc = Child(w, ts, j).toc
    BY <2>2, <2>5
  <2>7. Child(w, ts, j).toc = w.toc /\ Front(Child(w, ts, j).path) = w.path
    BY <1>1, <1>4, ChildVisited
  <2> QED BY <2>6, <2>7
<1>6. PICK parent \in VisitsOf(ts) :
         /\ parent = [toc |-> a.toc, path |-> Front(a.path)]
         /\ \E j \in DOMAIN FolderAt(ts, parent).folders : Child(parent, ts, j) = a
  BY <1>1, ListedByParent
<1>7. PICK j \in DOMAIN FolderAt(ts, parent).folders : Child(parent, ts, j) = a
  BY <1>6
<1>8. PICK l \in 1 .. Len(SaidAt("Modern", ts, parent)) : SaidAt("Modern", ts, parent)[l] = FolderString(a)
  BY <1>1, <1>7, SaidAtAre
<1>9. PICK u \in 1 .. Len(V) : V[u] = parent
  BY <1>1 DEF Visited
<1>10. parent.toc = w.toc /\ Len(parent.path) \in Nat /\ Len(w.path) = Len(parent.path) + 1
  <2>1. a.path \in Seq(Names) /\ b.path \in Seq(Names) /\ Len(a.path) \in Nat
    <3>1. a.path \in Seq(Names) /\ b.path \in Seq(Names)
      BY <1>1, VisitParts
    <3> QED BY <3>1, LenProperties
  <2>2. Len(Front(a.path)) = Len(a.path) - 1 /\ Len(Front(b.path)) = Len(b.path) - 1
    BY <2>1, FrontAndLast
  <2>3. Front(a.path) \in Seq(Names)
    BY <2>1, FrontAndLast
  <2>4. Len(Front(a.path)) \in Nat
    BY <2>3, LenProperties
  <2> QED BY <1>5, <1>6, <2>1, <2>2, <2>4
<1>11. u < v
  <2>1. ~ v < u
    <3> SUFFICES ASSUME v < u PROVE FALSE
      OBVIOUS
    <3>1. WalkedBefore("Modern", ts, w, parent)
      BY <1>4, <1>9, VisitsInOrder
    <3> HIDE DEF w
    <3>2. BreadthFirst(ts[w.toc].tree, w.path, parent.path)
      <4>1. ~ w.toc < parent.toc
        <5>1. w.toc \in Nat
          BY <1>1, <1>4, VisitParts
        <5> QED BY <1>10, <5>1
      <4>2. <<w.path, parent.path>> \in WalkOrder("Modern", ts[w.toc].tree)
        BY <3>1, <4>1 DEF WalkedBefore
      <4> QED BY <4>2 DEF WalkOrder
    <3> QED BY <1>10, <3>2 DEF BreadthFirst
  <2>2. u # v
    <3> SUFFICES ASSUME u = v PROVE FALSE
      OBVIOUS
    <3>1. w.path = parent.path
      BY <1>9
    <3> HIDE DEF w
    <3> QED BY <1>10, <3>1
  <2> HIDE DEF V, w
  <2> QED BY <1>1, <1>4, <1>9, <2>1, <2>2
<1>12. /\ saids \in Seq(Seq(Strs)) /\ Len(saids) = Len(V)
       /\ saids[u] = SaidAt("Modern", ts, parent)
  BY <1>9, SaidsAre
<1>13. SaidBy("Modern", ts, Upto(saids, u - 1) + l, u, l)
  BY <1>8, <1>9, SaidHere
<1> DEFINE x == Upto(saids, u - 1) + l
<1>14. x \in 1 .. Len(said) /\ said[x] = FolderString(a)
  BY <1>8, <1>9, <1>13 DEF SaidBy
<1>15. Counters(saids) /\ Ordered(saids)
  BY <1>12, CountersGrow, CountersOrdered
<1>16. x < y
  <2> HIDE DEF V, saids, w
  <2>0. u \in 1 .. Len(saids) /\ v \in 1 .. Len(saids) /\ Len(saids) \in Nat /\ Len(saids[u]) \in Nat /\ l \in 1 .. Len(saids[u])
    <3>1. u \in 1 .. Len(saids) /\ v \in 1 .. Len(saids) /\ Len(saids) \in Nat
      BY <1>1, <1>4, <1>9, <1>12
    <3>2. saids[u] \in Seq(Strs)
      BY <1>12, <3>1
    <3> QED BY <1>8, <1>12, <3>1, <3>2, LenProperties
  <2>1. u \in 0 .. Len(saids) /\ u - 1 \in 0 .. Len(saids) /\ v - 1 \in 0 .. Len(saids) /\ u <= v - 1
    BY <1>11, <2>0
  <2>2. /\ Upto(saids, u) = Upto(saids, u - 1) + Len(saids[u])
        /\ Upto(saids, u) <= Upto(saids, v - 1)
        /\ Upto(saids, u) \in Nat /\ Upto(saids, u - 1) \in Nat /\ Upto(saids, v - 1) \in Nat
    BY <1>15, <2>0, <2>1 DEF Counters, Ordered
  <2>3. k \in Nat /\ 1 <= k
    BY <1>4
  <2>4. y = Upto(saids, v - 1) + k
    BY <1>4
  <2> QED BY <2>0, <2>2, <2>3, <2>4
<1>17. Text(said[x]) = a.path
  BY <1>14 DEF Text, FolderString
<1> HIDE DEF x, said
<1>18. x \in 1 .. y - 1
  <2>1. said \in Seq(Strs)
    BY SaidsAre DEF said
  <2>2. x \in Nat /\ 1 <= x /\ y \in Nat
    BY <1>14, <2>1 DEF said
  <2> QED BY <1>16, <2>2
<1> QED BY <1>17, <1>18 DEF said
LEMMA BreadthIsDepth ==
  ASSUME NEW ts, WholeArchive(ts), SameStrings(ts), NEW i \in DOMAIN ts,
         NEW p \in DOMAIN ts[i].tree, NEW q \in DOMAIN ts[i].tree, BreadthFirst(ts[i].tree, p, q)
  PROVE  DepthFirst(ts[i].tree, p, q)
<1> SUFFICES ASSUME ~ DepthFirst(ts[i].tree, p, q) PROVE FALSE
  OBVIOUS
<1> DEFINE t == ts[i].tree
           M == Strings("Modern", ts)
           L == Strings("Legacy", ts)
           said == Said("Modern", ts)
           pool == PoolOf("Modern", said)
<1>1. IsTree(t) /\ IsArchive(ts)
  BY ArchiveParts DEF WholeArchive
<1>2. PICK r \in DOMAIN t : /\ r # <<>> /\ p # <<>> /\ Len(r) = Len(p) + 1 /\ r # p
                            /\ DepthFirst(t, r, p)
  BY <1>1, WalksPart
<1> DEFINE a == [toc |-> i, path |-> p]
           b == [toc |-> i, path |-> r]
<1>3. a \in VisitsOf(ts) /\ b \in VisitsOf(ts)
  BY VisitIn
<1>4. a.toc = i /\ b.toc = i /\ a.path = p /\ b.path = r /\ a # b
  BY <1>2
<1> HIDE DEF a, b
<1>5. ~ WalkedBefore("Legacy", ts, a, b)
  <2>1. ~ DepthFirst(t, p, r)
    BY <1>1, <1>2, DepthFirstOrders
  <2>2. <<p, r>> \notin WalkOrder("Legacy", t)
    BY <2>1 DEF WalkOrder
  <2>3. i \in Nat
    BY <1>1, ArchiveParts
  <2> QED BY <1>4, <2>2, <2>3 DEF WalkedBefore
<1>6. PICK x \in DOMAIN L, y \in DOMAIN L : x < y /\ L[x] = r /\ L[y] = p
  <2>1. \E x, y \in DOMAIN L : x < y /\ L[x] = b.path /\ L[y] = a.path
    BY <1>3, <1>4, <1>5, LegacyInOrder
  <2> QED BY <1>4, <2>1
<1>7. PICK k \in DOMAIN pool, l \in DOMAIN pool : k < l /\ Text(pool[k]) = p /\ Text(pool[l]) = r
  <2>1. said \in Seq(Strs)
    BY SaidsAre
  <2>2. \E z \in 1 .. Len(said) : Text(said[z]) = r
    <3>1. IsSaid(ts, FolderString(b))
      BY <1>3 DEF IsSaid
    <3>2. PICK z \in 1 .. Len(said) : said[z] = FolderString(b)
      BY <3>1, SaidSomewhere
    <3>3. Text(FolderString(b)) = r
      BY <1>4 DEF Text, FolderString
    <3> QED BY <3>2, <3>3
  <2>3. ASSUME NEW z \in 1 .. Len(said), Text(said[z]) = r
        PROVE  \E w \in 1 .. z - 1 : Text(said[w]) = p
    <3>1. /\ a.toc = b.toc /\ a.path # <<>> /\ b.path # <<>> /\ Len(b.path) = Len(a.path) + 1
          /\ Text(Said("Modern", ts)[z]) = b.path
      BY <1>2, <1>4, <2>3
    <3>2. \E w \in 1 .. z - 1 : Text(Said("Modern", ts)[w]) = a.path
      BY <1>3, <3>1, LevelsSaidInOrder
    <3> QED BY <1>4, <3>2
  <2> HIDE DEF said
  <2>4. SaidAhead(said, p, r)
    BY <2>2, <2>3 DEF SaidAhead
  <2>5. KeptAhead(pool, p, r)
    BY <2>1, <2>4, ModernFirst
  <2> QED BY <2>5 DEF KeptAhead
<1>8. M = [m \in DOMAIN pool |-> Text(pool[m])]
  BY DEF Strings, PoolOf
<1> HIDE DEF pool
<1>9. k \in DOMAIN M /\ l \in DOMAIN M /\ M[k] = p /\ M[l] = r
  BY <1>7, <1>8
<1>10. \A m, n \in DOMAIN M : M[m] = M[n] => m = n
  BY ModernKeepsOne
<1>11. L = M
  BY DEF SameStrings
<1>n. x \in Nat /\ y \in Nat
  <2>1. DOMAIN L = 1 .. Len(Said("Legacy", ts))
    BY LegacyKeepsAll
  <2> HIDE DEF L
  <2> QED BY <2>1
<1> HIDE DEF M, L
<1>12. x = l /\ y = k
  BY <1>6, <1>9, <1>10, <1>11
<1> QED BY <1>6, <1>7, <1>n, <1>12

LEMMA WalksAgree ==
  ASSUME NEW ts, WholeArchive(ts), SameStrings(ts)
  PROVE  /\ \A i \in DOMAIN ts : WalkOrder("Modern", ts[i].tree) = WalkOrder("Legacy", ts[i].tree)
         /\ Visits("Modern", ts) = Visits("Legacy", ts)
<1>1. ASSUME NEW i \in DOMAIN ts
      PROVE  WalkOrder("Modern", ts[i].tree) = WalkOrder("Legacy", ts[i].tree)
  <2> DEFINE t == ts[i].tree
             D == DOMAIN t
  <2>1. IsTree(t)
    BY ArchiveParts DEF WholeArchive
  <2>2. ASSUME NEW p \in D, NEW q \in D
        PROVE  BreadthFirst(t, p, q) <=> DepthFirst(t, p, q)
    <3>1. BreadthFirst(t, p, q) => DepthFirst(t, p, q)
      BY BreadthIsDepth
    <3>2. ASSUME DepthFirst(t, p, q), ~ BreadthFirst(t, p, q) PROVE FALSE
      <4>1. p # q
        BY <2>1, <3>2, DepthFirstOrders
      <4>2. BreadthFirst(t, q, p)
        BY <2>1, <3>2, <4>1, BreadthFirstOrders
      <4>3. DepthFirst(t, q, p)
        BY <4>2, BreadthIsDepth
      <4>4. DepthFirst(t, p, p)
        BY <2>1, <3>2, <4>3, DepthFirstOrders
      <4> QED BY <2>1, <4>4, DepthFirstOrders
    <3> QED BY <3>1, <3>2
  <2>3. \A x \in D \X D : BreadthFirst(t, x[1], x[2]) <=> DepthFirst(t, x[1], x[2])
    <3> HIDE DEF t, D
    <3> QED BY <2>2
  <2> QED BY <2>3 DEF WalkOrder
<1>2. \A i \in DOMAIN ts : Walk("Modern", ts[i].tree) = Walk("Legacy", ts[i].tree)
  <2>1. \A lay, t : Walk(lay, t) = Enumerate(DOMAIN t, WalkOrder(lay, t))
    BY DEF Walk, WalkOrder
  <2> QED BY <1>1, <2>1
<1>3. WalksOf("Modern", ts) = WalksOf("Legacy", ts)
  BY <1>2 DEF WalksOf
<1>4. Visits("Modern", ts) = Visits("Legacy", ts)
  BY <1>3 DEF Visits, WalksOf
<1> QED BY <1>1, <1>4

LEMMA LayoutsAgree ==
  ASSUME NEW ts, WholeArchive(ts), SameStrings(ts), NEW ver, NEW sizes
  PROVE  ImageBy(sizes, "Modern", ver, ts) = ImageBy(sizes, "Legacy", ver, ts)
<1> DEFINE V == Visits("Legacy", ts)
           S == Strings("Legacy", ts)
           slots == SlotTable(V, ts)
           files == FilesOf(V, ts)
           table == FolderTable(V, ts)
           placed == Enumerate(DOMAIN files, Placing(files))
           bytes == [r \in DOMAIN placed |-> Units(Stored(files[placed[r]]))]
           hashes == [k \in DOMAIN files |-> HashesOf(files[k])]
           listed == ListedOf(V, ts)
           F(lay) == [k \in DOMAIN table |-> FolderEntry(lay, ts, V, Said(lay, ts), table[k])]
           N(lay) == [k \in DOMAIN files |-> NameOffset(lay, Said(lay, ts), FileString(slots[k], files[k].name))]
           I(fs, ns) ==
             [version |-> ver, data |-> FlattenSeq(bytes),
              tocs |-> [i \in DOMAIN ts |->
                          [alias |-> ts[i].alias, root |-> Upto(listed, IndexIn(V, [toc |-> i, path |-> <<>>]) - 1)]],
              folders |-> fs,
              files |-> [k \in DOMAIN files |->
                           FileEntry(files[k], ns[k], Upto(hashes, k - 1), Upto(bytes, IndexIn(placed, k) - 1))],
              strings |-> S, hashes |-> FlattenSeq(hashes),
              at |-> OffsetsBy(sizes, [data |-> Len(FlattenSeq(bytes)), tocs |-> Len(ts),
                                       folders |-> Len(table), files |-> Len(files), strings |-> Len(S)])]
<1>1. Visits("Modern", ts) = V /\ Strings("Modern", ts) = S
  BY WalksAgree DEF SameStrings
<1>2. ASSUME NEW lay \in Layouts
      PROVE  ImageBy(sizes, lay, ver, ts) = I(F(lay), N(lay))
  <2>1. Visits(lay, ts) = V /\ Strings(lay, ts) = S
    BY <1>1 DEF Layouts
  <2> DEFINE V2 == Visits(lay, ts)
             said2 == Said(lay, ts)
             slots2 == FlattenSeq([v \in DOMAIN V2 |-> FolderSlots(V2[v], ts)])
             files2 == [k \in DOMAIN slots2 |-> FileAt(ts, slots2[k])]
             placed2 == Enumerate(DOMAIN files2, Placing(files2))
             bytes2 == [r \in DOMAIN placed2 |-> Units(Stored(files2[placed2[r]]))]
             hashes2 == [k \in DOMAIN files2 |-> HashesOf(files2[k])]
             listed2 == [v \in DOMAIN V2 |-> Listed(V2[v], ts)]
             table2 == FlattenSeq(listed2)
             S2 == Strings(lay, ts)
             Root(i) == IndexIn(V2, [toc |-> i, path |-> <<>>])
  <2>2. ImageBy(sizes, lay, ver, ts) =
          [version |-> ver, data |-> FlattenSeq(bytes2),
           tocs |-> [i \in DOMAIN ts |-> [alias |-> ts[i].alias, root |-> Upto(listed2, Root(i) - 1)]],
           folders |-> [k \in DOMAIN table2 |-> FolderEntry(lay, ts, V2, said2, table2[k])],
           files |-> [k \in DOMAIN files2 |->
                      FileEntry(files2[k], NameOffset(lay, said2, FileString(slots2[k], files2[k].name)),
                                Upto(hashes2, k - 1), Upto(bytes2, IndexIn(placed2, k) - 1))],
           strings |-> S2, hashes |-> FlattenSeq(hashes2),
           at |-> OffsetsBy(sizes, [data |-> Len(FlattenSeq(bytes2)), tocs |-> Len(ts),
                                    folders |-> Len(table2), files |-> Len(files2),
                                    strings |-> Len(S2)])]
    BY DEF ImageBy
  <2>3. V2 = V /\ S2 = S
    BY <2>1
  <2> HIDE DEF V2, V, S, S2
  <2>4. slots2 = slots
    BY <2>3 DEF SlotTable, SlotsOfVisits
  <2> HIDE DEF slots2, slots
  <2>5. files2 = [k \in DOMAIN slots |-> FileAt(ts, slots[k])]
    BY <2>4
  <2>6. files = [k \in DOMAIN slots |-> FileAt(ts, slots[k])]
    BY DEF FilesOf, slots
  <2>7. files2 = files
    BY <2>5, <2>6
  <2> HIDE DEF files2, files
  <2>8. placed2 = placed
    BY <2>7
  <2>9. hashes2 = hashes
    BY <2>7
  <2>10. listed2 = listed
    BY <2>3 DEF ListedOf
  <2> HIDE DEF placed2, placed, hashes2, hashes, listed2, listed
  <2>11. bytes2 = bytes
    BY <2>7, <2>8
  <2>12. table2 = table
    BY <2>10 DEF FolderTable, listed
  <2> HIDE DEF bytes2, bytes, table2, table
  <2>13. /\ [k \in DOMAIN table2 |-> FolderEntry(lay, ts, V2, said2, table2[k])] = F(lay)
         /\ DOMAIN files2 = DOMAIN files
    BY <2>3, <2>7, <2>12
  <2>14. \A k \in DOMAIN files2 :
           FileEntry(files2[k], NameOffset(lay, said2, FileString(slots2[k], files2[k].name)),
                     Upto(hashes2, k - 1), Upto(bytes2, IndexIn(placed2, k) - 1))
             = FileEntry(files[k], N(lay)[k], Upto(hashes, k - 1), Upto(bytes, IndexIn(placed, k) - 1))
    BY <2>4, <2>7, <2>8, <2>9, <2>11
  <2>15. [k \in DOMAIN files2 |->
            FileEntry(files2[k], NameOffset(lay, said2, FileString(slots2[k], files2[k].name)),
                      Upto(hashes2, k - 1), Upto(bytes2, IndexIn(placed2, k) - 1))]
           = [k \in DOMAIN files |->
                FileEntry(files[k], N(lay)[k], Upto(hashes, k - 1), Upto(bytes, IndexIn(placed, k) - 1))]
    BY <2>13, <2>14
  <2> HIDE DEF F, N
  <2> QED BY <2>2, <2>3, <2>7, <2>9, <2>10, <2>11, <2>12, <2>13, <2>15
<1>3. IsArchive(ts) /\ Visited(ts, V) /\ RootsLead(V) /\ ParentsLead(V)
  BY VisitsAre DEF WholeArchive
<1>4. F("Modern") = F("Legacy")
  <2>1. ASSUME NEW k \in DOMAIN table
        PROVE  FolderEntry("Modern", ts, V, Said("Modern", ts), table[k]) = FolderEntry("Legacy", ts, V, Said("Legacy", ts), table[k])
    <3>1. table \in Seq(VisitsOf(ts))
      BY <1>3, FoldersArePlaced DEF PlacedFolders
    <3>2. table[k] \in VisitsOf(ts)
      <4> DEFINE W == VisitsOf(ts)
      <4>1. table \in Seq(W) /\ k \in DOMAIN table
        BY <3>1
      <4> HIDE DEF W, table
      <4>2. table[k] \in W
        BY <4>1
      <4> QED BY <4>2 DEF W
    <3> HIDE DEF table, V
    <3>3. IsSaid(ts, FolderString(table[k]))
      BY <3>2 DEF IsSaid
    <3> QED BY <3>3, NamesAgree DEF FolderEntry
  <2> QED BY <2>1
<1>5. N("Modern") = N("Legacy")
  <2>1. ASSUME NEW k \in DOMAIN files
        PROVE  IsSaid(ts, FileString(slots[k], files[k].name))
    <3>1. PlacedFiles(V, ts)
      BY <1>3, FilesArePlaced
    <3>2. k \in 1 .. Len(files)
      <4>1. files \in Seq(Files)
        BY <3>1 DEF PlacedFiles
      <4> HIDE DEF files
      <4> QED BY <4>1
    <3>3. PICK w, j : IsFileOf(V, ts, k, w, j)
      BY <3>1, <3>2 DEF PlacedFiles
    <3>0. w \in 1 .. Len(V) /\ j \in 1 .. Len(FolderAt(ts, V[w]).files)
      BY <3>3 DEF IsFileOf
    <3>x. /\ slots[k] = [toc |-> V[w].toc, path |-> V[w].path, file |-> j]
          /\ files[k] = FolderAt(ts, V[w]).files[j]
      BY <3>1, <3>2, <3>3 DEF PlacedFiles
    <3>4. /\ w \in 1 .. Len(V) /\ j \in 1 .. Len(FolderAt(ts, V[w]).files)
          /\ slots[k] = [toc |-> V[w].toc, path |-> V[w].path, file |-> j]
          /\ files[k] = FolderAt(ts, V[w]).files[j]
      BY <3>0, <3>x
    <3>5. V[w] \in VisitsOf(ts)
      BY <3>4, SaidsAre
    <3>6. j \in DOMAIN FolderAt(ts, V[w]).files
      <4> DEFINE T == FolderAt(ts, V[w]).files
      <4>1. T \in Seq(Files) /\ j \in 1 .. Len(T)
        BY <1>3, <3>4, <3>5, VisitParts
      <4> HIDE DEF T
      <4>2. j \in DOMAIN T
        BY <4>1
      <4> QED BY <4>2 DEF T
    <3> HIDE DEF V, slots, files
    <3>7. FileString(slots[k], files[k].name) = FileString(V[w], FolderAt(ts, V[w]).files[j].name)
      BY <3>4 DEF FileString
    <3> QED BY <3>5, <3>6, <3>7 DEF IsSaid
  <2> HIDE DEF slots, files
  <2> QED BY <2>1, NamesAgree
<1> HIDE DEF F, N, I
<1>6. ImageBy(sizes, "Modern", ver, ts) = I(F("Modern"), N("Modern"))
  BY <1>2 DEF Layouts
<1>7. ImageBy(sizes, "Legacy", ver, ts) = I(F("Legacy"), N("Legacy"))
  BY <1>2 DEF Layouts
<1> QED BY <1>4, <1>5, <1>6, <1>7

(***************************************************************************)
(* Empty members stay ahead of the members placed after them.              *)
(***************************************************************************)
LEMMA WalkedAheadIs ==
  ASSUME NEW lay, NEW t, NEW p \in DOMAIN t, NEW q \in DOMAIN t
  PROVE  WalkedAhead(lay, t, p, q) <=> <<p, q>> \in WalkOrder(lay, t)
BY DEF WalkedAhead, WalkOrder

LEMMA WalkedAheadKept ==
  ASSUME NEW lay, NEW t, IsTree(t), Whole(t), NEW u, IsTree(u), Whole(u), FoldersInOrder(t, u),
         NEW p \in DOMAIN t, NEW q \in DOMAIN t, p \in DOMAIN u, q \in DOMAIN u, WalkedAhead(lay, t, p, q)
  PROVE  WalkedAhead(lay, u, p, q)
<1>1. DepthFirst(t, p, q) => DepthFirst(u, p, q)
  BY DepthKept
<1> QED BY <1>1 DEF WalkedAhead, BreadthFirst

\* A file of an archive, and what write needs of two of them.
FileIn(ts, i, p, k) ==
  i \in DOMAIN ts /\ p \in DOMAIN ts[i].tree /\ k \in DOMAIN ts[i].tree[p].files

GoesAhead(lay, ts, i, p, k, j, q, l) ==
  \/ i < j
  \/ i = j /\ WalkedAhead(lay, ts[i].tree, p, q)
  \/ i = j /\ p = q /\ k < l

LEMMA EmptiesAre ==
  ASSUME NEW lay, NEW ts
  PROVE  EmptiesInOrder(lay, ts) <=>
           \A i, p, k, j, q, l :
             /\ FileIn(ts, i, p, k) /\ FileIn(ts, j, q, l)
             /\ EmptyAhead(ts[i].tree[p].files[k], ts[j].tree[q].files[l])
             => GoesAhead(lay, ts, i, p, k, j, q, l)
<1>1. ASSUME EmptiesInOrder(lay, ts),
             NEW i, NEW p, NEW k, NEW j, NEW q, NEW l,
             FileIn(ts, i, p, k), FileIn(ts, j, q, l),
             EmptyAhead(ts[i].tree[p].files[k], ts[j].tree[q].files[l])
      PROVE  GoesAhead(lay, ts, i, p, k, j, q, l)
  <2>1. i \in DOMAIN ts /\ p \in DOMAIN ts[i].tree /\ k \in DOMAIN ts[i].tree[p].files
    BY <1>1 DEF FileIn
  <2>2. j \in DOMAIN ts /\ q \in DOMAIN ts[j].tree /\ l \in DOMAIN ts[j].tree[q].files
    BY <1>1 DEF FileIn
  <2> QED BY ONLY <1>1, <2>1, <2>2, Zenon DEF EmptiesInOrder, GoesAhead
<1>2. ASSUME \A i, p, k, j, q, l :
               /\ FileIn(ts, i, p, k) /\ FileIn(ts, j, q, l)
               /\ EmptyAhead(ts[i].tree[p].files[k], ts[j].tree[q].files[l])
               => GoesAhead(lay, ts, i, p, k, j, q, l)
      PROVE  EmptiesInOrder(lay, ts)
  <2> SUFFICES ASSUME NEW a \in DOMAIN ts, NEW b \in DOMAIN ts,
                      NEW x \in DOMAIN ts[a].tree, NEW y \in DOMAIN ts[b].tree,
                      NEW m \in DOMAIN ts[a].tree[x].files, NEW n \in DOMAIN ts[b].tree[y].files,
                      EmptyAhead(ts[a].tree[x].files[m], ts[b].tree[y].files[n])
               PROVE  GoesAhead(lay, ts, a, x, m, b, y, n)
    BY Zenon DEF EmptiesInOrder, GoesAhead
  <2>1. FileIn(ts, a, x, m) /\ FileIn(ts, b, y, n)
    BY DEF FileIn
  <2> QED BY <1>2, <2>1
<1> QED BY ONLY <1>1, <1>2

LEMMA FileTyped ==
  ASSUME NEW ts, IsArchive(ts), NEW i, NEW p, NEW k, FileIn(ts, i, p, k)
  PROVE  ts[i].tree[p].files[k] \in Files
<1> DEFINE table == ts[i].tree[p].files
<1>1. IsTree(ts[i].tree)
  BY TocParts DEF FileIn
<1>2. table \in Seq(Files) /\ k \in DOMAIN table
  BY <1>1, FolderParts DEF FileIn
<1> HIDE DEF table
<1>3. table[k] \in Files
  BY <1>2
<1> QED BY <1>3 DEF table

LEMMA EmptiesFollow ==
  ASSUME NEW lay, NEW ts, WholeArchive(ts), EmptiesInOrder(lay, ts),
         NEW us, WholeArchive(us), \A i \in DOMAIN us : FollowsAt(ts, us, i)
  PROVE  EmptiesInOrder(lay, us)
<1> SUFFICES ASSUME NEW i, NEW p, NEW k, NEW j, NEW q, NEW l,
                    FileIn(us, i, p, k), FileIn(us, j, q, l),
                    EmptyAhead(us[i].tree[p].files[k], us[j].tree[q].files[l])
             PROVE  GoesAhead(lay, us, i, p, k, j, q, l)
  BY EmptiesAre
<1> DEFINE f == us[i].tree[p].files[k]
           g == us[j].tree[q].files[l]
<1>1. f \in Files /\ g \in Files
  BY FileTyped DEF WholeArchive
<1>2. f.order # NoOrder /\ g.order # NoOrder /\ Length[f.data] = 0 /\ f.order < g.order
  <2> HIDE DEF f, g
  <2>1. Length[f.data] = 0 /\ f.order # NoOrder /\ f.order < g.order
    BY DEF EmptyAhead, f, g
  <2>2. f.order \in Nat /\ (g.order \in Nat \/ g.order = NoOrder)
    BY <1>1, <2>1 DEF Files
  <2> QED BY <2>1, <2>2 DEF NoOrder
<1> HIDE DEF f, g
<1>3. ASSUME NEW a, NEW x, NEW c, FileIn(us, a, x, c), us[a].tree[x].files[c].order # NoOrder
      PROVE  /\ a \in DOMAIN ts /\ TreeFollows(ts[a].tree, us[a].tree)
             /\ x \in DOMAIN ts[a].tree /\ TableFollows(ts[a].tree[x].files, us[a].tree[x].files)
  <2>1. ~ Unplaced(us[a].tree[x].files)
    BY <1>3 DEF Unplaced, FileIn
  <2>2. a \in DOMAIN us /\ x \in DOMAIN us[a].tree
    BY <1>3 DEF FileIn
  <2>3. a \in DOMAIN ts /\ TreeFollows(ts[a].tree, us[a].tree)
    BY <2>1, <2>2 DEF FollowsAt
  <2> QED BY <2>1, <2>2, <2>3 DEF TreeFollows
<1>4. /\ i \in DOMAIN ts /\ TreeFollows(ts[i].tree, us[i].tree)
      /\ p \in DOMAIN ts[i].tree /\ TableFollows(ts[i].tree[p].files, us[i].tree[p].files)
  BY <1>2, <1>3 DEF f
<1>5. /\ j \in DOMAIN ts /\ TreeFollows(ts[j].tree, us[j].tree)
      /\ q \in DOMAIN ts[j].tree /\ TableFollows(ts[j].tree[q].files, us[j].tree[q].files)
  BY <1>2, <1>3 DEF g
<1>6. ASSUME NEW m, Follow(ts[i].tree[p].files, us[i].tree[p].files, m),
             NEW n, Follow(ts[j].tree[q].files, us[j].tree[q].files, n)
      PROVE  GoesAhead(lay, ts, i, p, m[k], j, q, n[l])
  <2>1. /\ m[k] \in DOMAIN ts[i].tree[p].files
        /\ ts[i].tree[p].files[m[k]].data = f.data /\ ts[i].tree[p].files[m[k]].order = f.order
    BY <1>2, <1>6 DEF Follow, FileIn, f
  <2>2. /\ n[l] \in DOMAIN ts[j].tree[q].files
        /\ ts[j].tree[q].files[n[l]].order = g.order
    BY <1>2, <1>6 DEF Follow, FileIn, g
  <2>3. FileIn(ts, i, p, m[k]) /\ FileIn(ts, j, q, n[l])
    BY <1>4, <1>5, <2>1, <2>2 DEF FileIn
  <2>4. EmptyAhead(ts[i].tree[p].files[m[k]], ts[j].tree[q].files[n[l]])
    BY <1>2, <2>1, <2>2 DEF EmptyAhead
  <2> QED BY <2>3, <2>4, EmptiesAre
<1>7. \A a \in DOMAIN ts : IsTree(ts[a].tree) /\ Whole(ts[a].tree)
  BY TocParts DEF WholeArchive
<1>8. \A a \in DOMAIN us : IsTree(us[a].tree) /\ Whole(us[a].tree)
  BY TocParts DEF WholeArchive
<1>9. i \in DOMAIN us /\ p \in DOMAIN us[i].tree /\ j \in DOMAIN us /\ q \in DOMAIN us[j].tree
  BY DEF FileIn
<1>10. CASE i = j /\ p = q
  <2>1. PICK m : Follow(ts[i].tree[p].files, us[i].tree[p].files, m)
    BY <1>4 DEF TableFollows
  <2>2. GoesAhead(lay, ts, i, p, m[k], i, p, m[l])
    BY <1>6, <1>10, <2>1
  <2>3. ~ WalkedAhead(lay, ts[i].tree, p, p)
    BY <1>4, <1>7, WalkedAheadIs, WalkOrderStrict DEF StrictOrder
  <2>4. i \in Nat
    BY <1>4, TocParts DEF WholeArchive
  <2>5. m[k] < m[l]
    BY <2>2, <2>3, <2>4 DEF GoesAhead
  <2>6. k < l
    BY <1>2, <1>10, <2>1, <2>5 DEF Follow, FileIn, f, g
  <2> QED BY <1>10, <2>6 DEF GoesAhead
<1>11. CASE ~ (i = j /\ p = q)
  <2>1. PICK m : Follow(ts[i].tree[p].files, us[i].tree[p].files, m)
    BY <1>4 DEF TableFollows
  <2>2. PICK n : Follow(ts[j].tree[q].files, us[j].tree[q].files, n)
    BY <1>5 DEF TableFollows
  <2>3. GoesAhead(lay, ts, i, p, m[k], j, q, n[l])
    BY <1>6, <2>1, <2>2
  <2>4. CASE i < j
    BY <2>4 DEF GoesAhead
  <2>5. CASE i = j /\ WalkedAhead(lay, ts[i].tree, p, q)
    <3>1. FoldersInOrder(ts[i].tree, us[i].tree)
      BY <1>4 DEF TreeFollows
    <3>2. WalkedAhead(lay, us[i].tree, p, q)
      BY <1>4, <1>5, <1>7, <1>8, <1>9, <2>5, <3>1, WalkedAheadKept
    <3> QED BY <2>5, <3>2 DEF GoesAhead
  <2> QED BY <1>11, <2>3, <2>4, <2>5 DEF GoesAhead
<1> QED BY <1>10, <1>11

LEMMA EditsKeepEmpties ==
  ASSUME NEW lay, Sound(tocs), WholeArchive(tocs), EmptiesInOrder(lay, tocs), Edit
  PROVE  EmptiesInOrder(lay, tocs')
<1>1. WholeArchive(tocs') /\ KeptWhole(tocs, tocs')
  BY EditsKeepWhole
<1>2. \A i \in DOMAIN tocs' : FollowsAt(tocs, tocs', i)
  BY <1>1 DEF KeptWhole
<1> DEFINE ts == tocs
           us == tocs'
<1> HIDE DEF ts, us
<1>3. EmptiesInOrder(lay, us)
  BY <1>1, <1>2, EmptiesFollow DEF ts, us
<1> QED BY <1>3 DEF us

(***************************************************************************)
(* A sorted archive is as it was when its tables are sorted once more.     *)
(***************************************************************************)
LEMMA SortIsIdle ==
  ASSUME NEW E, Named(E), NEW table \in Seq(E), Sorted(table)
  PROVE  SortTable(table) = table
<1> DEFINE n == Len(table)
           K == 1 .. n
           R == NameOrder(table)
<1>1. n \in Nat /\ DOMAIN table = K /\ table = [k \in K |-> table[k]]
  OBVIOUS
<1>0. \A i \in K : table[i].name.key \in Nat
  <2>1. \A i \in K : table[i] \in E
    OBVIOUS
  <2> QED BY <2>1, KeysAssumption DEF Named, Names
<1>2. \A i, j \in K : <<i, j>> \in R <=> i < j
  <2> SUFFICES ASSUME NEW i \in K, NEW j \in K
               PROVE  <<i, j>> \in R <=> i < j
    OBVIOUS
  <2>1. table[i].name.key \in Nat /\ table[j].name.key \in Nat
    BY <1>0
  <2>2. i <= j => table[i].name.key <= table[j].name.key
    BY <1>1 DEF Sorted
  <2>3. j <= i => table[j].name.key <= table[i].name.key
    BY <1>1 DEF Sorted
  <2> QED BY <2>1, <2>2, <2>3 DEF NameOrder
<1> HIDE DEF n, R
<1>3. Cardinality(K) = n
  <2>1. n \in Nat
    BY <1>1
  <2>2. Cardinality(1 .. n) = IF 1 > n THEN 0 ELSE n - 1 + 1
    BY ONLY <2>1, FS_Interval
  <2> QED BY <2>1, <2>2
<1>4. ASSUME NEW i \in K
      PROVE  Cardinality({j \in K : <<j, i>> \in R}) = i - 1
  <2>1. {j \in K : <<j, i>> \in R} = 1 .. i - 1
    BY <1>1, <1>2
  <2>2. Cardinality(1 .. i - 1) = i - 1
    BY <1>1, FS_Interval
  <2> QED BY <2>1, <2>2
<1>5. ASSUME NEW k \in K PROVE Enumerate(K, R)[k] = k
  <2>1. Enumerate(K, R)[k] = CHOOSE i \in K : Cardinality({j \in K : <<j, i>> \in R}) = k - 1
    BY <1>3 DEF Enumerate
  <2>2. \A i \in K : Cardinality({j \in K : <<j, i>> \in R}) = k - 1 <=> i = k
    BY <1>1, <1>4
  <2> QED BY <2>1, <2>2
<1>6. SortTable(table) = [k \in K |-> table[Enumerate(K, R)[k]]]
  BY DEF SortTable, n, R
<1> QED BY <1>1, <1>5, <1>6

LEMMA SortArchiveIdle ==
  ASSUME NEW ts, Sound(ts)
  PROVE  /\ DOMAIN SortArchive(ts) = DOMAIN ts
         /\ \A i \in DOMAIN ts :
              /\ DOMAIN SortArchive(ts)[i].tree = DOMAIN ts[i].tree
              /\ \A p \in DOMAIN ts[i].tree : SortArchive(ts)[i].tree[p] = ts[i].tree[p]
<1> DEFINE s == SortArchive(ts)
<1>1. \A i \in DOMAIN ts : IsTree(ts[i].tree) /\ TreeSorted(ts[i].tree)
  BY TocParts DEF Sound, ArchiveSorted
<1>2. \A i \in DOMAIN ts : ts[i] = [alias |-> ts[i].alias, tree |-> ts[i].tree]
  BY TocParts DEF Sound
<1>3. DOMAIN s = DOMAIN ts /\ \A i \in DOMAIN ts : s[i].tree = SortTree(ts[i].tree)
  BY <1>2 DEF SortArchive
<1>4. ASSUME NEW i \in DOMAIN ts, NEW p \in DOMAIN ts[i].tree
      PROVE  SortTree(ts[i].tree)[p] = ts[i].tree[p]
  <2> DEFINE t == ts[i].tree
  <2>1. IsTree(t) /\ TreeSorted(t) /\ p \in DOMAIN t
    BY <1>1
  <2> HIDE DEF t
  <2>2. t[p].folders \in Seq(ChildEntries) /\ t[p].files \in Seq(Files)
        /\ t[p] = [folders |-> t[p].folders, files |-> t[p].files]
    BY <2>1, FolderParts
  <2>3. Sorted(t[p].folders) /\ Sorted(t[p].files)
    BY <2>1 DEF TreeSorted
  <2>4. SortTable(t[p].folders) = t[p].folders /\ SortTable(t[p].files) = t[p].files
    BY <2>2, <2>3, TablesAreNamed, SortIsIdle
  <2>5. SortTree(t)[p] = [folders |-> SortTable(t[p].folders), files |-> SortTable(t[p].files)]
    BY <2>1 DEF SortTree
  <2> QED BY <2>2, <2>4, <2>5 DEF t
<1>5. \A i \in DOMAIN ts : DOMAIN SortTree(ts[i].tree) = DOMAIN ts[i].tree
  BY DEF SortTree
<1> HIDE DEF s
<1>6. \A i \in DOMAIN ts :
        /\ DOMAIN s[i].tree = DOMAIN ts[i].tree
        /\ \A p \in DOMAIN ts[i].tree : s[i].tree[p] = ts[i].tree[p]
  BY <1>3, <1>4, <1>5
<1> QED BY <1>3, <1>6 DEF s

LEMMA AheadSame ==
  ASSUME NEW lay, NEW ts, IsArchive(ts), NEW us, DOMAIN us = DOMAIN ts,
         \A a \in DOMAIN ts :
           /\ DOMAIN us[a].tree = DOMAIN ts[a].tree
           /\ \A x \in DOMAIN ts[a].tree : us[a].tree[x].folders = ts[a].tree[x].folders,
         NEW i, NEW p, NEW k, NEW j, NEW q, NEW l, FileIn(ts, i, p, k), FileIn(ts, j, q, l),
         GoesAhead(lay, ts, i, p, k, j, q, l)
  PROVE  GoesAhead(lay, us, i, p, k, j, q, l)
<1>1. CASE i = j
  <2> DEFINE t == ts[i].tree
             u == us[i].tree
  <2>1. /\ IsTree(t) /\ DOMAIN u = DOMAIN t /\ p \in DOMAIN t /\ q \in DOMAIN t
        /\ \A x \in DOMAIN t : u[x].folders = t[x].folders
    BY <1>1, TocParts DEF FileIn
  <2> HIDE DEF t, u
  <2>2. WalkOrder(lay, u) = WalkOrder(lay, t)
    BY <2>1, WalkOrderSame
  <2>3. WalkedAhead(lay, t, p, q) => WalkedAhead(lay, u, p, q)
    BY <2>1, <2>2, WalkedAheadIs
  <2> QED BY <2>3 DEF GoesAhead, t, u
<1>2. CASE i # j
  BY <1>2 DEF GoesAhead
<1> QED BY <1>1, <1>2

LEMMA SortKeepsEmpties ==
  ASSUME NEW lay, NEW ts, Sound(ts), WholeArchive(ts), EmptiesInOrder(lay, ts)
  PROVE  EmptiesInOrder(lay, SortArchive(ts))
<1> DEFINE s == SortArchive(ts)
<1>1. /\ DOMAIN s = DOMAIN ts
      /\ \A i \in DOMAIN ts :
           /\ DOMAIN s[i].tree = DOMAIN ts[i].tree
           /\ \A p \in DOMAIN ts[i].tree : s[i].tree[p] = ts[i].tree[p]
  BY SortArchiveIdle
<1> HIDE DEF s
<1>3. \A i, p, k : FileIn(s, i, p, k) =>
        FileIn(ts, i, p, k) /\ s[i].tree[p].files[k] = ts[i].tree[p].files[k]
  BY <1>1 DEF FileIn
<1>4. ASSUME NEW i, NEW p, NEW k, NEW j, NEW q, NEW l, FileIn(s, i, p, k), FileIn(s, j, q, l),
             GoesAhead(lay, ts, i, p, k, j, q, l)
      PROVE  GoesAhead(lay, s, i, p, k, j, q, l)
  <2>1. FileIn(ts, i, p, k) /\ FileIn(ts, j, q, l)
    BY <1>3, <1>4
  <2>2. \A a \in DOMAIN ts :
          /\ DOMAIN s[a].tree = DOMAIN ts[a].tree
          /\ \A x \in DOMAIN ts[a].tree : s[a].tree[x].folders = ts[a].tree[x].folders
    BY <1>1
  <2> QED BY <1>1, <1>4, <2>1, <2>2, AheadSame DEF WholeArchive
<1>5. ASSUME NEW i, NEW p, NEW k, NEW j, NEW q, NEW l, FileIn(s, i, p, k), FileIn(s, j, q, l),
             EmptyAhead(s[i].tree[p].files[k], s[j].tree[q].files[l])
      PROVE  GoesAhead(lay, s, i, p, k, j, q, l)
  <2>1. GoesAhead(lay, ts, i, p, k, j, q, l)
    BY <1>3, <1>5, EmptiesAre
  <2> QED BY <1>4, <1>5, <2>1
<1>6. EmptiesInOrder(lay, s)
  BY <1>5, EmptiesAre
<1> QED BY <1>6 DEF s

(***************************************************************************)
(* Of the files write lays out, one with a lesser index is walked first.   *)
(***************************************************************************)
LEMMA FileSlot ==
  ASSUME NEW ts, WholeArchive(ts), NEW lay, NEW x, NEW w, NEW k, IsFileOf(Visits(lay, ts), ts, x, w, k)
  PROVE  LET v == Visits(lay, ts)[w]
         IN  /\ FileIn(ts, v.toc, v.path, k)
             /\ x \in 1 .. Len(FilesOf(Visits(lay, ts), ts))
             /\ FilesOf(Visits(lay, ts), ts)[x] = ts[v.toc].tree[v.path].files[k]
<1> DEFINE visits == Visits(lay, ts)
           v == visits[w]
           table == ts[v.toc].tree[v.path].files
<1>1. IsArchive(ts) /\ Visited(ts, visits) /\ PlacedFiles(visits, ts)
  BY VisitsAre, FilesArePlaced DEF WholeArchive
<1>2. w \in 1 .. Len(visits) /\ k \in 1 .. Len(table)
  BY DEF IsFileOf, FolderAt
<1>3. v \in VisitsOf(ts)
  <2> DEFINE S == VisitsOf(ts)
  <2>1. visits \in Seq(S)
    BY <1>1 DEF Visited
  <2> HIDE DEF S, visits
  <2>2. visits[w] \in S
    BY <1>2, <2>1
  <2> QED BY <2>2 DEF S
<1>4. /\ x \in 1 .. Len(FilesOf(visits, ts))
      /\ FilesOf(visits, ts)[x] = table[k]
  <2>1. IsFileOf(visits, ts, x, w, k)
    OBVIOUS
  <2> HIDE DEF table, v, visits
  <2>2. /\ x \in 1 .. Len(FilesOf(visits, ts))
        /\ SlotTable(visits, ts)[x] = [toc |-> visits[w].toc, path |-> visits[w].path, file |-> k]
        /\ FilesOf(visits, ts)[x] = FolderAt(ts, visits[w]).files[k]
    BY <1>1, <2>1 DEF PlacedFiles
  <2> QED BY <2>2 DEF FolderAt, table, v
<1>5. v.toc \in DOMAIN ts /\ v.path \in DOMAIN ts[v.toc].tree
  BY <1>3, VisitIn
<1>6. table \in Seq(Files)
  BY <1>1, <1>5, TocParts, FolderParts
<1> HIDE DEF table, v, visits
<1>7. k \in DOMAIN table
  BY <1>2, <1>6
<1>8. FileIn(ts, v.toc, v.path, k)
  BY <1>5, <1>7 DEF FileIn, table
<1> QED BY <1>4, <1>8 DEF table, v, visits

LEMMA SlotIndexed ==
  ASSUME NEW ts, WholeArchive(ts), NEW lay, NEW i, NEW p, NEW k, FileIn(ts, i, p, k)
  PROVE  \E x, w : /\ IsFileOf(Visits(lay, ts), ts, x, w, k)
                   /\ Visits(lay, ts)[w] = [toc |-> i, path |-> p]
<1> DEFINE visits == Visits(lay, ts)
           visit == [toc |-> i, path |-> p]
           table == ts[i].tree[p].files
<1>1. IsArchive(ts) /\ Visited(ts, visits)
  BY VisitsAre DEF WholeArchive
<1>2. visit \in VisitsOf(ts)
  BY VisitIn DEF FileIn
<1>3. PICK w \in 1 .. Len(visits) : visits[w] = visit
  BY <1>1, <1>2 DEF Visited
<1>4. table \in Seq(Files) /\ k \in DOMAIN table
  BY <1>1, TocParts, FolderParts DEF FileIn
<1> HIDE DEF table, visits
<1>5. k \in 1 .. Len(table)
  BY <1>4
<1>6. IsFileOf(visits, ts, Before(visits, ts, w) + k, w, k)
  BY <1>3, <1>5 DEF IsFileOf, FolderAt, table
<1> QED BY <1>3, <1>6 DEF visits

LEMMA IndicesWalked ==
  ASSUME NEW ts, WholeArchive(ts), NEW lay,
         NEW x, NEW w, NEW k, IsFileOf(Visits(lay, ts), ts, x, w, k),
         NEW y, NEW v, NEW l, IsFileOf(Visits(lay, ts), ts, y, v, l), x < y
  PROVE  GoesAhead(lay, ts, Visits(lay, ts)[w].toc, Visits(lay, ts)[w].path, k,
                            Visits(lay, ts)[v].toc, Visits(lay, ts)[v].path, l)
<1> DEFINE visits == Visits(lay, ts)
           a == visits[w]
           b == visits[v]
           N == Len(visits)
           c == SlotsOfVisits(visits, ts)
<1>1. IsArchive(ts) /\ Visited(ts, visits) /\ PlacedFiles(visits, ts) /\ N \in Nat
  BY VisitsAre, FilesArePlaced DEF WholeArchive, Visited
<1>2. w \in 1 .. N /\ k \in 1 .. Len(FolderAt(ts, a).files) /\ x = Before(visits, ts, w) + k
  BY DEF IsFileOf
<1>3. v \in 1 .. N /\ l \in 1 .. Len(FolderAt(ts, b).files) /\ y = Before(visits, ts, v) + l
  BY DEF IsFileOf
<1>4. FileIn(ts, a.toc, a.path, k) /\ FileIn(ts, b.toc, b.path, l)
  BY FileSlot
<1>5. Len(FolderAt(ts, a).files) \in Nat /\ Len(FolderAt(ts, b).files) \in Nat
  <2>1. ts[a.toc].tree[a.path].files \in Seq(Files) /\ ts[b.toc].tree[b.path].files \in Seq(Files)
    BY <1>1, <1>4, TocParts, FolderParts DEF FileIn
  <2> QED BY <2>1, LenProperties DEF FolderAt
<1>6. CASE w = v
  <2>1. k < l
    <3>1. Before(visits, ts, w) \in Nat
      BY <1>1, <1>2 DEF PlacedFiles
    <3> HIDE DEF a, b, visits
    <3>2. k \in Nat /\ l \in Nat
      BY <1>2, <1>3, <1>5
    <3> QED BY <1>2, <1>3, <1>6, <3>1, <3>2
  <2> QED BY <1>6, <2>1 DEF GoesAhead
<1>7. CASE w < v
  <2>1. WalkedBefore(lay, ts, a, b)
    BY <1>2, <1>3, <1>7, VisitsInOrder
  <2> HIDE DEF a, b, visits
  <2>2. a.toc = b.toc => a.path \in DOMAIN ts[a.toc].tree /\ b.path \in DOMAIN ts[a.toc].tree
    BY <1>4 DEF FileIn
  <2>3. GoesAhead(lay, ts, a.toc, a.path, k, b.toc, b.path, l)
    BY <2>1, <2>2, WalkedAheadIs DEF WalkedBefore, GoesAhead
  <2> QED BY <2>3 DEF a, b, visits
<1>8. CASE v < w
  <2>1. /\ Before(visits, ts, v) \in Nat /\ Before(visits, ts, w) \in Nat
        /\ Upto(c, v) = Before(visits, ts, v) + Len(FolderAt(ts, b).files)
    BY <1>1, <1>2, <1>3 DEF PlacedFiles
  <2>2. Upto(c, v) <= Upto(c, w - 1)
    <3>1. TablesTyped(visits, ts)
      BY <1>1, TablesAre DEF Visited
    <3>2. c \in Seq(Seq(SlotsIn(ts))) /\ Len(c) = N
      BY <3>1 DEF TablesTyped
    <3>3. Ordered(c)
      <4> HIDE DEF c
      <4> QED BY <3>2, CountersOrdered
    <3> HIDE DEF c, visits, a, b
    <3>4. v \in 0 .. Len(c) /\ w - 1 \in 0 .. Len(c) /\ v <= w - 1
      BY <1>1, <1>2, <1>3, <1>8, <3>2
    <3> QED BY <3>3, <3>4 DEF Ordered
  <2>3. Upto(c, w - 1) = Before(visits, ts, w)
    BY DEF Before
  <2> HIDE DEF c, visits, a, b
  <2>4. k \in Nat /\ l <= Len(FolderAt(ts, b).files) /\ l \in Nat
    BY <1>2, <1>3, <1>5
  <2>5. Upto(c, v) <= Before(visits, ts, w)
    BY <2>2, <2>3
  <2>6. Before(visits, ts, v) + l <= Before(visits, ts, w) + k
    BY <1>5, <2>1, <2>4, <2>5
  <2> QED BY <1>2, <1>3, <2>1, <2>4, <2>6
<1> HIDE DEF visits
<1> QED BY <1>1, <1>2, <1>3, <1>6, <1>7, <1>8

LEMMA AheadOneWay ==
  ASSUME NEW ts, WholeArchive(ts), NEW lay, NEW i, NEW p, NEW k, NEW j, NEW q, NEW l,
         FileIn(ts, i, p, k), FileIn(ts, j, q, l),
         GoesAhead(lay, ts, i, p, k, j, q, l), GoesAhead(lay, ts, j, q, l, i, p, k)
  PROVE  FALSE
<1>1. i \in Nat /\ j \in Nat /\ IsTree(ts[i].tree) /\ p \in DOMAIN ts[i].tree /\ q \in DOMAIN ts[j].tree
  <2>1. IsArchive(ts) /\ i \in DOMAIN ts /\ j \in DOMAIN ts
    BY DEF WholeArchive, FileIn
  <2>2. i \in 1 .. Len(ts) /\ j \in 1 .. Len(ts) /\ Len(ts) \in Nat /\ IsTree(ts[i].tree)
    BY <2>1, TocParts
  <2>3. i \in Nat /\ j \in Nat
    BY <2>2
  <2> QED BY <2>2, <2>3 DEF FileIn
<1>2. i = j
  BY <1>1 DEF GoesAhead
<1>3. ~ (WalkedAhead(lay, ts[i].tree, p, q) /\ WalkedAhead(lay, ts[i].tree, q, p))
  <2> DEFINE t == ts[i].tree
             R == WalkOrder(lay, t)
  <2>1. StrictOrder(DOMAIN t, R) /\ p \in DOMAIN t /\ q \in DOMAIN t
    BY <1>1, <1>2, WalkOrderStrict
  <2>2. /\ WalkedAhead(lay, t, p, q) <=> <<p, q>> \in R
        /\ WalkedAhead(lay, t, q, p) <=> <<q, p>> \in R
    BY <2>1, WalkedAheadIs
  <2> HIDE DEF t, R
  <2>3. ~ (<<p, q>> \in R /\ <<q, p>> \in R)
    BY <2>1 DEF StrictOrder
  <2> QED BY <2>2, <2>3 DEF t
<1>4. ~ WalkedAhead(lay, ts[i].tree, p, p)
  BY <1>1, WalkedAheadIs, WalkOrderStrict DEF StrictOrder
<1>5. k \in Nat /\ l \in Nat
  <2>1. /\ ts[i].tree[p].files \in Seq(Files) /\ k \in DOMAIN ts[i].tree[p].files
        /\ ts[j].tree[q].files \in Seq(Files) /\ l \in DOMAIN ts[j].tree[q].files
    BY <1>1, <1>2, FolderParts DEF FileIn
  <2> QED BY <2>1
<1>6. CASE p = q
  BY <1>1, <1>2, <1>4, <1>5, <1>6 DEF GoesAhead
<1>7. CASE p # q
  BY <1>1, <1>2, <1>3, <1>7 DEF GoesAhead
<1> QED BY <1>6, <1>7

LEMMA EmptiesAreAhead ==
  ASSUME NEW ts, WholeArchive(ts), NEW lay, EmptiesInOrder(lay, ts)
  PROVE  EmptiesLead(FilesOf(Visits(lay, ts), ts))
<1> DEFINE visits == Visits(lay, ts)
           files == FilesOf(visits, ts)
<1>1. PlacedFiles(visits, ts)
  BY VisitsAre, FilesArePlaced DEF WholeArchive
<1>2. DOMAIN files = 1 .. Len(files) /\ Len(files) \in Nat /\ \A x \in 1 .. Len(files) : files[x] \in Files
  <2>1. files \in Seq(Files)
    BY <1>1 DEF PlacedFiles
  <2> HIDE DEF files
  <2> QED BY <2>1
<1>3. ASSUME \A x \in DOMAIN files : files[x].order # NoOrder,
             NEW x \in DOMAIN files, NEW y \in DOMAIN files,
             Length[files[x].data] = 0, files[x].order < files[y].order, ~ (x < y)
      PROVE  FALSE
  <2>1. PICK w, k : IsFileOf(visits, ts, x, w, k)
    BY <1>1, <1>2, <1>3 DEF PlacedFiles
  <2>2. PICK v, l : IsFileOf(visits, ts, y, v, l)
    BY <1>1, <1>2, <1>3 DEF PlacedFiles
  <2> DEFINE a == visits[w]
             b == visits[v]
  <2>3. FileIn(ts, a.toc, a.path, k) /\ files[x] = ts[a.toc].tree[a.path].files[k]
    BY <2>1, FileSlot
  <2>4. FileIn(ts, b.toc, b.path, l) /\ files[y] = ts[b.toc].tree[b.path].files[l]
    BY <2>2, FileSlot
  <2>5. GoesAhead(lay, ts, a.toc, a.path, k, b.toc, b.path, l)
    <3> HIDE DEF a, b, files
    <3>1. EmptyAhead(ts[a.toc].tree[a.path].files[k], ts[b.toc].tree[b.path].files[l])
      BY <1>3, <2>3, <2>4 DEF EmptyAhead
    <3> QED BY <2>3, <2>4, <3>1, EmptiesAre
  <2>6. y < x
    <3> HIDE DEF files
    <3>1. files[x].order \in Nat /\ files[y].order \in Nat
      BY <1>2, <1>3 DEF Files, NoOrder
    <3>2. x \in Nat /\ y \in Nat /\ x # y
      BY <1>2, <1>3, <3>1
    <3> QED BY <1>3, <3>2
  <2>7. GoesAhead(lay, ts, b.toc, b.path, l, a.toc, a.path, k)
    BY <2>1, <2>2, <2>6, IndicesWalked
  <2> HIDE DEF a, b, visits, files
  <2> QED BY <2>3, <2>4, <2>5, <2>7, AheadOneWay
<1> HIDE DEF files
<1>4. EmptiesLead(files)
  BY <1>3 DEF EmptiesLead
<1> QED BY <1>4 DEF files

(***************************************************************************)
(* An archive read from a file that write laid out writes that file again. *)
(***************************************************************************)
LEMMA ReadPlaces ==
  ASSUME NEW file, NEW sizes, NEW l, NEW v, NEW ts, WrittenFile(file, sizes, l, v, ts), v >= 10
  PROVE  LET us == LoadTocs(file)
             files == FilesOf(Visits(l, ts), ts)
             gs == FilesOf(Visits(l, ts), us)
         IN  /\ WholeArchive(ts) /\ WholeArchive(us) /\ Reordered(ts, us)
             /\ files \in Seq(Files) /\ DOMAIN gs = 1 .. Len(files)
             /\ \A x \in 1 .. Len(files) :
                  /\ gs[x].order \in Nat /\ gs[x].order = PlaceOf(files, x)
                  /\ gs[x].data = files[x].data
<1> DEFINE visits == Visits(l, ts)
           us == LoadTocs(file)
           files == FilesOf(visits, ts)
           gs == FilesOf(visits, us)
           slots == SlotTable(visits, ts)
<1>1. /\ WrittenOf(file, ts, visits) /\ v \in Nat /\ file.version = v
      /\ ImageParts(file, l, v, ts, visits, slots, files)
  BY WrittenIs
<1>2. WholeArchive(ts)
  BY DEF WrittenFile
<1>3. WholeArchive(us)
  <2>1. FileWritten(file)
    BY DEF FileWritten
  <2> QED BY <2>1, WrittenRereads
<1>4. Reordered(ts, us) /\ \A x \in 1 .. Len(files) : FileReordered(file, ts, us, visits, x)
  BY <1>1, ReadReorders
<1>5. files \in Seq(Files)
  BY <1>2, VisitsAre, FilesArePlaced DEF PlacedFiles, WholeArchive
<1>6. DOMAIN files = 1 .. Len(files) /\ \A x \in 1 .. Len(files) : files[x] \in Files
  <2> HIDE DEF files
  <2> QED BY <1>5
<1>7. DOMAIN gs = DOMAIN files
  <2> HIDE DEF us
  <2> QED BY <1>2, <1>4, ReorderedTables
<1> HIDE DEF us, gs, files, slots, visits
<1>8. \A x \in 1 .. Len(files) : file.files[x].data = PlaceOf(files, x)
  BY <1>1 DEF ImageParts, FileEntryOf, FileEntry, PlaceOf
<1>9. ASSUME NEW x \in 1 .. Len(files)
      PROVE  /\ gs[x].order \in Nat /\ gs[x].order = PlaceOf(files, x)
             /\ gs[x].data = files[x].data
  <2>1. gs[x] = [files[x] EXCEPT !.order = file.files[x].data] /\ file.files[x].data \in Nat
    BY <1>4 DEF FileReordered, gs, files
  <2>2. files[x] \in Files
    BY <1>6
  <2> QED BY <1>8, <2>1, <2>2 DEF Files
<1> QED BY <1>2, <1>3, <1>4, <1>5, <1>6, <1>7, <1>9 DEF us, gs, files, visits

LEMMA ReadWritesAgain ==
  ASSUME NEW file, NEW sizes, NEW l, NEW v, NEW ts, WrittenFile(file, sizes, l, v, ts), v >= 10,
         EmptiesInOrder(l, ts)
  PROVE  ImageBy(sizes, l, v, LoadTocs(file)) = file
<1> DEFINE visits == Visits(l, ts)
           us == LoadTocs(file)
           files == FilesOf(visits, ts)
           gs == FilesOf(visits, us)
<1>1. /\ WholeArchive(ts) /\ WholeArchive(us) /\ Reordered(ts, us)
      /\ files \in Seq(Files) /\ DOMAIN gs = 1 .. Len(files)
      /\ \A x \in 1 .. Len(files) : gs[x].order = PlaceOf(files, x)
  BY ReadPlaces
<1>2. EmptiesLead(files)
  BY <1>1, EmptiesAreAhead
<1>3. Placing(gs) = Placing(files)
  <2> HIDE DEF files, gs
  <2> QED BY <1>1, <1>2, PlacesTell
<1> HIDE DEF us
<1>4. Visits(l, us) = visits
  BY <1>1, ReorderedVisits DEF WholeArchive
<1>5. ImageBy(sizes, l, v, us) = ImageBy(sizes, l, v, ts)
  BY <1>1, <1>3, <1>4, ReorderedImage
<1> QED BY <1>5 DEF WrittenFile, us

LEMMA ReorderedSlot ==
  ASSUME NEW ts, WholeArchive(ts), NEW us, WholeArchive(us), Reordered(ts, us), NEW lay,
         NEW x, NEW w, NEW k, IsFileOf(Visits(lay, ts), us, x, w, k)
  PROVE  IsFileOf(Visits(lay, ts), ts, x, w, k)
<1> DEFINE visits == Visits(lay, ts)
<1>1. IsArchive(ts) /\ IsArchive(us) /\ Visited(ts, visits) /\ Visits(lay, us) = visits
  BY VisitsAre, ReorderedVisits DEF WholeArchive
<1>2. SlotsOfVisits(visits, us) = SlotsOfVisits(visits, ts)
  BY ReorderedTables
<1>3. w \in 1 .. Len(visits) /\ k \in 1 .. Len(FolderAt(us, visits[w]).files)
      /\ x = Before(visits, us, w) + k
  BY DEF IsFileOf
<1>4. visits[w] \in VisitsOf(ts) /\ visits[w] \in VisitsOf(us)
  <2> DEFINE S == VisitsOf(ts)
             Z == VisitsOf(us)
  <2>1. visits \in Seq(S) /\ visits \in Seq(Z)
    BY <1>1, VisitsAre DEF Visited
  <2> HIDE DEF S, Z, visits
  <2>2. visits[w] \in S /\ visits[w] \in Z
    BY <1>3, <2>1
  <2> QED BY <2>2 DEF S, Z
<1> HIDE DEF visits
<1>5. Len(FolderAt(us, visits[w]).files) = Len(FolderAt(ts, visits[w]).files)
  <2> DEFINE a == FolderAt(ts, visits[w]).files
             b == FolderAt(us, visits[w]).files
  <2>1. a \in Seq(Files) /\ b \in Seq(Files) /\ DOMAIN b = DOMAIN a
    BY <1>1, <1>4, VisitParts, ReorderedFolder
  <2> HIDE DEF a, b
  <2>2. Len(a) \in Nat /\ Len(b) \in Nat /\ 1 .. Len(a) = 1 .. Len(b)
    BY <2>1
  <2>3. Len(a) = Len(b)
    BY <2>2
  <2> QED BY <2>3 DEF a, b
<1>6. IsFileOf(visits, ts, x, w, k)
  BY <1>2, <1>3, <1>5 DEF IsFileOf, Before
<1> QED BY <1>6 DEF visits

LEMMA ReadKeepsEmpties ==
  ASSUME NEW file, NEW sizes, NEW l, NEW v, NEW ts, WrittenFile(file, sizes, l, v, ts), v >= 10,
         EmptiesInOrder(l, ts)
  PROVE  EmptiesInOrder(l, LoadTocs(file))
<1> DEFINE visits == Visits(l, ts)
           us == LoadTocs(file)
           files == FilesOf(visits, ts)
           gs == FilesOf(visits, us)
           K == 1 .. Len(files)
<1>1. /\ WholeArchive(ts) /\ WholeArchive(us) /\ Reordered(ts, us)
      /\ files \in Seq(Files) /\ DOMAIN gs = K
      /\ \A x \in K : /\ gs[x].order \in Nat /\ gs[x].order = PlaceOf(files, x)
                      /\ gs[x].data = files[x].data
  BY ReadPlaces
<1>2. DOMAIN files = K /\ \A x \in K : files[x] \in Files /\ x \in Nat
  <2> HIDE DEF files
  <2> QED BY <1>1
<1>3. ASSUME NEW x \in K, NEW y \in K, gs[x].order < gs[y].order, Length[gs[x].data] = 0
      PROVE  x < y \/ EmptyAhead(files[x], files[y])
  <2>1. StrictOrder(K, Placing(files))
    <3> HIDE DEF files
    <3> QED BY <1>1, PlacingStrict
  <2>2. x # y /\ <<y, x>> \notin Placing(files)
    <3>1. <<y, x>> \in Placing(files) => /\ gs[x].order \in Nat /\ gs[y].order \in Nat
                                         /\ gs[y].order <= gs[x].order
      <4> HIDE DEF files, gs
      <4> QED BY <1>1, PlacesFollow
    <3>2. x = y => <<y, x>> \notin Placing(files)
      BY <2>1 DEF StrictOrder
    <3>3. x # y => <<x, y>> \in Placing(files) \/ <<y, x>> \in Placing(files)
      BY <2>1 DEF StrictOrder
    <3>4. x # y
      <4> SUFFICES ASSUME x = y PROVE FALSE
        OBVIOUS
      <4>1. gs[x].order < gs[x].order /\ gs[x].order \in Nat
        BY <1>1, <1>3
      <4> HIDE DEF gs
      <4> QED BY <4>1
    <3> HIDE DEF files, gs
    <3> QED BY <1>3, <3>1, <3>4
  <2>3. <<x, y>> \in Placing(files)
    BY <2>1, <2>2 DEF StrictOrder
  <2>4. IF (\A k \in DOMAIN files : files[k].order # NoOrder) /\ files[x].order # files[y].order
        THEN files[x].order < files[y].order
        ELSE x < y
    BY <2>3 DEF Placing
  <2> HIDE DEF files, gs
  <2> QED BY <1>1, <1>2, <1>3, <2>4 DEF EmptyAhead
<1>4. IsArchive(ts) /\ IsArchive(us) /\ Visits(l, us) = visits
  <2> HIDE DEF us
  <2> QED BY <1>1, ReorderedVisits DEF WholeArchive
<1>5. ASSUME NEW i, NEW p, NEW k, NEW j, NEW q, NEW m, FileIn(us, i, p, k), FileIn(us, j, q, m),
             EmptyAhead(us[i].tree[p].files[k], us[j].tree[q].files[m])
      PROVE  GoesAhead(l, us, i, p, k, j, q, m)
  <2> DEFINE a == [toc |-> i, path |-> p]
             b == [toc |-> j, path |-> q]
  <2>1. PICK x, w : IsFileOf(visits, us, x, w, k) /\ visits[w] = a
    BY <1>1, <1>4, <1>5, SlotIndexed
  <2>2. PICK y, n : IsFileOf(visits, us, y, n, m) /\ visits[n] = b
    BY <1>1, <1>4, <1>5, SlotIndexed
  <2>3. x \in 1 .. Len(gs) /\ gs[x] = us[i].tree[p].files[k]
    BY <1>1, <1>4, <2>1, FileSlot
  <2>4. y \in 1 .. Len(gs) /\ gs[y] = us[j].tree[q].files[m]
    BY <1>1, <1>4, <2>2, FileSlot
  <2>5. x \in K /\ y \in K
    <3>1. gs \in Seq(Files)
      BY <1>1, <1>4, VisitsAre, FilesArePlaced DEF PlacedFiles
    <3> HIDE DEF gs, files
    <3> QED BY <1>1, <2>3, <2>4, <3>1
  <2>6. gs[x].order < gs[y].order /\ Length[gs[x].data] = 0
    <3> HIDE DEF gs
    <3> QED BY <1>5, <2>3, <2>4 DEF EmptyAhead
  <2>7. x < y \/ EmptyAhead(files[x], files[y])
    BY <1>3, <2>5, <2>6
  <2>8. CASE x < y
    <3>1. GoesAhead(l, us, visits[w].toc, visits[w].path, k, visits[n].toc, visits[n].path, m)
      <4> HIDE DEF us
      <4> QED BY <1>1, <1>4, <2>1, <2>2, <2>8, IndicesWalked
    <3> HIDE DEF visits, us
    <3> QED BY <2>1, <2>2, <3>1
  <2>9. CASE EmptyAhead(files[x], files[y])
    <3>1. IsFileOf(visits, ts, x, w, k) /\ IsFileOf(visits, ts, y, n, m)
      BY <1>1, <1>4, <2>1, <2>2, ReorderedSlot
    <3>2. FileIn(ts, i, p, k) /\ files[x] = ts[i].tree[p].files[k]
      BY <1>1, <2>1, <3>1, FileSlot
    <3>3. FileIn(ts, j, q, m) /\ files[y] = ts[j].tree[q].files[m]
      BY <1>1, <2>2, <3>1, FileSlot
    <3> HIDE DEF files, us, visits
    <3>4. GoesAhead(l, ts, i, p, k, j, q, m)
      BY <2>9, <3>2, <3>3, EmptiesAre
    <3>5. /\ DOMAIN us = DOMAIN ts
          /\ \A c \in DOMAIN ts :
               /\ DOMAIN us[c].tree = DOMAIN ts[c].tree
               /\ \A z \in DOMAIN ts[c].tree : us[c].tree[z].folders = ts[c].tree[z].folders
      BY <1>1 DEF Reordered
    <3> QED BY <1>4, <3>2, <3>3, <3>4, <3>5, AheadSame
  <2> QED BY <2>7, <2>8, <2>9
<1> HIDE DEF us
<1>6. EmptiesInOrder(l, us)
  BY <1>5, EmptiesAre
<1> QED BY <1>6 DEF us

\* Where the layout of a file is taken for the other one, both are right.
LEMMA DetectedLayout ==
  ASSUME NEW file, NEW sizes, NEW l, NEW v, NEW ts, WrittenFile(file, sizes, l, v, ts), v >= 10
  PROVE  DetectLayout(file) = l \/ SameStrings(LoadTocs(file))
<1> DEFINE us == LoadTocs(file)
<1>1. WholeArchive(ts) /\ Reordered(ts, us)
  BY ReadPlaces
<1>2. file.strings = Strings(l, ts) /\ l \in Layouts
  <2> DEFINE visits == Visits(l, ts)
             slots == SlotTable(visits, ts)
             files == FilesOf(visits, ts)
  <2>1. ImageParts(file, l, v, ts, visits, slots, files) /\ l \in Layouts
    BY WrittenIs
  <2> HIDE DEF slots, files, visits
  <2> QED BY <2>1 DEF ImageParts
<1> HIDE DEF us
<1>3. Strings(l, us) = file.strings
  BY <1>1, <1>2, ReorderedStrings
<1>4. CASE l = "Legacy"
  BY <1>3, <1>4 DEF DetectLayout, us
<1>5. CASE l = "Modern"
  <2>1. CASE Strings("Legacy", us) = file.strings
    BY <1>3, <1>5, <2>1 DEF SameStrings, us
  <2>2. CASE Strings("Legacy", us) # file.strings
    BY <1>3, <1>5, <2>2 DEF DetectLayout, us
  <2> QED BY <2>1, <2>2
<1> QED BY <1>2, <1>4, <1>5 DEF Layouts

LEMMA EmptiesInEither ==
  ASSUME NEW ts, WholeArchive(ts), SameStrings(ts), NEW l \in Layouts, EmptiesInOrder(l, ts), NEW lay \in Layouts
  PROVE  EmptiesInOrder(lay, ts)
<1>1. \A i \in DOMAIN ts : WalkOrder(lay, ts[i].tree) = WalkOrder(l, ts[i].tree)
  <2>1. \A i \in DOMAIN ts : WalkOrder("Modern", ts[i].tree) = WalkOrder("Legacy", ts[i].tree)
    BY WalksAgree
  <2>2. lay \in {"Legacy", "Modern"} /\ l \in {"Legacy", "Modern"}
    BY DEF Layouts
  <2> QED BY <2>1, <2>2
<1>2. ASSUME NEW i, NEW p, NEW k, NEW j, NEW q, NEW m, FileIn(ts, i, p, k), FileIn(ts, j, q, m),
             EmptyAhead(ts[i].tree[p].files[k], ts[j].tree[q].files[m])
      PROVE  GoesAhead(lay, ts, i, p, k, j, q, m)
  <2>1. GoesAhead(l, ts, i, p, k, j, q, m)
    BY <1>2, EmptiesAre
  <2>2. i = j => p \in DOMAIN ts[i].tree /\ q \in DOMAIN ts[i].tree
    BY <1>2 DEF FileIn
  <2>3. i = j /\ WalkedAhead(l, ts[i].tree, p, q) => WalkedAhead(lay, ts[i].tree, p, q)
    BY <1>1, <1>2, <2>2, WalkedAheadIs DEF FileIn
  <2> QED BY <2>1, <2>3 DEF GoesAhead
<1> QED BY <1>2, EmptiesAre

LEMMA RoundTrip ==
  ASSUME NEW file, NEW sizes, NEW l, NEW v, NEW ts, WrittenFile(file, sizes, l, v, ts), v >= 10,
         EmptiesInOrder(l, ts)
  PROVE  /\ ImageBy(sizes, DetectLayout(file), v, LoadTocs(file)) = file
         /\ EmptiesInOrder(DetectLayout(file), LoadTocs(file))
<1> DEFINE us == LoadTocs(file)
           lay == DetectLayout(file)
<1>1. ImageBy(sizes, l, v, us) = file /\ EmptiesInOrder(l, us) /\ WholeArchive(us)
  BY ReadWritesAgain, ReadKeepsEmpties, ReadPlaces
<1>2. lay = l \/ SameStrings(us)
  BY DetectedLayout
<1>3. l \in Layouts /\ lay \in Layouts
  BY DEF WrittenFile, DetectLayout, Layouts
<1> HIDE DEF us, lay
<1>4. CASE lay = l
  BY <1>1, <1>4 DEF us, lay
<1>5. CASE SameStrings(us)
  <2>1. ImageBy(sizes, "Modern", v, us) = ImageBy(sizes, "Legacy", v, us)
    BY <1>1, <1>5, LayoutsAgree
  <2>2. lay \in {"Legacy", "Modern"} /\ l \in {"Legacy", "Modern"}
    BY <1>3 DEF Layouts
  <2>3. ImageBy(sizes, lay, v, us) = ImageBy(sizes, l, v, us)
    BY <2>1, <2>2
  <2>4. EmptiesInOrder(lay, us)
    BY <1>1, <1>3, <1>5, EmptiesInEither
  <2> QED BY <1>1, <2>3, <2>4 DEF us, lay
<1> QED BY <1>2, <1>4, <1>5

(***************************************************************************)
(* The inductive invariant of the round trip: whatever a session has in    *)
(* memory or on disk, no empty member is walked behind one it is placed    *)
(* ahead of.                                                               *)
(***************************************************************************)
FileInOrder(file) ==
  \E l, v, ts : /\ WrittenFile(file, WrittenSizes, l, v, ts) /\ v \in {10, 11}
                /\ EmptiesInOrder(l, ts)

RoundTripSound == SessionSound /\ EmptiesInOrder(layout, tocs) /\ FileInOrder(disk)

LEMMA RoundTripStarts ==
  ASSUME BasesWhole, EmptiesPacked, Versions \subseteq {10, 11}, SessionInit
  PROVE  RoundTripSound
<1>1. SessionSound
  BY SessionStarts
<1>2. PICK b \in Bases, l \in Layouts, v \in Versions : disk = Packed(l, v, b)
  BY DEF SessionInit
<1>3. Sound(b) /\ WholeArchive(b) /\ EmptiesInOrder(l, b) /\ v \in {10, 11}
  BY BasesAssumption DEF BasesWhole, Sound, ArchiveSorted, EmptiesPacked
<1>4. WrittenFile(disk, WrittenSizes, l, v, b)
  BY <1>2, <1>3, RecordSizesAgree DEF WrittenFile, Packed, SessionVersions
<1>5. FileInOrder(disk)
  BY <1>3, <1>4 DEF FileInOrder
<1>6. EmptiesInOrder(layout, tocs)
  BY DEF SessionInit, EmptiesInOrder
<1> QED BY <1>1, <1>5, <1>6 DEF RoundTripSound

LEMMA RoundTripKeeps ==
  ASSUME Versions \subseteq {10, 11}, RoundTripSound, SessionNext
  PROVE  RoundTripSound'
<1>0. /\ SessionSound /\ Sound(tocs) /\ WholeArchive(tocs) /\ layout \in Layouts /\ version \in {10, 11}
      /\ version \in SessionVersions /\ EmptiesInOrder(layout, tocs) /\ FileInOrder(disk)
  BY DEF RoundTripSound, SessionSound, SessionVersions, FreshVersion
<1>1. SessionSound'
  BY <1>0, SessionKeeps
<1>2. CASE Open
  <2>1. tocs' = LoadTocs(disk) /\ layout' = DetectLayout(disk) /\ disk' = disk
    BY <1>2 DEF Open
  <2>2. PICK l, v, ts : /\ WrittenFile(disk, WrittenSizes, l, v, ts) /\ v \in {10, 11}
                        /\ EmptiesInOrder(l, ts)
    BY <1>0 DEF FileInOrder
  <2>3. EmptiesInOrder(DetectLayout(disk), LoadTocs(disk))
    BY <2>2, RoundTrip
  <2> QED BY <1>0, <1>1, <2>1, <2>3 DEF RoundTripSound, FileInOrder
<1>3. CASE Edit
  <2>1. EmptiesInOrder(layout, tocs')
    BY <1>0, <1>3, EditsKeepEmpties
  <2>2. layout' = layout /\ disk' = disk
    BY <1>3 DEF Edit
  <2> QED BY <1>0, <1>1, <2>1, <2>2 DEF RoundTripSound, FileInOrder
<1>4. CASE WriteEager
  <2> DEFINE s == SortArchive(tocs)
  <2>1. disk' = ImageBy(WrittenSizes, layout, version, s) /\ tocs' = <<>>
    BY <1>4 DEF WriteEager, Image
  <2>2. Sound(s) /\ WholeArchive(s) /\ EmptiesInOrder(layout, s)
    BY <1>0, SortedWhole, SortKeepsEmpties
  <2> HIDE DEF s
  <2>3. WrittenFile(disk', WrittenSizes, layout, version, s)
    BY <1>0, <2>1, <2>2 DEF WrittenFile
  <2>4. FileInOrder(disk')
    BY <1>0, <2>2, <2>3 DEF FileInOrder
  <2>5. EmptiesInOrder(layout', tocs')
    BY <2>1 DEF EmptiesInOrder
  <2> QED BY <1>1, <2>4, <2>5 DEF RoundTripSound
<1> QED BY <1>2, <1>3, <1>4 DEF SessionNext

\* Reading a file and writing it again gives the same file, byte for byte,
\* whichever tool wrote it and whatever was edited in between: the order of the
\* bytes is that of the offsets read, and the traversal is the one the strings
\* tell (Archive::read, detect_layout, Archive::write).  It supposes that the
\* first file has its empty members in the order they are walked in; without
\* that the run empty_art shows a file that is not reproduced.
THEOREM RoundTripsAreExact ==
  ASSUME BasesWhole, EmptiesPacked, Versions \subseteq {10, 11}
  PROVE  SessionSpec => []RoundTripExact
<1>1. SessionInit => RoundTripSound
  BY RoundTripStarts
<1>2. RoundTripSound /\ [SessionNext]_vars => RoundTripSound'
  <2> SUFFICES ASSUME RoundTripSound, [SessionNext]_vars PROVE RoundTripSound'
    OBVIOUS
  <2>1. CASE SessionNext
    BY <2>1, RoundTripKeeps
  <2>2. CASE UNCHANGED vars
    BY <2>2 DEF vars, RoundTripSound, FileInOrder, SessionSound, SessionVersions
  <2> QED BY <2>1, <2>2
<1>3. RoundTripSound => RoundTripExact
  <2> SUFFICES ASSUME RoundTripSound PROVE RoundTripExact
    OBVIOUS
  <2>1. PICK l, v, ts : /\ WrittenFile(disk, WrittenSizes, l, v, ts) /\ v \in {10, 11}
                        /\ EmptiesInOrder(l, ts)
    BY DEF RoundTripSound, FileInOrder
  <2>2. /\ Sound(ts) /\ WholeArchive(ts) /\ l \in Layouts /\ v \in SessionVersions
        /\ disk = Image(l, v, ts)
    BY <2>1 DEF WrittenFile, Image
  <2>3. Readable(disk) /\ disk.version = v
    BY <2>1, <2>2, WrittenRegions
  <2>4. ImageBy(WrittenSizes, DetectLayout(disk), v, LoadTocs(disk)) = disk
    BY <2>1, RoundTrip
  <2> QED BY <2>3, <2>4 DEF RoundTripExact, Image
<1> QED BY <1>1, <1>2, <1>3, PTL DEF SessionSpec

=============================================================================
