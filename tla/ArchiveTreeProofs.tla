-------------------------- MODULE ArchiveTreeProofs --------------------------
(***************************************************************************)
(* What the operators of DirectoryTable and of ArchiveTree do, for tables  *)
(* of any length over any set of keys and for trees and archives of any    *)
(* size: that an edit leaves a tree well formed, its tables sorted, and    *)
(* its siblings unique if they were; and what the tree then holds.         *)
(***************************************************************************)
EXTENDS ArchiveTree, FiniteSetTheorems, SequenceTheorems, WellFoundedInduction, TLAPS

(***************************************************************************)
(* Every nonempty set of naturals has a least element.  The library's      *)
(* induction theorems cannot be instantiated here, so it is drawn from the *)
(* well-foundedness of strict inclusion among the intervals 0..m.          *)
(***************************************************************************)
LEMMA LeastNatural ==
  ASSUME NEW S, S \subseteq Nat, S # {}
  PROVE  \E n \in S : \A m \in S : n <= m
<1>1. PICK b \in S : TRUE
  OBVIOUS
<1> DEFINE T == {0 .. m : m \in {x \in S : x <= b}}
           R == StrictSubsetOrdering(0 .. b)
<1>2. IsFiniteSet(0 .. b)
  BY FS_Interval
<1>3. IsWellFoundedOn(R, SUBSET (0 .. b))
  BY <1>2, FS_StrictSubsetOrderingWellFounded, FS_FiniteSubsetsOfFinite
<1>4. T \subseteq SUBSET (0 .. b) /\ T # {}
  BY <1>1
<1>5. PICK X \in T : \A Y \in T : <<Y, X>> \notin R
  <2> HIDE DEF T, R
  <2> QED BY <1>3, <1>4, WFMin
<1>6. PICK n \in S : n <= b /\ X = 0 .. n
  BY <1>5
<1>7. ASSUME NEW m \in S, m < n
      PROVE  FALSE
  <2>1. 0 .. m \in T
    BY <1>6, <1>7
  <2>2. 0 .. m \subseteq 0 .. n /\ 0 .. m # 0 .. n
    <3>1. n \in 0 .. n /\ n \notin 0 .. m
      BY <1>7
    <3> QED BY <1>7, <3>1
  <2>3. <<0 .. m, 0 .. n>> \in R
    BY <2>1, <2>2, <1>4, <1>5, <1>6 DEF StrictSubsetOrdering
  <2> QED BY <1>5, <1>6, <2>1, <2>3
<1> QED BY <1>7

LEMMA MinFound ==
  ASSUME NEW S, S \subseteq Nat, S # {}
  PROVE  Min(S) \in S
<1>1. \E n \in S : \A m \in S : n <= m
  BY LeastNatural
<1> QED BY <1>1 DEF Min

\* What holds of 0, and of every number up to N whose predecessor it holds of,
\* holds of all of them: induction over the members of a set.
LEMMA StepsReach ==
  ASSUME NEW N \in Nat, NEW G, 0 \in G, \A n \in 1 .. N : n - 1 \in G => n \in G
  PROVE  0 .. N \subseteq G
<1> DEFINE Bad == (0 .. N) \ G
<1> SUFFICES ASSUME Bad # {} PROVE FALSE
  OBVIOUS
<1>1. PICK n \in Bad : \A m \in Bad : n <= m
  <2>1. Bad \subseteq Nat
    OBVIOUS
  <2> HIDE DEF Bad
  <2> QED BY <2>1, LeastNatural
<1>2. n \in 1 .. N /\ n - 1 \in 0 .. N /\ n - 1 < n
  BY <1>1
<1>3. n - 1 \notin Bad
  BY <1>1, <1>2
<1> QED BY <1>1, <1>2, <1>3

LEMMA MaxFound ==
  ASSUME NEW N \in Nat, NEW S, S \subseteq 0 .. N, S # {}
  PROVE  Max(S) \in S /\ \A n \in S : n <= Max(S)
<1> DEFINE T == {N - n : n \in S}
<1>0. \A n \in S : n \in Nat /\ N - n \in Nat
  OBVIOUS
<1>1. T \subseteq Nat /\ T # {}
  BY <1>0
<1>2. PICK m \in T : \A l \in T : m <= l
  <2> HIDE DEF T
  <2> QED BY <1>1, LeastNatural
<1>3. PICK n \in S : m = N - n
  BY <1>2
<1>4. \A l \in S : n >= l
  <2> SUFFICES ASSUME NEW l \in S PROVE n >= l
    OBVIOUS
  <2>1. N - l \in T
    OBVIOUS
  <2>2. N - n <= N - l
    BY <1>2, <1>3, <2>1
  <2> QED BY <1>0, <2>2
<1>5. \E x \in S : \A y \in S : x >= y
  BY <1>4
<1>6. Max(S) \in S /\ \A l \in S : Max(S) >= l
  BY <1>5 DEF Max
<1> QED BY <1>0, <1>6

-----------------------------------------------------------------------------
\* Entries that have a name: the elements of a table.
Named(E) == \A e \in E : e.name \in Names

\* Every entry of table a is an entry of table b.
KeepsEntries(a, b) == \A i \in 1 .. Len(a) : \E j \in 1 .. Len(b) : b[j] = a[i]

HasEntry(table, entry) == \E j \in 1 .. Len(table) : table[j] = entry

\* Position is 0 exactly when no entry is stored under the name, and is the
\* place of such an entry otherwise.
LEMMA PositionFound ==
  ASSUME NEW E, NEW table \in Seq(E), NEW name
  PROVE  /\ Position(table, name) \in 0 .. Len(table)
         /\ Position(table, name) = 0 =>
              \A i \in 1 .. Len(table) : table[i].name # name
         /\ Position(table, name) # 0 =>
              table[Position(table, name)].name = name
<1> DEFINE I == {i \in 1 .. Len(table) : table[i].name = name}
<1>1. Position(table, name) = IF I # {} THEN Min(I) ELSE 0
  BY DEF Position, SelectInSeq
<1>2. I # {} => Min(I) \in I
  <2> SUFFICES ASSUME I # {} PROVE Min(I) \in I
    OBVIOUS
  <2>0. I \subseteq Nat
    OBVIOUS
  <2> HIDE DEF I
  <2>1. \E n \in I : \A m \in I : n <= m
    BY <2>0, LeastNatural
  <2> QED BY <2>1 DEF Min
<1> QED BY <1>1, <1>2

\* What Vec::insert leaves.
LEMMA InsertAtPoint ==
  ASSUME NEW E, NEW s \in Seq(E), NEW e \in E, NEW i \in 1 .. Len(s) + 1
  PROVE  /\ InsertAt(s, i, e) \in Seq(E)
         /\ Len(InsertAt(s, i, e)) = Len(s) + 1
         /\ \A j \in 1 .. Len(s) + 1 :
              InsertAt(s, i, e)[j] = IF j < i THEN s[j]
                                     ELSE IF j = i THEN e ELSE s[j - 1]
<1> DEFINE a == SubSeq(s, 1, i - 1)
           b == SubSeq(s, i, Len(s))
<1>1. a \in Seq(E) /\ Len(a) = i - 1 /\ \A j \in 1 .. i - 1 : a[j] = s[j]
  BY SubSeqProperties
<1>2. /\ b \in Seq(E) /\ Len(b) = Len(s) - i + 1
      /\ \A j \in 1 .. Len(s) - i + 1 : b[j] = s[i + j - 1]
  BY SubSeqProperties
<1>3. <<e>> \in Seq(E) /\ Len(<<e>>) = 1 /\ <<e>>[1] = e
  OBVIOUS
<1> HIDE DEF a, b
<1>4. /\ a \o <<e>> \in Seq(E) /\ Len(a \o <<e>>) = i
      /\ \A j \in 1 .. i : (a \o <<e>>)[j] = IF j < i THEN s[j] ELSE e
  BY <1>1, <1>3, ConcatProperties
<1>5. /\ (a \o <<e>>) \o b \in Seq(E)
      /\ Len((a \o <<e>>) \o b) = Len(s) + 1
      /\ \A j \in 1 .. Len(s) + 1 :
           ((a \o <<e>>) \o b)[j] = IF j < i THEN s[j]
                                    ELSE IF j = i THEN e ELSE s[j - 1]
  <2> DEFINE c == a \o <<e>>
  <2>1. /\ c \in Seq(E) /\ Len(c) = i
        /\ \A j \in 1 .. i : c[j] = IF j < i THEN s[j] ELSE e
    BY <1>4
  <2> HIDE DEF c
  <2>2. /\ c \o b \in Seq(E)
        /\ Len(c \o b) = Len(c) + Len(b)
        /\ \A j \in 1 .. Len(c) + Len(b) :
             (c \o b)[j] = IF j <= Len(c) THEN c[j] ELSE b[j - Len(c)]
    BY <1>2, <2>1, ConcatProperties
  <2>3. Len(s) \in Nat /\ Len(c \o b) = Len(s) + 1
    BY <1>2, <2>1, <2>2
  <2>4. ASSUME NEW j \in 1 .. Len(s) + 1
        PROVE  (c \o b)[j] = IF j < i THEN s[j]
                             ELSE IF j = i THEN e ELSE s[j - 1]
    <3>1. CASE j <= i
      BY <1>2, <2>1, <2>2, <2>3, <3>1
    <3>2. CASE j > i
      <4>1. j - i \in 1 .. Len(s) - i + 1
        BY <2>3, <3>2
      <4>2. b[j - i] = s[j - 1]
        BY <1>2, <4>1, <3>2
      <4> QED BY <1>2, <2>1, <2>2, <2>3, <3>2, <4>2
    <3> QED BY <2>3, <3>1, <3>2
  <2> QED BY <2>2, <2>3, <2>4 DEF c
<1> QED BY <1>5 DEF InsertAt, a, b

\* r is s with e put in before its i-th.
Inserted(s, r, i, e) ==
  /\ i \in 1 .. Len(s) + 1
  /\ Len(r) = Len(s) + 1
  /\ \A j \in 1 .. Len(r) :
       r[j] = IF j < i THEN s[j] ELSE IF j = i THEN e ELSE s[j - 1]

LEMMA InsertedThere ==
  ASSUME NEW E, NEW s \in Seq(E), NEW e \in E, NEW i \in 1 .. Len(s) + 1
  PROVE  InsertAt(s, i, e) \in Seq(E) /\ Inserted(s, InsertAt(s, i, e), i, e)
<1> DEFINE r == InsertAt(s, i, e)
<1>1. /\ r \in Seq(E) /\ Len(r) = Len(s) + 1
      /\ \A j \in 1 .. Len(s) + 1 :
           r[j] = IF j < i THEN s[j] ELSE IF j = i THEN e ELSE s[j - 1]
  BY InsertAtPoint
<1> HIDE DEF r
<1>2. Inserted(s, r, i, e)
  BY <1>1 DEF Inserted
<1> QED BY <1>1, <1>2 DEF r

\* In a sorted table partition_point has a place to return, and whatever it
\* returns leaves the smaller keys before it and the others after it.
LEMMA PartitionPointSplits ==
  ASSUME NEW E, Named(E), NEW table \in Seq(E), NEW key \in Nat,
         Sorted(table), NEW at \in PartitionPoints(table, key)
  PROVE  at \in Splits(table, key)
<1> DEFINE I == {i \in 1 .. Len(table) : table[i].name.key >= key}
<1>1. \A i \in 1 .. Len(table) : table[i].name.key \in Nat
  <2>1. \A i \in 1 .. Len(table) : table[i] \in E
    OBVIOUS
  <2> QED BY <2>1, KeysAssumption DEF Named, Names
<1>2. Splits(table, key) # {}
  <2>1. CASE I = {}
    <3>1. Len(table) \in Splits(table, key)
      BY <1>1, <2>1 DEF Splits
    <3> QED BY <3>1
  <2>2. CASE I # {}
    <3>1. PICK n \in I : \A m \in I : n <= m
      <4>1. I \subseteq Nat
        OBVIOUS
      <4> HIDE DEF I
      <4> QED BY <2>2, <4>1, LeastNatural
    <3>2. \A i \in 1 .. n - 1 : table[i].name.key < key
      BY <1>1, <3>1
    <3>3. \A i \in n .. Len(table) : table[i].name.key >= key
      BY <1>1, <3>1 DEF Sorted
    <3>4. n - 1 \in Splits(table, key)
      BY <3>1, <3>2, <3>3 DEF Splits
    <3> QED BY <3>4
  <2> QED BY <2>1, <2>2
<1> QED BY <1>2 DEF PartitionPoints

\* Equal keys of lowercase names are equal names.
LEMMA LowerNamesByKey ==
  ASSUME NEW a \in Names, NEW b \in Names, a.key = b.key,
         IsLower(a), IsLower(b)
  PROVE  a = b
BY DEF Names, IsLower

\* Overwriting an entry by one of the same folded name.
LEMMA OverwriteKeeps ==
  ASSUME NEW E, Named(E), NEW table \in Seq(E), NEW i \in 1 .. Len(table),
         NEW entry \in E, entry.name.key = table[i].name.key
  PROVE  LET r == [table EXCEPT ![i] = entry]
         IN  /\ r \in Seq(E)
             /\ Len(r) = Len(table)
             /\ r[i] = entry
             /\ \A j \in 1 .. Len(table) : j # i => r[j] = table[j]
             /\ Sorted(table) => Sorted(r)
             /\ UniquelyNamed(table) => UniquelyNamed(r)
             /\ AllLower(table) /\ IsLower(entry.name) => AllLower(r)
<1> DEFINE r == [table EXCEPT ![i] = entry]
<1>1. /\ r \in Seq(E)
      /\ Len(r) = Len(table)
      /\ DOMAIN r = 1 .. Len(table) /\ DOMAIN table = 1 .. Len(table)
      /\ r[i] = entry
      /\ \A j \in 1 .. Len(table) : j # i => r[j] = table[j]
  BY ExceptSeq
<1> HIDE DEF r
<1>2. \A j \in 1 .. Len(table) : r[j].name.key = table[j].name.key
  BY <1>1
<1>3. Sorted(table) => Sorted(r)
  BY <1>1, <1>2 DEF Sorted
<1>4. UniquelyNamed(table) => UniquelyNamed(r)
  BY <1>1, <1>2 DEF UniquelyNamed
<1>5. AllLower(table) /\ IsLower(entry.name) => AllLower(r)
  BY <1>1 DEF AllLower
<1> QED BY <1>1, <1>3, <1>4, <1>5 DEF r

\* Inserting an entry where partition_point says: anywhere, if the table is not
\* sorted.
LEMMA InsertKeeps ==
  ASSUME NEW E, Named(E), NEW table \in Seq(E), NEW entry \in E,
         NEW at \in PartitionPoints(table, entry.name.key)
  PROVE  LET r == InsertAt(table, at + 1, entry)
         IN  /\ r \in Seq(E)
             /\ Sorted(table) => Sorted(r)
             /\ KeepsEntries(table, r)
             /\ HasEntry(r, entry)
             /\ \A j \in 1 .. Len(r) :
                  r[j] = entry \/ \E i \in 1 .. Len(table) : r[j] = table[i]
             /\ /\ UniquelyNamed(table)
                /\ \A i \in 1 .. Len(table) : table[i].name.key # entry.name.key
                => UniquelyNamed(r)
             /\ AllLower(table) /\ IsLower(entry.name) => AllLower(r)
<1> DEFINE r == InsertAt(table, at + 1, entry)
           Old(j) == IF j <= at THEN j ELSE j - 1
<1>1. entry.name.key \in Nat /\ \A i \in 1 .. Len(table) : table[i].name.key \in Nat
  <2>1. \A i \in 1 .. Len(table) : table[i] \in E
    OBVIOUS
  <2> QED BY <2>1, KeysAssumption DEF Named, Names
<1>2. at \in 0 .. Len(table)
  BY DEF PartitionPoints, Splits
<1>3. /\ r \in Seq(E) /\ Len(r) = Len(table) + 1
      /\ DOMAIN r = 1 .. Len(table) + 1 /\ DOMAIN table = 1 .. Len(table)
      /\ r[at + 1] = entry
      /\ \A j \in 1 .. Len(table) + 1 :
           j # at + 1 => /\ Old(j) \in 1 .. Len(table)
                         /\ r[j] = table[Old(j)]
  <2>1. at + 1 \in 1 .. Len(table) + 1
    BY <1>2
  <2> DEFINE n == at + 1
  <2> HIDE DEF n
  <2>2. n \in 1 .. Len(table) + 1
    BY <2>1 DEF n
  <2> DEFINE q == InsertAt(table, n, entry)
  <2>3. /\ q \in Seq(E) /\ Len(q) = Len(table) + 1
        /\ \A j \in 1 .. Len(table) + 1 :
             q[j] = IF j < n THEN table[j] ELSE IF j = n THEN entry ELSE table[j - 1]
    <3>1. q \in Seq(E) /\ Inserted(table, q, n, entry)
      BY <2>2, InsertedThere
    <3> QED BY <3>1 DEF Inserted
  <2>4. q = r
    BY DEF n
  <2>5. Len(table) \in Nat /\ n = at + 1
    BY DEF n
  <2> HIDE DEF q, r
  <2> QED BY <1>2, <2>3, <2>4, <2>5
<1> HIDE DEF r
<1>4. ASSUME Sorted(table) PROVE Sorted(r)
  <2> SUFFICES ASSUME NEW i \in 1 .. Len(table) + 1, NEW j \in 1 .. Len(table) + 1,
                      i <= j
               PROVE  r[i].name.key <= r[j].name.key
    BY <1>3 DEF Sorted
  <2>0. /\ Len(table) \in Nat /\ at \in Nat
        /\ \A k \in 1 .. at : table[k].name.key < entry.name.key
        /\ \A k \in at + 1 .. Len(table) : table[k].name.key >= entry.name.key
    BY <1>1, <1>2, <1>4, PartitionPointSplits DEF Splits
  <2>1. CASE i = at + 1
    <3>1. CASE j = at + 1
      BY <1>1, <1>3, <2>1, <3>1
    <3>2. CASE j # at + 1
      <4>1. Old(j) \in at + 1 .. Len(table) /\ r[j] = table[Old(j)]
        BY <1>3, <2>0, <2>1, <3>2
      <4> HIDE DEF Old
      <4> QED BY <1>1, <1>2, <1>3, <2>0, <2>1, <4>1
    <3> QED BY <3>1, <3>2
  <2>2. CASE i # at + 1 /\ j = at + 1
    <3>1. Old(i) \in 1 .. at /\ r[i] = table[Old(i)]
      BY <1>3, <2>0, <2>2
    <3>2. table[Old(i)].name.key \in Nat
      BY <1>1, <1>2, <3>1
    <3> HIDE DEF Old
    <3> QED BY <1>1, <1>2, <1>3, <2>0, <2>2, <3>1, <3>2
  <2>3. CASE i # at + 1 /\ j # at + 1
    <3>1. /\ Old(i) \in 1 .. Len(table) /\ r[i] = table[Old(i)]
          /\ Old(j) \in 1 .. Len(table) /\ r[j] = table[Old(j)]
      BY <1>3, <2>3
    <3>2. Old(i) <= Old(j)
      BY <2>0, <2>3
    <3> HIDE DEF Old
    <3> QED BY <1>3, <1>4, <3>1, <3>2 DEF Sorted
  <2> QED BY <2>1, <2>2, <2>3
<1>5. \A i \in 1 .. Len(table) : \E j \in 1 .. Len(r) : r[j] = table[i]
  <2> SUFFICES ASSUME NEW i \in 1 .. Len(table)
               PROVE  \E j \in 1 .. Len(r) : r[j] = table[i]
    OBVIOUS
  <2>1. CASE i <= at
    <3>1. i \in 1 .. Len(r) /\ r[i] = table[i]
      BY <1>2, <1>3, <2>1
    <3> QED BY <3>1
  <2>2. CASE i > at
    <3>1. i + 1 \in 1 .. Len(r) /\ r[i + 1] = table[i]
      BY <1>2, <1>3, <2>2
    <3> QED BY <3>1
  <2> QED BY <1>2, <2>1, <2>2
<1>6. /\ \E j \in 1 .. Len(r) : r[j] = entry
      /\ \A j \in 1 .. Len(r) :
           r[j] = entry \/ \E i \in 1 .. Len(table) : r[j] = table[i]
  BY <1>2, <1>3
<1>7. ASSUME UniquelyNamed(table),
             \A i \in 1 .. Len(table) : table[i].name.key # entry.name.key
      PROVE  UniquelyNamed(r)
  <2> SUFFICES ASSUME NEW i \in 1 .. Len(table) + 1, NEW j \in 1 .. Len(table) + 1,
                      r[i].name.key = r[j].name.key
               PROVE  i = j
    BY <1>3 DEF UniquelyNamed
  <2>1. CASE i = at + 1 \/ j = at + 1
    <3> HIDE DEF Old
    <3> QED BY <1>3, <1>7, <2>1
  <2>2. CASE i # at + 1 /\ j # at + 1
    <3>1. Old(i) = Old(j)
      <4> HIDE DEF Old
      <4> QED BY <1>3, <1>7, <2>2 DEF UniquelyNamed
    <3> QED BY <1>2, <2>2, <3>1
  <2> QED BY <2>1, <2>2
<1>8. ASSUME AllLower(table), IsLower(entry.name)
      PROVE  AllLower(r)
  BY <1>3, <1>6, <1>8 DEF AllLower
<1> QED BY <1>3, <1>4, <1>5, <1>6, <1>7, <1>8 DEF r, KeepsEntries, HasEntry

\* insert_or_replace leaves a sorted table sorted; it leaves a table whose
\* names are lowercase and unique so as well, if the new name is lowercase.
\* It keeps every entry stored under another name, and adds only its own.
LEMMA InsertOrReplaceKeeps ==
  ASSUME NEW E, Named(E), NEW table \in Seq(E), NEW entry \in E,
         NEW r \in InsertOrReplace(table, entry)
  PROVE  /\ r \in Seq(E)
         /\ Sorted(table) => Sorted(r)
         /\ /\ UniquelyNamed(table) /\ AllLower(table) /\ IsLower(entry.name)
            => UniquelyNamed(r) /\ AllLower(r)
<1> DEFINE n == Position(table, entry.name)
<1>1. /\ n \in 0 .. Len(table)
      /\ n = 0 => \A i \in 1 .. Len(table) : table[i].name # entry.name
      /\ n # 0 => table[n].name = entry.name
  BY PositionFound
<1>2. CASE n # 0
  <2> HIDE DEF n
  <2>1. n \in 1 .. Len(table) /\ entry.name.key = table[n].name.key
    BY <1>1, <1>2
  <2>2. r = [table EXCEPT ![n] = entry]
    BY <1>2 DEF InsertOrReplace, n
  <2>3. r \in Seq(E)
    BY <2>1, <2>2, OverwriteKeeps
  <2>4. Sorted(table) => Sorted(r)
    BY <2>1, <2>2, OverwriteKeeps
  <2>5. UniquelyNamed(table) => UniquelyNamed(r)
    BY <2>1, <2>2, OverwriteKeeps
  <2>6. AllLower(table) /\ IsLower(entry.name) => AllLower(r)
    BY <2>1, <2>2, OverwriteKeeps
  <2> QED BY <2>3, <2>4, <2>5, <2>6
<1>3. CASE n = 0
  <2> HIDE DEF n
  <2>1. PICK at \in PartitionPoints(table, entry.name.key) :
          r = InsertAt(table, at + 1, entry)
    BY <1>3 DEF InsertOrReplace, n
  <2>2. r \in Seq(E)
    BY <2>1, InsertKeeps
  <2>3. Sorted(table) => Sorted(r)
    BY <2>1, InsertKeeps
  <2>4. ASSUME UniquelyNamed(table),
               \A i \in 1 .. Len(table) : table[i].name.key # entry.name.key
        PROVE  UniquelyNamed(r)
    BY <2>1, <2>4, InsertKeeps
  <2>5. ASSUME AllLower(table), IsLower(entry.name)
        PROVE  AllLower(r)
    BY <2>1, <2>5, InsertKeeps
  <2>6. ASSUME AllLower(table), IsLower(entry.name), NEW i \in 1 .. Len(table)
        PROVE  table[i].name.key # entry.name.key
    <3>1. table[i] \in E /\ IsLower(table[i].name)
      BY <2>6 DEF AllLower
    <3>2. table[i].name # entry.name
      BY <1>1, <1>3
    <3> QED BY <2>6, <3>1, <3>2, LowerNamesByKey DEF Named
  <2> QED BY <2>2, <2>3, <2>4, <2>5, <2>6
<1> QED BY <1>2, <1>3

(***************************************************************************)
(* Enumerate lists every element of a finite set, and in its order.  The   *)
(* number of elements before one is an injection into 0..C-1, so it meets  *)
(* every number there.                                                     *)
(***************************************************************************)
StrictOrder(K, R) ==
  /\ \A i \in K : <<i, i>> \notin R
  /\ \A i, j \in K : i # j => <<i, j>> \in R \/ <<j, i>> \in R
  /\ \A i, j, k \in K : <<i, j>> \in R /\ <<j, k>> \in R => <<i, k>> \in R

LEMMA EnumerateInOrder ==
  ASSUME NEW K, IsFiniteSet(K), NEW R, StrictOrder(K, R)
  PROVE  /\ Cardinality(K) \in Nat
         /\ Enumerate(K, R) \in [1 .. Cardinality(K) -> K]
         /\ \A i \in K : \E k \in 1 .. Cardinality(K) : Enumerate(K, R)[k] = i
         /\ \A k, l \in 1 .. Cardinality(K) :
              k < l => <<Enumerate(K, R)[k], Enumerate(K, R)[l]>> \in R
<1> DEFINE Before(i) == {j \in K : <<j, i>> \in R}
           C == Cardinality(K)
           rank == [i \in K |-> Cardinality(Before(i))]
           order == Enumerate(K, R)
<1>1. C \in Nat
  BY FS_CardinalityType
<1>2. ASSUME NEW i \in K
      PROVE  rank[i] \in 0 .. C - 1
  <2>1. Before(i) \in SUBSET K /\ Before(i) # K
    BY DEF StrictOrder
  <2> HIDE DEF Before
  <2>2. IsFiniteSet(Before(i))
    BY <2>1, FS_Subset
  <2>3. Cardinality(Before(i)) \in Nat
    BY <2>2, FS_CardinalityType
  <2>4. Cardinality(Before(i)) <= C
    BY <2>1, FS_Subset
  <2>5. Cardinality(Before(i)) # C
    BY <2>1, FS_Subset
  <2> QED BY <1>1, <2>3, <2>4, <2>5
<1>3. ASSUME NEW i \in K, NEW j \in K, <<i, j>> \in R
      PROVE  rank[i] < rank[j]
  <2>1. Before(i) \in SUBSET Before(j) /\ Before(i) # Before(j)
    BY <1>3 DEF StrictOrder
  <2>2. Before(j) \in SUBSET K
    OBVIOUS
  <2>3. rank[i] = Cardinality(Before(i)) /\ rank[j] = Cardinality(Before(j))
    OBVIOUS
  <2>4. rank[i] \in Nat /\ rank[j] \in Nat
    BY <1>1, <1>2
  <2> HIDE DEF Before, rank
  <2>5. IsFiniteSet(Before(j))
    BY <2>2, FS_Subset
  <2>6. Cardinality(Before(i)) <= Cardinality(Before(j))
    BY <2>1, <2>5, FS_Subset
  <2>7. Cardinality(Before(i)) # Cardinality(Before(j))
    BY <2>1, <2>5, FS_Subset
  <2> QED BY <2>3, <2>4, <2>6, <2>7
<1>4. rank \in [K -> 0 .. C - 1]
  <2>1. rank = [i \in K |-> rank[i]]
    OBVIOUS
  <2> HIDE DEF rank, C
  <2> QED BY <1>2, <2>1
<1>5. rank \in Injection(K, 0 .. C - 1)
  <2> HIDE DEF rank, C
  <2>1. ASSUME NEW i \in K, NEW j \in K, rank[i] = rank[j]
        PROVE  i = j
    <3>1. rank[i] \in Int /\ rank[j] \in Int
      BY <1>1, <1>2
    <3>2. i # j => <<i, j>> \in R \/ <<j, i>> \in R
      BY DEF StrictOrder
    <3>3. <<i, j>> \in R => rank[i] < rank[j]
      BY <1>3
    <3>4. <<j, i>> \in R => rank[j] < rank[i]
      BY <1>3
    <3> QED BY <2>1, <3>1, <3>2, <3>3, <3>4
  <2> QED BY <1>4, <2>1 DEF Injection, IsInjective
<1>6. rank \in Surjection(K, 0 .. C - 1)
  <2> HIDE DEF rank
  <2>1. IsFiniteSet(0 .. C - 1)
    BY <1>1, FS_Interval
  <2>2. Cardinality(0 .. C - 1) = C
    BY <1>1, FS_Interval
  <2>3. Cardinality(K) = Cardinality(0 .. C - 1) <=> rank \in Surjection(K, 0 .. C - 1)
    BY <1>5, <2>1, FS_Injection
  <2> QED BY <2>2, <2>3
<1>7. ASSUME NEW k \in 1 .. C
      PROVE  order[k] \in K /\ rank[order[k]] = k - 1
  <2>1. k - 1 \in 0 .. C - 1
    BY <1>1
  <2>2. \E i \in K : Cardinality(Before(i)) = k - 1
    <3>1. \E i \in K : rank[i] = k - 1
      <4> HIDE DEF rank, C
      <4> QED BY <1>6, <2>1 DEF Surjection
    <3> QED BY <3>1
  <2>3. order[k] = CHOOSE i \in K : Cardinality(Before(i)) = k - 1
    BY DEF Enumerate
  <2> HIDE DEF Before, order
  <2>4. order[k] \in K /\ Cardinality(Before(order[k])) = k - 1
    BY <2>2, <2>3
  <2> QED BY <2>4
<1>8. order \in [1 .. C -> K]
  <2> DEFINE g == [k \in 1 .. C |-> CHOOSE i \in K : Cardinality(Before(i)) = k - 1]
  <2>1. order = g
    BY DEF Enumerate
  <2>2. \A k \in 1 .. C : g[k] \in K
    <3> HIDE DEF g, order
    <3> QED BY <1>7, <2>1
  <2>3. g \in [1 .. C -> K]
    <3> HIDE DEF Before
    <3> QED BY <2>2
  <2> QED BY <2>1, <2>3
<1>9. ASSUME NEW i \in K
      PROVE  \E k \in 1 .. C : order[k] = i
  <2> HIDE DEF rank, order, C
  <2>1. rank[i] + 1 \in 1 .. C /\ rank[i] \in Int
    BY <1>1, <1>2
  <2>2. order[rank[i] + 1] \in K /\ rank[order[rank[i] + 1]] = rank[i]
    BY <1>7, <2>1
  <2>3. order[rank[i] + 1] = i
    BY <1>5, <2>2 DEF Injection, IsInjective
  <2> QED BY <2>1, <2>3
<1>10. ASSUME NEW k \in 1 .. C, NEW l \in 1 .. C, k < l
       PROVE  <<order[k], order[l]>> \in R
  <2> HIDE DEF rank, order, C
  <2>1. /\ order[k] \in K /\ rank[order[k]] = k - 1
        /\ order[l] \in K /\ rank[order[l]] = l - 1
    BY <1>7
  <2>2. order[k] # order[l]
    BY <1>10, <2>1
  <2>3. <<order[l], order[k]>> \notin R
    <3>1. ~ (l - 1 < k - 1)
      BY <1>10
    <3> QED BY <1>3, <2>1, <3>1
  <2> QED BY <2>1, <2>2, <2>3 DEF StrictOrder
<1> HIDE DEF order
<1> QED BY <1>1, <1>8, <1>9, <1>10 DEF order

\* A table is read off another through an enumeration of indices.
LEMMA PickedTable ==
  ASSUME NEW E, NEW table \in Seq(E), NEW C \in Nat,
         NEW f \in [1 .. C -> 1 .. Len(table)]
  PROVE  /\ [k \in 1 .. C |-> table[f[k]]] \in Seq(E)
         /\ Len([k \in 1 .. C |-> table[f[k]]]) = C
         /\ DOMAIN [k \in 1 .. C |-> table[f[k]]] = 1 .. C
<1> DEFINE r == [k \in 1 .. C |-> table[f[k]]]
<1>1. \A k \in 1 .. C : table[f[k]] \in E
  OBVIOUS
<1>2. r \in [1 .. C -> E]
  BY <1>1
<1>3. DOMAIN r = 1 .. C
  OBVIOUS
<1> HIDE DEF r
<1>4. r \in Seq(E)
  BY <1>2, SeqDef
<1>5. Len(r) = C
  BY <1>3, <1>4, LenProperties
<1> QED BY <1>3, <1>4, <1>5 DEF r

\* Retain keeps a table sorted and its names unique and lowercase, and it
\* keeps the entries at K and no others.
LEMMA RetainKeeps ==
  ASSUME NEW E, NEW table \in Seq(E), NEW K \in SUBSET (1 .. Len(table))
  PROVE  /\ Retain(table, K) \in Seq(E)
         /\ Sorted(table) => Sorted(Retain(table, K))
         /\ UniquelyNamed(table) => UniquelyNamed(Retain(table, K))
         /\ AllLower(table) => AllLower(Retain(table, K))
         /\ \A i \in K : \E k \in 1 .. Len(Retain(table, K)) : Retain(table, K)[k] = table[i]
         /\ \A k \in 1 .. Len(Retain(table, K)) : \E i \in K : Retain(table, K)[k] = table[i]
<1> DEFINE R == {p \in K \X K : p[1] < p[2]}
           C == Cardinality(K)
           f == Enumerate(K, R)
           r == Retain(table, K)
<1>1. IsFiniteSet(K)
  <2>1. Len(table) \in Nat
    OBVIOUS
  <2>2. IsFiniteSet(1 .. Len(table))
    BY <2>1, FS_Interval
  <2> QED BY <2>2, FS_Subset
<1>2. StrictOrder(K, R)
  <2>1. \A i \in K : i \in Int
    OBVIOUS
  <2> QED BY <2>1 DEF StrictOrder
<1>3. C \in Nat
  BY <1>1, FS_CardinalityType
<1>4. f \in [1 .. C -> K]
  <2> HIDE DEF R
  <2> QED BY <1>1, <1>2, EnumerateInOrder
<1>5. \A i \in K : \E k \in 1 .. C : f[k] = i
  <2> HIDE DEF R
  <2> QED BY <1>1, <1>2, EnumerateInOrder
<1>6. \A k, l \in 1 .. C : k < l => <<f[k], f[l]>> \in R
  <2> HIDE DEF R
  <2> QED BY <1>1, <1>2, EnumerateInOrder
<1>7. \A k, l \in 1 .. C : k < l => f[k] < f[l]
  <2> HIDE DEF f, C
  <2> QED BY <1>6
<1>8. r = [k \in 1 .. C |-> table[f[k]]]
  BY DEF Retain
<1> HIDE DEF f, C, R, r
<1>9. /\ r \in Seq(E) /\ Len(r) = C /\ DOMAIN r = 1 .. C
      /\ DOMAIN table = 1 .. Len(table)
      /\ \A k \in 1 .. C : f[k] \in K /\ f[k] \in 1 .. Len(table) /\ r[k] = table[f[k]]
  <2>1. f \in [1 .. C -> 1 .. Len(table)]
    BY <1>4
  <2>2. r \in Seq(E)
    BY <1>3, <1>8, <2>1, PickedTable
  <2>3. Len(r) = C
    BY <1>3, <1>8, <2>1, PickedTable
  <2>4. DOMAIN r = 1 .. C
    BY <1>8
  <2>5. DOMAIN table = 1 .. Len(table)
    OBVIOUS
  <2>6. \A k \in 1 .. C : f[k] \in K /\ r[k] = table[f[k]]
    BY <1>4, <1>8
  <2> QED BY <2>1, <2>2, <2>3, <2>4, <2>5, <2>6
<1>10. ASSUME Sorted(table) PROVE Sorted(r)
  <2> SUFFICES ASSUME NEW k \in 1 .. C, NEW l \in 1 .. C, k <= l
               PROVE  r[k].name.key <= r[l].name.key
    BY <1>9 DEF Sorted
  <2>1. f[k] <= f[l]
    <3>1. CASE k = l
      BY <1>9, <3>1
    <3>2. CASE k < l
      BY <1>7, <1>9, <3>2
    <3> QED BY <3>1, <3>2
  <2> QED BY <1>9, <1>10, <2>1 DEF Sorted
<1>11. ASSUME UniquelyNamed(table) PROVE UniquelyNamed(r)
  <2> SUFFICES ASSUME NEW k \in 1 .. C, NEW l \in 1 .. C,
                      r[k].name.key = r[l].name.key
               PROVE  k = l
    BY <1>9 DEF UniquelyNamed
  <2>1. f[k] = f[l]
    BY <1>9, <1>11 DEF UniquelyNamed
  <2> QED BY <1>7, <1>9, <2>1
<1>12. ASSUME AllLower(table) PROVE AllLower(r)
  BY <1>9, <1>12 DEF AllLower
<1>13. \A i \in K : \E k \in 1 .. Len(r) : r[k] = table[i]
  BY <1>5, <1>9
<1>14. \A k \in 1 .. Len(r) : \E i \in K : r[k] = table[i]
  BY <1>9
<1> QED BY <1>9, <1>10, <1>11, <1>12, <1>13, <1>14 DEF r

\* The order of a table by folded names is total.
LEMMA NameOrderStrict ==
  ASSUME NEW E, Named(E), NEW table \in Seq(E)
  PROVE  StrictOrder(1 .. Len(table), NameOrder(table))
<1> DEFINE K == 1 .. Len(table)
           R == NameOrder(table)
<1>1. \A i \in K : table[i].name.key \in Nat
  <2>1. \A i \in 1 .. Len(table) : table[i] \in E
    OBVIOUS
  <2> QED BY <2>1, KeysAssumption DEF Named, Names
<1>2. \A i, j \in K : <<i, j>> \in R <=>
        \/ table[i].name.key < table[j].name.key
        \/ table[i].name.key = table[j].name.key /\ i < j
  <2>1. R = {p \in K \X K : \/ table[p[1]].name.key < table[p[2]].name.key
                           \/ /\ table[p[1]].name.key = table[p[2]].name.key
                              /\ p[1] < p[2]}
    BY DEF NameOrder
  <2> HIDE DEF K, R
  <2> QED BY <2>1
<1>3. \A i \in K : i \in Int
  OBVIOUS
<1>4. StrictOrder(K, R)
  <2> HIDE DEF K, R
  <2> QED BY <1>1, <1>2, <1>3 DEF StrictOrder
<1> QED BY <1>4

\* Sorting sorts, and it keeps every entry.
LEMMA SortKeeps ==
  ASSUME NEW E, Named(E), NEW table \in Seq(E)
  PROVE  /\ SortTable(table) \in Seq(E)
         /\ Sorted(SortTable(table))
         /\ UniquelyNamed(table) => UniquelyNamed(SortTable(table))
         /\ AllLower(table) => AllLower(SortTable(table))
         /\ KeepsEntries(table, SortTable(table))
         /\ KeepsEntries(SortTable(table), table)
<1> DEFINE K == 1 .. Len(table)
           R == NameOrder(table)
           C == Cardinality(K)
           f == Enumerate(K, R)
           r == SortTable(table)
<1>1. \A i \in K : table[i].name.key \in Nat
  <2>1. \A i \in 1 .. Len(table) : table[i] \in E
    OBVIOUS
  <2> QED BY <2>1, KeysAssumption DEF Named, Names
<1>2. Len(table) \in Nat /\ IsFiniteSet(K) /\ C = Len(table) /\ DOMAIN table = K
  <2>1. Len(table) \in Nat /\ DOMAIN table = K
    OBVIOUS
  <2>2. IsFiniteSet(K)
    BY <2>1, FS_Interval
  <2>3. C = Len(table)
    BY <2>1, FS_Interval
  <2> QED BY <2>1, <2>2, <2>3
<1>3. \A i, j \in K : <<i, j>> \in R <=>
        \/ table[i].name.key < table[j].name.key
        \/ table[i].name.key = table[j].name.key /\ i < j
  <2>1. R = {p \in K \X K : \/ table[p[1]].name.key < table[p[2]].name.key
                           \/ /\ table[p[1]].name.key = table[p[2]].name.key
                              /\ p[1] < p[2]}
    BY DEF NameOrder
  <2> HIDE DEF K, R
  <2> QED BY <2>1
<1>4. StrictOrder(K, R)
  BY NameOrderStrict
<1>5. f \in [1 .. C -> K]
  <2> HIDE DEF K, R
  <2> QED BY <1>2, <1>4, EnumerateInOrder
<1>6. \A i \in K : \E k \in 1 .. C : f[k] = i
  <2> HIDE DEF K, R
  <2> QED BY <1>2, <1>4, EnumerateInOrder
<1>7. \A k, l \in 1 .. C : k < l => <<f[k], f[l]>> \in R
  <2> HIDE DEF K, R
  <2> QED BY <1>2, <1>4, EnumerateInOrder
<1>8. r = [k \in 1 .. C |-> table[f[k]]]
  <2>1. DOMAIN table = 1 .. C
    BY <1>2
  <2> QED BY <1>2, <2>1 DEF SortTable
<1> HIDE DEF f, C, R, r
<1>9. /\ r \in Seq(E) /\ Len(r) = C /\ DOMAIN r = 1 .. C
      /\ \A k \in 1 .. C : f[k] \in K /\ r[k] = table[f[k]]
  <2>1. f \in [1 .. C -> 1 .. Len(table)] /\ C \in Nat
    BY <1>2, <1>5
  <2>2. r \in Seq(E)
    BY <1>8, <2>1, PickedTable
  <2>3. Len(r) = C
    BY <1>8, <2>1, PickedTable
  <2>4. DOMAIN r = 1 .. C
    BY <1>8
  <2> QED BY <1>5, <1>8, <2>2, <2>3, <2>4
<1>10. Sorted(r)
  <2> SUFFICES ASSUME NEW k \in 1 .. C, NEW l \in 1 .. C, k <= l
               PROVE  r[k].name.key <= r[l].name.key
    BY <1>9 DEF Sorted
  <2> HIDE DEF K
  <2>1. CASE k = l
    <3>1. r[k].name.key \in Nat
      BY <1>1, <1>9
    <3> QED BY <2>1, <3>1
  <2>2. CASE k < l
    <3>1. <<f[k], f[l]>> \in R /\ f[k] \in K /\ f[l] \in K
      BY <1>7, <1>9, <2>2
    <3>2. table[f[k]].name.key \in Nat /\ table[f[l]].name.key \in Nat
      BY <1>1, <3>1
    <3>3. table[f[k]].name.key <= table[f[l]].name.key
      BY <1>3, <3>1, <3>2
    <3> QED BY <1>9, <3>3
  <2> QED BY <2>1, <2>2
<1>11. ASSUME UniquelyNamed(table) PROVE UniquelyNamed(r)
  <2> SUFFICES ASSUME NEW k \in 1 .. C, NEW l \in 1 .. C,
                      r[k].name.key = r[l].name.key
               PROVE  k = l
    BY <1>9 DEF UniquelyNamed
  <2> HIDE DEF K
  <2>1. f[k] = f[l]
    BY <1>2, <1>9, <1>11 DEF UniquelyNamed
  <2>2. <<f[k], f[k]>> \notin R
    BY <1>4, <1>9 DEF StrictOrder
  <2> QED BY <1>7, <2>1, <2>2
<1>12. ASSUME AllLower(table) PROVE AllLower(r)
  BY <1>2, <1>9, <1>12 DEF AllLower
<1>13. KeepsEntries(table, r)
  BY <1>6, <1>9 DEF KeepsEntries
<1>14. KeepsEntries(r, table)
  <2>1. \A k \in 1 .. Len(r) : \E i \in 1 .. Len(table) : table[i] = r[k]
    BY <1>9
  <2> QED BY <2>1 DEF KeepsEntries
<1> QED BY <1>9, <1>10, <1>11, <1>12, <1>13, <1>14 DEF r

ChildEntries == [name : Names]

LEMMA TablesAreNamed == Named(ChildEntries) /\ Named(Files)
  BY DEF Named, ChildEntries, Files

\* What IsTree says of one folder.
LEMMA FolderParts ==
  ASSUME NEW t, IsTree(t), NEW p \in DOMAIN t
  PROVE  /\ p \in Seq(Names)
         /\ t[p] \in Folders
         /\ t[p].folders \in Seq(ChildEntries)
         /\ t[p].files \in Seq(Files)
         /\ t[p] = [folders |-> t[p].folders, files |-> t[p].files]
  BY DEF IsTree, Folders, ChildEntries

(***************************************************************************)
(* Sequences.                                                              *)
(***************************************************************************)
LEMMA FrontOfAppend ==
  ASSUME NEW E, NEW s \in Seq(E), NEW e \in E
  PROVE  /\ Append(s, e) \in Seq(E) /\ Append(s, e) # <<>>
         /\ Front(Append(s, e)) = s /\ Last(Append(s, e)) = e
<1> DEFINE a == Append(s, e)
<1>1. /\ a \in Seq(E) /\ a # <<>> /\ Len(a) = Len(s) + 1 /\ Len(s) \in Nat
      /\ \A i \in 1 .. Len(s) : a[i] = s[i]
      /\ a[Len(s) + 1] = e
  BY AppendProperties, LenProperties
<1> HIDE DEF a
<1>2. Last(a) = e
  BY <1>1 DEF Last
<1>3. /\ SubSeq(a, 1, Len(s)) \in Seq(E)
      /\ Len(SubSeq(a, 1, Len(s))) = Len(s)
      /\ \A i \in 1 .. Len(s) : SubSeq(a, 1, Len(s))[i] = s[i]
  <2>1. \A i \in 1 .. Len(s) : a[i] \in E
    BY <1>1
  <2> DEFINE m == Len(s)
  <2>2. m \in Int /\ 1 \in Int
    BY <1>1
  <2> HIDE DEF m
  <2>3. \A i \in 1 .. m : a[i] \in E
    BY <2>1 DEF m
  <2>4. SubSeq(a, 1, m) \in Seq(E)
    BY <2>2, <2>3, SubSeqProperties
  <2>5. Len(SubSeq(a, 1, m)) = IF 1 <= m THEN m - 1 + 1 ELSE 0
    BY <2>2, <2>3, SubSeqProperties
  <2>6. \A i \in 1 .. m - 1 + 1 : SubSeq(a, 1, m)[i] = a[1 + i - 1]
    BY <2>2, <2>3, SubSeqProperties
  <2> QED BY <1>1, <2>4, <2>5, <2>6 DEF m
<1>4. SubSeq(a, 1, Len(s)) = s
  <2> DEFINE q == SubSeq(a, 1, Len(s))
  <2>1. q \in Seq(E) /\ Len(q) = Len(s) /\ \A i \in 1 .. Len(q) : q[i] = s[i]
    BY <1>3
  <2> HIDE DEF q
  <2>2. q = s
    BY <2>1, SeqEqual
  <2> QED BY <2>2 DEF q
<1>5. Front(a) = s
  BY <1>1, <1>4 DEF Front
<1> QED BY <1>1, <1>2, <1>5 DEF a

\* The prefixes of a path: each is the one before it and a name more.
LEMMA PrefixParts ==
  ASSUME NEW E, NEW s \in Seq(E), NEW m \in 0 .. Len(s)
  PROVE  /\ SubSeq(s, 1, m) \in Seq(E)
         /\ Len(SubSeq(s, 1, m)) = m
         /\ \A i \in 1 .. m : SubSeq(s, 1, m)[i] = s[i]
<1>1. Len(s) \in Nat /\ \A i \in 1 .. m : s[i] \in E
  OBVIOUS
<1>2. SubSeq(s, 1, m) \in Seq(E)
  BY <1>1, SubSeqProperties
<1>3. Len(SubSeq(s, 1, m)) = IF 1 <= m THEN m - 1 + 1 ELSE 0
  BY <1>1, SubSeqProperties
<1>4. \A i \in 1 .. m - 1 + 1 : SubSeq(s, 1, m)[i] = s[1 + i - 1]
  BY <1>1, SubSeqProperties
<1> QED BY <1>1, <1>2, <1>3, <1>4

LEMMA PrefixGrows ==
  ASSUME NEW E, NEW s \in Seq(E), NEW m \in 0 .. Len(s) - 1
  PROVE  Append(SubSeq(s, 1, m), s[m + 1]) = SubSeq(s, 1, m + 1)
<1> DEFINE a == SubSeq(s, 1, m)
           b == SubSeq(s, 1, m + 1)
<1>0. Len(s) \in Nat /\ m \in 0 .. Len(s) /\ m + 1 \in 0 .. Len(s)
  OBVIOUS
<1>1. a \in Seq(E) /\ Len(a) = m /\ \A i \in 1 .. m : a[i] = s[i]
  BY <1>0, PrefixParts
<1>2. /\ b \in Seq(E) /\ Len(b) = m + 1
      /\ \A i \in 1 .. m + 1 : b[i] = s[i]
  <2> DEFINE n == m + 1
  <2>1. n \in 0 .. Len(s)
    BY <1>0
  <2> HIDE DEF n
  <2>2. /\ SubSeq(s, 1, n) \in Seq(E) /\ Len(SubSeq(s, 1, n)) = n
        /\ \A i \in 1 .. n : SubSeq(s, 1, n)[i] = s[i]
    BY <2>1, PrefixParts
  <2> QED BY <2>2 DEF n
<1> HIDE DEF a, b
<1>3. s[m + 1] \in E
  BY <1>0
<1>4. /\ Append(a, s[m + 1]) \in Seq(E) /\ Len(Append(a, s[m + 1])) = m + 1
      /\ \A i \in 1 .. m : Append(a, s[m + 1])[i] = a[i]
      /\ Append(a, s[m + 1])[m + 1] = s[m + 1]
  BY <1>1, <1>3, AppendProperties
<1> DEFINE c == Append(a, s[m + 1])
<1>5. c \in Seq(E) /\ Len(c) = m + 1 /\ \A i \in 1 .. m + 1 : c[i] = b[i]
  BY <1>0, <1>1, <1>2, <1>4
<1> HIDE DEF c
<1>6. c = b
  BY <1>2, <1>5, SeqEqual
<1> QED BY <1>6 DEF a, b, c

(***************************************************************************)
(* An edit that keeps the folders and what each of them lists, in whatever *)
(* order, keeps the tree.                                                  *)
(***************************************************************************)
SameListing(a, b) == KeepsEntries(a, b) /\ KeepsEntries(b, a)

LEMMA SameShape ==
  ASSUME NEW t, IsTree(t), NEW u, DOMAIN u = DOMAIN t,
         \A p \in DOMAIN t : u[p] \in Folders,
         \A p \in DOMAIN t : SameListing(t[p].folders, u[p].folders)
  PROVE  IsTree(u)
<1>1. ASSUME NEW p \in DOMAIN t
      PROVE  /\ DOMAIN t[p].folders = 1 .. Len(t[p].folders)
             /\ DOMAIN u[p].folders = 1 .. Len(u[p].folders)
  BY FolderParts DEF Folders
<1>2. <<>> \in DOMAIN u
  BY DEF IsTree
<1>3. ASSUME NEW p \in DOMAIN u
      PROVE  p \in Seq(Names) /\ u[p] \in Folders
  BY <1>3 DEF IsTree
<1>4. ASSUME NEW p \in DOMAIN u, NEW i \in DOMAIN u[p].folders
      PROVE  Append(p, u[p].folders[i].name) \in DOMAIN u
  <2>0. /\ p \in DOMAIN t /\ i \in 1 .. Len(u[p].folders)
        /\ DOMAIN t[p].folders = 1 .. Len(t[p].folders)
    BY <1>1
  <2>1. PICK j \in DOMAIN t[p].folders : u[p].folders[i] = t[p].folders[j]
    BY <2>0 DEF SameListing, KeepsEntries
  <2>2. Append(p, t[p].folders[j].name) \in DOMAIN t
    BY DEF IsTree
  <2> QED BY <2>1, <2>2
<1>5. ASSUME NEW p \in DOMAIN u, p # <<>>
      PROVE  /\ Front(p) \in DOMAIN u
             /\ \E i \in DOMAIN u[Front(p)].folders :
                  u[Front(p)].folders[i].name = Last(p)
  <2>1. Front(p) \in DOMAIN t
    BY <1>5 DEF IsTree
  <2>2. PICK j \in DOMAIN t[Front(p)].folders : t[Front(p)].folders[j].name = Last(p)
    BY <1>5 DEF IsTree
  <2>3. PICK i \in DOMAIN u[Front(p)].folders : u[Front(p)].folders[i] = t[Front(p)].folders[j]
    <3>1. KeepsEntries(t[Front(p)].folders, u[Front(p)].folders)
      BY <2>1 DEF SameListing
    <3>2. /\ DOMAIN t[Front(p)].folders = 1 .. Len(t[Front(p)].folders)
          /\ DOMAIN u[Front(p)].folders = 1 .. Len(u[Front(p)].folders)
      BY <1>1, <2>1
    <3> DEFINE a == t[Front(p)].folders
               b == u[Front(p)].folders
    <3>3. /\ KeepsEntries(a, b) /\ j \in DOMAIN a
          /\ DOMAIN a = 1 .. Len(a) /\ DOMAIN b = 1 .. Len(b)
      BY <3>1, <3>2
    <3> HIDE DEF a, b
    <3>4. \E i \in DOMAIN b : b[i] = a[j]
      BY <3>3 DEF KeepsEntries
    <3> QED BY <3>4 DEF a, b
  <2> QED BY <2>1, <2>2, <2>3
<1> QED BY <1>2, <1>3, <1>4, <1>5 DEF IsTree

(***************************************************************************)
(* Depth and Descend.                                                      *)
(***************************************************************************)
LEMMA DepthStops ==
  ASSUME NEW t, IsTree(t), NEW dirs \in Seq(Names)
  PROVE  /\ Depth(t, dirs) \in 0 .. Len(dirs)
         /\ \A m \in 0 .. Depth(t, dirs) : SubSeq(dirs, 1, m) \in DOMAIN t
         /\ Depth(t, dirs) < Len(dirs) =>
              SubSeq(dirs, 1, Depth(t, dirs) + 1) \notin DOMAIN t
<1> DEFINE Ends(n) == n < Len(dirs) => SubSeq(dirs, 1, n + 1) \notin DOMAIN t
           S == {n \in 0 .. Len(dirs) : Ends(n)}
           Good(n) == /\ \A m \in 0 .. n : SubSeq(dirs, 1, m) \in DOMAIN t
                      /\ Ends(n)
<1>1. Len(dirs) \in Nat
  OBVIOUS
<1>2. PICK n \in S : \A m \in S : n <= m
  <2>1. Len(dirs) \in S
    BY <1>1
  <2>2. S \subseteq Nat
    BY <1>1
  <2> HIDE DEF S
  <2> QED BY <2>1, <2>2, LeastNatural
<1>3. ASSUME NEW m \in 0 .. n
      PROVE  SubSeq(dirs, 1, m) \in DOMAIN t
  <2>1. CASE m = 0
    <3>1. SubSeq(dirs, 1, 0) = <<>>
      BY SubSeqEmpty
    <3> QED BY <2>1, <3>1 DEF IsTree
  <2>2. CASE m # 0
    <3>1. m - 1 \in 0 .. Len(dirs) /\ m - 1 < n /\ m - 1 < Len(dirs) /\ (m - 1) + 1 = m
      BY <1>1, <1>2, <2>2
    <3>2. m - 1 \notin S
      BY <1>1, <1>2, <3>1
    <3>3. ~ Ends(m - 1)
      BY <3>1, <3>2
    <3> QED BY <3>1, <3>3
  <2> QED BY <2>1, <2>2
<1>4. n \in 0 .. Len(dirs) /\ Good(n)
  BY <1>2, <1>3
<1>5. Depth(t, dirs) = CHOOSE k \in 0 .. Len(dirs) : Good(k)
  BY DEF Depth
<1> HIDE DEF Good
<1>6. Depth(t, dirs) \in 0 .. Len(dirs) /\ Good(Depth(t, dirs))
  BY <1>4, <1>5
<1> QED BY <1>6 DEF Good

\* Nothing below a missing folder exists.
LEMMA MissingBelow ==
  ASSUME NEW t, IsTree(t), NEW dirs \in Seq(Names),
         NEW m \in Depth(t, dirs) + 1 .. Len(dirs)
  PROVE  SubSeq(dirs, 1, m) \notin DOMAIN t
<1> DEFINE n == Depth(t, dirs)
           S == {k \in n + 1 .. Len(dirs) : SubSeq(dirs, 1, k) \in DOMAIN t}
<1>1. Len(dirs) \in Nat /\ n \in 0 .. Len(dirs)
      /\ (n < Len(dirs) => SubSeq(dirs, 1, n + 1) \notin DOMAIN t)
  BY DepthStops
<1> HIDE DEF n
<1> SUFFICES ASSUME SubSeq(dirs, 1, m) \in DOMAIN t
             PROVE  FALSE
  OBVIOUS
<1>2. m \in n + 1 .. Len(dirs)
  BY DEF n
<1>3. PICK k \in S : \A j \in S : k <= j
  <2>1. S # {}
    BY <1>2
  <2>2. S \subseteq Nat
    BY <1>1
  <2> HIDE DEF S
  <2> QED BY <2>1, <2>2, LeastNatural
<1>4. k # n + 1 /\ k - 1 \in n + 1 .. Len(dirs) /\ k - 1 \in 0 .. Len(dirs) - 1
      /\ (k - 1) + 1 = k
  BY <1>1, <1>3
<1>5. SubSeq(dirs, 1, k - 1) \notin DOMAIN t
  BY <1>1, <1>3, <1>4
<1>6. Front(SubSeq(dirs, 1, k)) = SubSeq(dirs, 1, k - 1) /\ SubSeq(dirs, 1, k) # <<>>
  <2> DEFINE j == k - 1
             a == SubSeq(dirs, 1, j)
  <2>1. j \in 0 .. Len(dirs) - 1 /\ j \in 0 .. Len(dirs) /\ j + 1 = k /\ dirs[j + 1] \in Names
    BY <1>1, <1>4
  <2> HIDE DEF j
  <2>2. Append(a, dirs[j + 1]) = SubSeq(dirs, 1, j + 1)
    BY <2>1, PrefixGrows
  <2>3. a \in Seq(Names)
    BY <2>1, PrefixParts
  <2> HIDE DEF a
  <2>4. Front(Append(a, dirs[j + 1])) = a /\ Append(a, dirs[j + 1]) # <<>>
    BY <2>1, <2>3, FrontOfAppend
  <2> QED BY <2>1, <2>2, <2>4 DEF a, j
<1>7. SubSeq(dirs, 1, k) \in DOMAIN t
  BY <1>3
<1> QED BY <1>5, <1>6, <1>7 DEF IsTree

LEMMA ShortTables ==
  ASSUME NEW e, e.name \in Names
  PROVE  /\ Sorted(<<>>) /\ UniquelyNamed(<<>>) /\ AllLower(<<>>)
         /\ Sorted(<<e>>) /\ UniquelyNamed(<<e>>)
         /\ IsLower(e.name) => AllLower(<<e>>)
<1>1. e.name.key \in Nat
  BY KeysAssumption DEF Names
<1>2. DOMAIN <<e>> = {1} /\ <<e>>[1] = e
  OBVIOUS
<1> DEFINE s == <<e>>
<1>3. DOMAIN s = {1} /\ s[1] = e
  BY <1>2
<1> HIDE DEF s
<1>4. Sorted(s) /\ UniquelyNamed(s) /\ (IsLower(e.name) => AllLower(s))
  BY <1>1, <1>3 DEF Sorted, UniquelyNamed, AllLower
<1>5. Sorted(<<>>) /\ UniquelyNamed(<<>>) /\ AllLower(<<>>)
  BY DEF Sorted, UniquelyNamed, AllLower
<1> QED BY <1>4, <1>5 DEF s

\* The tables of folders alone.
FoldersSorted(t) == \A p \in DOMAIN t : Sorted(t[p].folders)
FoldersKept(t)   == \A p \in DOMAIN t : TableKept(t[p].folders)

\* Tree u is tree t and maybe more folders, without files.
OnlyFoldersAdded(t, u) ==
  /\ DOMAIN t \subseteq DOMAIN u
  /\ \A p \in DOMAIN t : u[p].files = t[p].files
  /\ \A p \in DOMAIN u \ DOMAIN t : u[p].files = <<>>

\* descend leaves a tree in which the folder it was asked for exists, whatever
\* the tables are; sorted tables of folders stay so, and those with unique
\* lowercase names, since the path is lowercase.  It touches no file.
LEMMA DescendFolders ==
  ASSUME NEW t, IsTree(t), NEW dirs \in Seq(Names),
         \A i \in 1 .. Len(dirs) : IsLower(dirs[i]),
         NEW u \in Descend(t, dirs)
  PROVE  /\ IsTree(u) /\ dirs \in DOMAIN u
         /\ OnlyFoldersAdded(t, u)
         /\ FoldersSorted(t) => FoldersSorted(u)
         /\ FoldersKept(t) => FoldersKept(u)
<1> DEFINE n == Depth(t, dirs)
           P(m) == SubSeq(dirs, 1, m)
           Child(m) == [name |-> dirs[m]]
           missing == {P(m) : m \in n + 1 .. Len(dirs)}
           Fresh(p) == [folders |-> IF p = dirs THEN <<>> ELSE <<Child(Len(p) + 1)>>,
                        files   |-> <<>>]
<1>1. /\ Len(dirs) \in Nat /\ n \in 0 .. Len(dirs)
      /\ P(n) \in DOMAIN t
      /\ n < Len(dirs) => P(n + 1) \notin DOMAIN t
  BY DepthStops
<1>2. P(Len(dirs)) = dirs
  BY SubSeqFull
<1>3. CASE missing = {}
  <2>1. u = t
    BY <1>3 DEF Descend
  <2>2. n = Len(dirs)
    BY <1>1, <1>3
  <2> QED BY <1>1, <1>2, <2>1, <2>2 DEF OnlyFoldersAdded
<1>4. CASE missing # {}
  <2> DEFINE table == t[P(n)].folders
  <2>1. PICK at \in PartitionPoints(table, dirs[n + 1].key) :
          u = [p \in DOMAIN t \cup missing |->
                 IF p \in missing THEN Fresh(p)
                 ELSE IF p = P(n)
                      THEN [t[p] EXCEPT !.folders = InsertAt(@, at + 1, Child(n + 1))]
                      ELSE t[p]]
    BY <1>4 DEF Descend
  <2>2. n + 1 \in 1 .. Len(dirs) /\ n \in 0 .. Len(dirs) - 1 /\ n \in Nat
    BY <1>1, <1>4
  <2>3. \A m \in 1 .. Len(dirs) :
          /\ dirs[m] \in Names /\ Child(m) \in ChildEntries /\ Child(m).name = dirs[m]
          /\ IsLower(dirs[m])
    BY DEF ChildEntries
  <2>4. missing \cap DOMAIN t = {}
    BY MissingBelow
  <2>5. \A m \in 0 .. Len(dirs) : P(m) \in Seq(Names) /\ Len(P(m)) = m
    BY PrefixParts
  <2>6. \A m \in 0 .. Len(dirs) - 1 : Append(P(m), dirs[m + 1]) = P(m + 1)
    BY PrefixGrows
  <2>7. ASSUME NEW m \in n + 1 .. Len(dirs)
        PROVE  P(m) # <<>> /\ Front(P(m)) = P(m - 1) /\ Last(P(m)) = dirs[m]
    <3> DEFINE j == m - 1
    <3>1. j \in 0 .. Len(dirs) - 1 /\ j \in 0 .. Len(dirs) /\ j + 1 = m /\ dirs[m] \in Names
      BY <1>1, <2>2
    <3> HIDE DEF j, P
    <3>2. Append(P(j), dirs[m]) = P(m) /\ P(j) \in Seq(Names)
      BY <2>5, <2>6, <3>1
    <3>3. /\ Append(P(j), dirs[m]) # <<>>
          /\ Front(Append(P(j), dirs[m])) = P(j) /\ Last(Append(P(j), dirs[m])) = dirs[m]
      BY <3>1, <3>2, FrontOfAppend
    <3> QED BY <3>2, <3>3 DEF j
  <2>8. /\ table \in Seq(ChildEntries) /\ t[P(n)].files \in Seq(Files)
        /\ DOMAIN table = 1 .. Len(table)
        /\ t[P(n)] = [folders |-> table, files |-> t[P(n)].files]
    BY <1>1, FolderParts
  <2> DEFINE c == Child(n + 1)
             grown == InsertAt(table, at + 1, c)
  <2>9. c \in ChildEntries /\ c.name = dirs[n + 1] /\ at \in PartitionPoints(table, c.name.key)
        /\ IsLower(c.name)
    BY <2>1, <2>2, <2>3
  <2>10. /\ DOMAIN u = DOMAIN t \cup missing
         /\ \A p \in missing : u[p] = Fresh(p)
         /\ u[P(n)] = [folders |-> grown, files |-> t[P(n)].files]
         /\ \A p \in DOMAIN t : p # P(n) => u[p] = t[p]
    <3> HIDE DEF missing, Fresh, P, Child, n, table
    <3>1. P(n) \notin missing
      BY <1>1, <2>4
    <3>2. [t[P(n)] EXCEPT !.folders = InsertAt(@, at + 1, Child(n + 1))]
            = [folders |-> grown, files |-> t[P(n)].files]
      BY <2>8 DEF table
    <3> QED BY <1>1, <2>1, <2>4, <3>1, <3>2
  <2>11. \A m \in n + 1 .. Len(dirs) :
           /\ P(m) \in missing
           /\ u[P(m)] = [folders |-> IF m = Len(dirs) THEN <<>> ELSE <<Child(m + 1)>>,
                         files   |-> <<>>]
    <3> TAKE m \in n + 1 .. Len(dirs)
    <3>1. P(m) \in missing
      OBVIOUS
    <3>2. Len(P(m)) = m /\ (P(m) = dirs <=> m = Len(dirs))
      <4>1. m \in 0 .. Len(dirs)
        BY <2>2
      <4> HIDE DEF P, n
      <4>2. Len(P(m)) = m
        BY <2>5, <4>1
      <4> QED BY <1>2, <4>2
    <3> HIDE DEF missing, P, Child
    <3> QED BY <2>10, <3>1, <3>2
  <2>12. grown \in Seq(ChildEntries)
    <3> HIDE DEF c, table, P
    <3> QED BY <2>8, <2>9, InsertKeeps, TablesAreNamed
  <2>13. ASSUME Sorted(table) PROVE Sorted(grown)
    <3> HIDE DEF c, table, P
    <3> QED BY <2>8, <2>9, <2>13, InsertKeeps, TablesAreNamed
  <2>14. \A i \in 1 .. Len(table) : \E j \in 1 .. Len(grown) : grown[j] = table[i]
    <3> HIDE DEF c, table, P
    <3>1. KeepsEntries(table, grown)
      BY <2>8, <2>9, InsertKeeps, TablesAreNamed
    <3> QED BY <3>1 DEF KeepsEntries
  <2>15. \E j \in 1 .. Len(grown) : grown[j] = c
    <3> HIDE DEF c, table, P
    <3>1. HasEntry(grown, c)
      BY <2>8, <2>9, InsertKeeps, TablesAreNamed
    <3> QED BY <3>1 DEF HasEntry
  <2>16. \A j \in 1 .. Len(grown) :
           grown[j] = c \/ \E i \in 1 .. Len(table) : grown[j] = table[i]
    <3> HIDE DEF c, table, P
    <3> QED BY <2>8, <2>9, InsertKeeps, TablesAreNamed
  <2>17. ASSUME UniquelyNamed(table),
                \A i \in 1 .. Len(table) : table[i].name.key # c.name.key
         PROVE  UniquelyNamed(grown)
    <3> HIDE DEF c, table, P
    <3> QED BY <2>8, <2>9, <2>17, InsertKeeps, TablesAreNamed
  <2>18. ASSUME AllLower(table) PROVE AllLower(grown)
    <3> HIDE DEF c, table, P
    <3> QED BY <2>8, <2>9, <2>18, InsertKeeps, TablesAreNamed
  <2>19. DOMAIN grown = 1 .. Len(grown)
    <3> HIDE DEF grown
    <3> QED BY <2>12
  <2>20. \A m \in n + 1 .. Len(dirs) :
           /\ m # Len(dirs) =>
                /\ DOMAIN u[P(m)].folders = {1} /\ u[P(m)].folders[1] = Child(m + 1)
                /\ u[P(m)].folders = <<Child(m + 1)>>
           /\ m = Len(dirs) => u[P(m)].folders = <<>>
           /\ u[P(m)].files = <<>>
           /\ u[P(m)] \in Folders
    <3> TAKE m \in n + 1 .. Len(dirs)
    <3>1. u[P(m)] = [folders |-> IF m = Len(dirs) THEN <<>> ELSE <<Child(m + 1)>>,
                     files   |-> <<>>]
      BY <2>11
    <3>2. m # Len(dirs) => Child(m + 1) \in ChildEntries
      BY <2>2, <2>3
    <3> HIDE DEF P, Child, n
    <3>3. u[P(m)].folders \in Seq(ChildEntries) /\ u[P(m)].files \in Seq(Files)
      <4>1. m = Len(dirs) => u[P(m)].folders = <<>>
        BY <3>1
      <4>2. m # Len(dirs) => u[P(m)].folders = <<Child(m + 1)>>
        BY <3>1
      <4>3. u[P(m)].files = <<>>
        BY <3>1
      <4>4. m # Len(dirs) => <<Child(m + 1)>> \in Seq(ChildEntries)
        BY <3>2
      <4>5. <<>> \in Seq(ChildEntries) /\ <<>> \in Seq(Files)
        OBVIOUS
      <4>6. u[P(m)].files \in Seq(Files)
        BY <4>3, <4>5
      <4>7. u[P(m)].folders \in Seq(ChildEntries)
        <5>1. CASE m = Len(dirs)
          BY <4>1, <4>5, <5>1
        <5>2. CASE m # Len(dirs)
          BY <4>2, <4>4, <5>2
        <5> QED BY <5>1, <5>2
      <4> QED BY <4>6, <4>7
    <3>4. u[P(m)] \in Folders
      BY <3>1, <3>3 DEF Folders, ChildEntries
    <3>5. DOMAIN <<Child(m + 1)>> = {1} /\ <<Child(m + 1)>>[1] = Child(m + 1)
      OBVIOUS
    <3>6. m # Len(dirs) => /\ DOMAIN u[P(m)].folders = {1}
                           /\ u[P(m)].folders[1] = Child(m + 1)
                           /\ u[P(m)].folders = <<Child(m + 1)>>
      BY <3>1, <3>5
    <3>7. (m = Len(dirs) => u[P(m)].folders = <<>>) /\ u[P(m)].files = <<>>
      BY <3>1
    <3> QED BY <3>4, <3>6, <3>7
  <2> HIDE DEF grown, c
  <2>21. IsTree(u)
    <3>1. <<>> \in DOMAIN u
      BY <2>10 DEF IsTree
    <3>2. ASSUME NEW p \in DOMAIN u
          PROVE  p \in Seq(Names) /\ u[p] \in Folders
      <4>1. CASE p \in missing
        <5>1. PICK m \in n + 1 .. Len(dirs) : p = P(m)
          BY <4>1
        <5>2. m \in 0 .. Len(dirs)
          BY <2>2
        <5> HIDE DEF P, n, missing, Child
        <5> QED BY <2>5, <2>20, <5>1, <5>2
      <4>2. CASE p = P(n)
        <5> HIDE DEF P, n, missing, Child
        <5>1. u[p] \in Folders
          BY <2>8, <2>10, <2>12, <4>2 DEF Folders, ChildEntries
        <5>2. n \in 0 .. Len(dirs)
          BY <2>2
        <5> QED BY <2>5, <4>2, <5>1, <5>2
      <4>3. CASE p \in DOMAIN t /\ p # P(n)
        <5> HIDE DEF P, n, missing, Child
        <5> QED BY <2>10, <4>3 DEF IsTree
      <4> HIDE DEF P, n, missing, Child
      <4> QED BY <2>10, <3>2, <4>1, <4>2, <4>3
    <3>3. ASSUME NEW p \in DOMAIN u, NEW i \in DOMAIN u[p].folders
          PROVE  Append(p, u[p].folders[i].name) \in DOMAIN u
      <4>1. CASE p \in missing
        <5>1. PICK m \in n + 1 .. Len(dirs) : p = P(m)
          BY <4>1
        <5>2. m # Len(dirs)
          <6> HIDE DEF P, Child
          <6>1. m = Len(dirs) => DOMAIN u[p].folders = {}
            BY <2>20, <5>1
          <6> QED BY <3>3, <6>1
        <5>3. m \in 0 .. Len(dirs) - 1 /\ m + 1 \in n + 1 .. Len(dirs) /\ m + 1 \in 1 .. Len(dirs)
          BY <2>2, <5>2
        <5>4. u[p].folders[i].name = dirs[m + 1]
          <6> HIDE DEF P, Child
          <6> QED BY <2>3, <2>20, <3>3, <5>1, <5>2, <5>3
        <5> HIDE DEF P, Child
        <5> QED BY <2>6, <2>10, <2>11, <5>1, <5>3, <5>4
      <4>2. CASE p = P(n)
        <5>1. CASE u[p].folders[i] = c
          <6>1. n + 1 \in n + 1 .. Len(dirs)
            BY <2>2
          <6> HIDE DEF P, n, missing, Child
          <6>2. Append(p, c.name) = P(n + 1)
            BY <2>2, <2>6, <2>9, <4>2
          <6> QED BY <2>10, <2>11, <5>1, <6>1, <6>2
        <5>2. CASE u[p].folders[i] # c
          <6> HIDE DEF P, n, missing, Child
          <6>1. PICK j \in 1 .. Len(table) : u[p].folders[i] = table[j]
            BY <2>10, <2>16, <2>19, <3>3, <4>2, <5>2
          <6>2. Append(p, table[j].name) \in DOMAIN t
            BY <1>1, <2>8, <4>2 DEF IsTree
          <6> QED BY <2>10, <6>1, <6>2
        <5> QED BY <5>1, <5>2
      <4>3. CASE p \in DOMAIN t /\ p # P(n)
        <5> HIDE DEF P, n, missing, Child
        <5> QED BY <2>10, <3>3, <4>3 DEF IsTree
      <4> HIDE DEF P, n, missing, Child
      <4> QED BY <2>10, <3>3, <4>1, <4>2, <4>3
    <3>4. ASSUME NEW p \in DOMAIN u, p # <<>>
          PROVE  /\ Front(p) \in DOMAIN u
                 /\ \E i \in DOMAIN u[Front(p)].folders :
                      u[Front(p)].folders[i].name = Last(p)
      <4>1. CASE p \in missing
        <5>1. PICK m \in n + 1 .. Len(dirs) : p = P(m)
          BY <4>1
        <5>2. Front(p) = P(m - 1) /\ Last(p) = dirs[m]
          <6> HIDE DEF P, Child
          <6> QED BY <2>7, <5>1
        <5>3. CASE m = n + 1
          <6>1. m - 1 = n
            BY <2>2, <5>3
          <6> HIDE DEF P, n, missing, Child
          <6>2. PICK j \in 1 .. Len(grown) : grown[j] = c
            BY <2>15
          <6> QED BY <1>1, <2>9, <2>10, <2>19, <5>2, <5>3, <6>1, <6>2
        <5>4. CASE m # n + 1
          <6>1. m - 1 \in n + 1 .. Len(dirs) /\ m - 1 # Len(dirs) /\ (m - 1) + 1 = m
                /\ m \in 1 .. Len(dirs)
            BY <2>2, <5>4
          <6> HIDE DEF P, n, missing, Child
          <6>2. /\ DOMAIN u[P(m - 1)].folders = {1}
                /\ u[P(m - 1)].folders[1] = Child(m)
                /\ P(m - 1) \in DOMAIN u
            BY <2>10, <2>11, <2>20, <6>1
          <6> QED BY <2>3, <5>2, <6>1, <6>2
        <5> QED BY <5>3, <5>4
      <4>2. CASE p \in DOMAIN t
        <5>1. PICK k \in DOMAIN t[Front(p)].folders :
                Front(p) \in DOMAIN t /\ t[Front(p)].folders[k].name = Last(p)
          BY <3>4, <4>2 DEF IsTree
        <5> HIDE DEF P, n, missing, Child
        <5>2. CASE Front(p) = P(n)
          <6>1. PICK j \in 1 .. Len(grown) : grown[j] = t[Front(p)].folders[k]
            BY <2>8, <2>14, <5>1, <5>2
          <6> QED BY <2>10, <2>19, <5>1, <5>2, <6>1
        <5>3. CASE Front(p) # P(n)
          BY <2>10, <5>1, <5>3
        <5> QED BY <5>2, <5>3
      <4> HIDE DEF P, n, missing, Child
      <4> QED BY <2>10, <4>1, <4>2
    <3> QED BY <3>1, <3>2, <3>3, <3>4 DEF IsTree
  <2>22. ASSUME NEW p \in missing
         PROVE  Sorted(u[p].folders) /\ TableKept(u[p].folders) /\ u[p].files = <<>>
    <3>1. PICK m \in n + 1 .. Len(dirs) : p = P(m)
      OBVIOUS
    <3>2. m # Len(dirs) => m + 1 \in 1 .. Len(dirs)
      BY <2>2
    <3> HIDE DEF P, n, missing, Child
    <3>3. CASE m = Len(dirs)
      BY <2>2, <2>3, <2>20, <3>1, <3>3, <2>9, ShortTables DEF TableKept
    <3>4. CASE m # Len(dirs)
      <4>1. /\ u[p].folders = <<Child(m + 1)>> /\ u[p].files = <<>>
            /\ Child(m + 1).name \in Names /\ IsLower(Child(m + 1).name)
        BY <2>3, <2>20, <3>1, <3>2, <3>4
      <4> QED BY <4>1, ShortTables DEF TableKept
    <3> QED BY <3>3, <3>4
  <2>23. ASSUME FoldersSorted(t) PROVE FoldersSorted(u)
    <3> HIDE DEF P, n, missing, Child
    <3> QED BY <2>10, <2>13, <2>22, <2>23, <1>1 DEF FoldersSorted
  <2>24. dirs \in DOMAIN u
    <3>1. Len(dirs) \in n + 1 .. Len(dirs)
      BY <1>1, <2>2
    <3> HIDE DEF P, n, missing, Child
    <3> QED BY <1>2, <2>10, <2>11, <3>1
  <2>25. ASSUME FoldersKept(t) PROVE FoldersKept(u)
    <3>1. Sorted(table) /\ UniquelyNamed(table) /\ AllLower(table)
      BY <1>1, <2>25 DEF FoldersKept, TableKept
    <3>2. ASSUME NEW i \in 1 .. Len(table)
          PROVE  table[i].name.key # c.name.key
      <4> SUFFICES ASSUME table[i].name.key = c.name.key
                   PROVE  FALSE
        OBVIOUS
      <4>1. table[i] \in ChildEntries
        BY <2>8
      <4>2. table[i].name \in Names /\ c.name \in Names /\ IsLower(table[i].name)
        BY <2>8, <2>9, <3>1, <4>1 DEF AllLower, ChildEntries
      <4>3. table[i].name = dirs[n + 1]
        BY <2>9, <4>2, LowerNamesByKey
      <4>4. Append(P(n), table[i].name) \in DOMAIN t
        BY <1>1, <2>8 DEF IsTree
      <4> HIDE DEF P, n, missing, Child, table
      <4>5. Append(P(n), dirs[n + 1]) = P(n + 1)
        BY <2>2, <2>6
      <4>6. P(n + 1) \notin DOMAIN t
        BY <1>1, <2>2
      <4> QED BY <4>3, <4>4, <4>5, <4>6
    <3>3. TableKept(grown)
      BY <2>13, <2>17, <2>18, <3>1, <3>2 DEF TableKept
    <3> HIDE DEF P, n, missing, Child
    <3> QED BY <1>1, <2>10, <2>22, <2>25, <3>3 DEF FoldersKept
  <2>26. OnlyFoldersAdded(t, u)
    <3> HIDE DEF P, n, missing, Child
    <3> QED BY <2>10, <2>22 DEF OnlyFoldersAdded
  <2> QED BY <2>21, <2>23, <2>24, <2>25, <2>26
<1> QED BY <1>3, <1>4

\* A tree with sorted tables of files, too, keeps those; and those with unique
\* lowercase names.
LEMMA DescendKeeps ==
  ASSUME NEW t, IsTree(t), TreeSorted(t), NEW dirs \in Seq(Names),
         \A i \in 1 .. Len(dirs) : IsLower(dirs[i]),
         NEW u \in Descend(t, dirs)
  PROVE  IsTree(u) /\ TreeSorted(u) /\ dirs \in DOMAIN u /\ (Kept(t) => Kept(u))
<1>1. IsTree(u) /\ dirs \in DOMAIN u
  BY DescendFolders
<1>2. OnlyFoldersAdded(t, u)
  BY DescendFolders
<1>3. FoldersSorted(u)
  <2>1. FoldersSorted(t)
    BY DEF FoldersSorted, TreeSorted
  <2> QED BY <2>1, DescendFolders
<1>4. FoldersKept(t) => FoldersKept(u)
  BY DescendFolders
<1>5. Sorted(<<>>) /\ TableKept(<<>>)
  BY DEF Sorted, UniquelyNamed, AllLower, TableKept
<1>6. TreeSorted(u)
  BY <1>2, <1>3, <1>5 DEF OnlyFoldersAdded, FoldersSorted, TreeSorted
<1>7. ASSUME Kept(t) PROVE Kept(u)
  <2>1. FoldersKept(u)
    BY <1>4, <1>7 DEF FoldersKept, Kept
  <2> QED BY <1>2, <1>5, <1>7, <2>1 DEF OnlyFoldersAdded, FoldersKept, Kept
<1> QED BY <1>1, <1>6, <1>7

(***************************************************************************)
(* Edits of the file tables only.                                          *)
(***************************************************************************)
LEMMA FilesReplaced ==
  ASSUME NEW t, IsTree(t), NEW u, DOMAIN u = DOMAIN t,
         \A p \in DOMAIN t :
           /\ u[p] = [folders |-> t[p].folders, files |-> u[p].files]
           /\ u[p].files \in Seq(Files)
  PROVE  IsTree(u) /\ \A p \in DOMAIN t : u[p].folders = t[p].folders
<1>1. ASSUME NEW p \in DOMAIN t
      PROVE  u[p] \in Folders /\ u[p].folders = t[p].folders
  <2>1. u[p].folders = t[p].folders
    <3> DEFINE f == t[p].folders
               g == u[p].files
    <3>1. u[p] = [folders |-> f, files |-> g]
      OBVIOUS
    <3> HIDE DEF f, g
    <3> QED BY <3>1 DEF f
  <2>2. t[p].folders \in Seq(ChildEntries) /\ u[p].files \in Seq(Files)
    BY FolderParts
  <2> QED BY <2>1, <2>2 DEF Folders, ChildEntries
<1>2. ASSUME NEW p \in DOMAIN t
      PROVE  SameListing(t[p].folders, u[p].folders)
  BY <1>1 DEF SameListing, KeepsEntries
<1>3. IsTree(u)
  BY <1>1, <1>2, SameShape
<1> QED BY <1>1, <1>3

LEMMA FilesEdited ==
  ASSUME NEW t, IsTree(t), TreeSorted(t), NEW u, DOMAIN u = DOMAIN t,
         \A p \in DOMAIN t :
           /\ u[p] = [folders |-> t[p].folders, files |-> u[p].files]
           /\ u[p].files \in Seq(Files)
           /\ Sorted(u[p].files)
  PROVE  /\ IsTree(u) /\ TreeSorted(u)
         /\ Kept(t) /\ (\A p \in DOMAIN t : TableKept(u[p].files)) => Kept(u)
<1>1. IsTree(u) /\ \A p \in DOMAIN t : u[p].folders = t[p].folders
  BY FilesReplaced
<1>2. TreeSorted(u)
  BY <1>1 DEF TreeSorted
<1>3. ASSUME Kept(t), \A p \in DOMAIN t : TableKept(u[p].files)
      PROVE  Kept(u)
  BY <1>1, <1>3 DEF Kept
<1> QED BY <1>1, <1>2, <1>3

LEMMA LowerIsLower ==
  ASSUME NEW n \in Names
  PROVE  Lower(n) \in Names /\ IsLower(Lower(n)) /\ Lower(n).key = n.key
BY DEF Names, Lower, IsLower

LEMMA DirsAreLower ==
  ASSUME NEW rel \in Seq(Names) \ {<<>>}
  PROVE  Dirs(rel) \in Seq(Names) /\ \A i \in 1 .. Len(Dirs(rel)) : IsLower(Dirs(rel)[i])
<1> DEFINE n == Len(rel) - 1
           d == [i \in 1 .. n |-> Lower(rel[i])]
<1>1. n \in Nat
  BY EmptySeq
<1>2. \A i \in 1 .. n : Lower(rel[i]) \in Names /\ IsLower(Lower(rel[i]))
  <2>1. \A i \in 1 .. n : rel[i] \in Names
    BY <1>1
  <2> QED BY <2>1, LowerIsLower
<1>3. d \in [1 .. n -> Names] /\ \A i \in 1 .. n : IsLower(d[i])
  <2> HIDE DEF n
  <2> QED BY <1>2
<1>4. Dirs(rel) = d
  BY DEF Dirs
<1> HIDE DEF d, n
<1>5. d \in Seq(Names) /\ Len(d) = n
  <2>1. d \in Seq(Names)
    BY <1>1, <1>3, SeqDef
  <2> QED BY <1>1, <1>3, <2>1, LenProperties
<1> QED BY <1>3, <1>4, <1>5

LEMMA LastIsName ==
  ASSUME NEW rel \in Seq(Names) \ {<<>>}
  PROVE  Last(rel) \in Names
<1>1. Len(rel) \in 1 .. Len(rel)
  BY EmptySeq
<1> QED BY <1>1, ElementOfSeq DEF Last

\* insert_or_replace.
LEMMA InsertInTreeKeeps ==
  ASSUME NEW t, IsTree(t), TreeSorted(t), NEW rel \in Seq(Names) \ {<<>>},
         NEW file \in Files, NEW w \in InsertInTree(t, rel, file)
  PROVE  IsTree(w) /\ TreeSorted(w) /\ (Kept(t) => Kept(w))
<1> DEFINE dirs == Dirs(rel)
           lowered == [file EXCEPT !.name = Lower(@)]
<1>0. PICK u \in Descend(t, dirs) :
        \E table \in InsertOrReplace(u[dirs].files, lowered) :
          w = [u EXCEPT ![dirs].files = table]
  BY DEF InsertInTree
<1>1. PICK table \in InsertOrReplace(u[dirs].files, lowered) :
        u \in Descend(t, dirs) /\ w = [u EXCEPT ![dirs].files = table]
  BY <1>0
<1>2. dirs \in Seq(Names) /\ \A i \in 1 .. Len(dirs) : IsLower(dirs[i])
  BY DirsAreLower
<1>3. lowered \in Files /\ IsLower(lowered.name)
  <2>1. file.name \in Names
    BY DEF Files
  <2>2. Lower(file.name) \in Names /\ IsLower(Lower(file.name))
    BY <2>1, LowerIsLower
  <2>3. lowered \in Files /\ lowered.name = Lower(file.name)
    BY <2>2 DEF Files
  <2> QED BY <2>2, <2>3
<1> HIDE DEF dirs, lowered
<1>4. IsTree(u) /\ TreeSorted(u) /\ dirs \in DOMAIN u /\ (Kept(t) => Kept(u))
  BY <1>1, <1>2, DescendKeeps
<1>5. u[dirs].files \in Seq(Files) /\ Sorted(u[dirs].files)
      /\ u[dirs] = [folders |-> u[dirs].folders, files |-> u[dirs].files]
  BY <1>4, FolderParts DEF TreeSorted
<1>6. table \in Seq(Files)
  BY <1>1, <1>3, <1>5, InsertOrReplaceKeeps, TablesAreNamed
<1>7. Sorted(table)
  BY <1>1, <1>3, <1>5, InsertOrReplaceKeeps, TablesAreNamed
<1>8. ASSUME Kept(u) PROVE TableKept(table)
  <2>1. UniquelyNamed(u[dirs].files) /\ AllLower(u[dirs].files)
    BY <1>4, <1>8 DEF Kept, TableKept
  <2>2. UniquelyNamed(table) /\ AllLower(table)
    BY <1>1, <1>3, <1>5, <2>1, InsertOrReplaceKeeps, TablesAreNamed
  <2> QED BY <1>7, <2>2 DEF TableKept
<1>9. /\ DOMAIN w = DOMAIN u
      /\ w[dirs] = [folders |-> u[dirs].folders, files |-> table]
      /\ \A p \in DOMAIN u : p # dirs => w[p] = u[p]
  BY <1>1, <1>4, <1>5
<1>10. \A p \in DOMAIN u :
         /\ w[p] = [folders |-> u[p].folders, files |-> w[p].files]
         /\ w[p].files \in Seq(Files)
         /\ Sorted(w[p].files)
  <2> TAKE p \in DOMAIN u
  <2>1. CASE p = dirs
    <3>1. w[p].files = table
      BY <1>9, <2>1
    <3> QED BY <1>6, <1>7, <1>9, <2>1, <3>1
  <2>2. CASE p # dirs
    <3>1. u[p] = [folders |-> u[p].folders, files |-> u[p].files]
          /\ u[p].files \in Seq(Files)
      BY <1>4, FolderParts
    <3>2. Sorted(u[p].files) /\ w[p] = u[p]
      BY <1>4, <1>9, <2>2 DEF TreeSorted
    <3> QED BY <3>1, <3>2
  <2> QED BY <2>1, <2>2
<1>11. IsTree(w) /\ TreeSorted(w)
  BY <1>4, <1>9, <1>10, FilesEdited
<1>12. ASSUME Kept(t) PROVE Kept(w)
  <2>1. Kept(u)
    BY <1>4, <1>12
  <2>2. \A p \in DOMAIN u : TableKept(w[p].files)
    <3> TAKE p \in DOMAIN u
    <3>1. CASE p = dirs
      <4>1. w[p].files = table
        BY <1>9, <3>1
      <4> QED BY <1>8, <2>1, <4>1
    <3>2. CASE p # dirs
      BY <1>9, <2>1, <3>2 DEF Kept
    <3> QED BY <3>1, <3>2
  <2> QED BY <1>4, <1>9, <1>10, <2>1, <2>2, FilesEdited
<1> QED BY <1>11, <1>12

\* FoldedPosition is 0 or the place of a file of that folded name.
LEMMA FoldedPositionFound ==
  ASSUME NEW table \in Seq(Files), NEW name \in Names, FoldedPosition(table, name) # 0
  PROVE  /\ FoldedPosition(table, name) \in 1 .. Len(table)
         /\ table[FoldedPosition(table, name)].name.key = name.key
<1> DEFINE I == {i \in 1 .. Len(table) : Lower(table[i].name) = Lower(name)}
<1>1. FoldedPosition(table, name) = IF I # {} THEN Min(I) ELSE 0
  BY DEF FoldedPosition, SelectInSeq
<1>2. I # {}
  <2> HIDE DEF I
  <2> QED BY <1>1
<1>3. Min(I) \in I
  <2>0. I \subseteq Nat
    OBVIOUS
  <2> HIDE DEF I
  <2>1. \E n \in I : \A m \in I : n <= m
    BY <1>2, <2>0, LeastNatural
  <2> QED BY <2>1 DEF Min
<1>4. FoldedPosition(table, name) \in I
  BY <1>1, <1>2, <1>3
<1> DEFINE k == FoldedPosition(table, name)
<1>5. k \in 1 .. Len(table) /\ Lower(table[k].name) = Lower(name)
  BY <1>4
<1> HIDE DEF k
<1>6. table[k].name \in Names
  <2>1. table[k] \in Files
    BY <1>5
  <2> QED BY <2>1 DEF Files
<1>7. table[k].name.key = name.key
  BY <1>5, <1>6, LowerIsLower
<1> QED BY <1>5, <1>7 DEF k

\* upsert_stored on a file found up to case.
LEMMA OverwriteInTreeKeeps ==
  ASSUME NEW t, IsTree(t), TreeSorted(t), NEW rel \in Seq(Names) \ {<<>>},
         NEW file \in Files, file.name = Last(rel),
         Dirs(rel) \in DOMAIN t,
         FoldedPosition(t[Dirs(rel)].files, Last(rel)) # 0
  PROVE  /\ IsTree(Overwrite(t, rel, file)) /\ TreeSorted(Overwrite(t, rel, file))
         /\ Kept(t) /\ IsLower(Last(rel)) => Kept(Overwrite(t, rel, file))
<1> DEFINE dirs == Dirs(rel)
           old == t[dirs].files
           k == FoldedPosition(old, Last(rel))
           new == [old EXCEPT ![k] = file]
           w == Overwrite(t, rel, file)
<1>1. /\ dirs \in DOMAIN t /\ old \in Seq(Files) /\ Sorted(old)
      /\ t[dirs] = [folders |-> t[dirs].folders, files |-> old]
  BY FolderParts DEF TreeSorted
<1>2. Last(rel) \in Names
  BY LastIsName
<1>3. k \in 1 .. Len(old) /\ file.name.key = old[k].name.key
  <2> HIDE DEF old
  <2>1. k # 0
    BY DEF old
  <2> QED BY <1>1, <1>2, <2>1, FoldedPositionFound
<1>4. w = [t EXCEPT ![dirs].files = new]
  BY DEF Overwrite
<1> HIDE DEF dirs, old, k, w
<1>5. new \in Seq(Files)
  BY <1>1, <1>3, OverwriteKeeps, TablesAreNamed
<1>6. Sorted(new)
  BY <1>1, <1>3, OverwriteKeeps, TablesAreNamed
<1>7. ASSUME Kept(t), IsLower(Last(rel)) PROVE TableKept(new)
  <2>1. UniquelyNamed(old) /\ AllLower(old)
    BY <1>1, <1>7 DEF Kept, TableKept, old
  <2>2. UniquelyNamed(new)
    BY <1>1, <1>3, <2>1, OverwriteKeeps, TablesAreNamed
  <2>3. AllLower(new)
    BY <1>1, <1>3, <1>7, <2>1, OverwriteKeeps, TablesAreNamed
  <2> QED BY <1>6, <2>2, <2>3 DEF TableKept
<1> HIDE DEF new
<1>8. /\ DOMAIN w = DOMAIN t
      /\ w[dirs] = [folders |-> t[dirs].folders, files |-> new]
      /\ \A p \in DOMAIN t : p # dirs => w[p] = t[p]
  BY <1>1, <1>4
<1>9. \A p \in DOMAIN t :
        /\ w[p] = [folders |-> t[p].folders, files |-> w[p].files]
        /\ w[p].files \in Seq(Files)
        /\ Sorted(w[p].files)
  <2> TAKE p \in DOMAIN t
  <2>1. CASE p = dirs
    <3>1. w[p].files = new
      BY <1>8, <2>1
    <3> QED BY <1>5, <1>6, <1>8, <2>1, <3>1
  <2>2. CASE p # dirs
    <3>1. t[p] = [folders |-> t[p].folders, files |-> t[p].files]
          /\ t[p].files \in Seq(Files)
      BY FolderParts
    <3>2. Sorted(t[p].files) /\ w[p] = t[p]
      BY <1>8, <2>2 DEF TreeSorted
    <3> QED BY <3>1, <3>2
  <2> QED BY <2>1, <2>2
<1>10. IsTree(w) /\ TreeSorted(w)
  BY <1>8, <1>9, FilesEdited
<1>11. ASSUME Kept(t), IsLower(Last(rel)) PROVE Kept(w)
  <2>1. \A p \in DOMAIN t : TableKept(w[p].files)
    <3> TAKE p \in DOMAIN t
    <3>1. CASE p = dirs
      <4>1. w[p].files = new
        BY <1>8, <3>1
      <4> QED BY <1>7, <1>11, <4>1
    <3>2. CASE p # dirs
      BY <1>8, <1>11, <3>2 DEF Kept
    <3> QED BY <3>1, <3>2
  <2> QED BY <1>8, <1>9, <1>11, <2>1, FilesEdited
<1> QED BY <1>10, <1>11 DEF w

\* remove_files_where.
LEMMA RemoveInTreeKeeps ==
  ASSUME NEW t, IsTree(t), TreeSorted(t), NEW K
  PROVE  /\ IsTree(RemoveFrom(t, K)) /\ TreeSorted(RemoveFrom(t, K))
         /\ Kept(t) => Kept(RemoveFrom(t, K))
<1> DEFINE w == RemoveFrom(t, K)
           Left(p) == {i \in DOMAIN t[p].files : t[p].files[i].name.key \notin K}
<1>1. DOMAIN w = DOMAIN t
  BY DEF RemoveFrom
<1>2. ASSUME NEW p \in DOMAIN t
      PROVE  /\ w[p] = [folders |-> t[p].folders, files |-> Retain(t[p].files, Left(p))]
             /\ w[p].files = Retain(t[p].files, Left(p))
  <2>1. t[p] = [folders |-> t[p].folders, files |-> t[p].files]
    BY FolderParts
  <2>2. w[p] = [t[p] EXCEPT !.files = Retain(t[p].files, Left(p))]
    BY DEF RemoveFrom
  <2> DEFINE r == Retain(t[p].files, Left(p))
  <2>3. w[p] = [t[p] EXCEPT !.files = r]
    BY <2>2
  <2> HIDE DEF Left, w, r
  <2>4. w[p] = [folders |-> t[p].folders, files |-> r] /\ w[p].files = r
    BY <2>1, <2>3
  <2> QED BY <2>4 DEF r
<1>3. ASSUME NEW p \in DOMAIN t
      PROVE  /\ t[p].files \in Seq(Files) /\ Sorted(t[p].files)
             /\ Left(p) \in SUBSET (1 .. Len(t[p].files))
  <2>1. t[p].files \in Seq(Files)
    BY FolderParts
  <2> QED BY <2>1 DEF TreeSorted
<1> HIDE DEF w, Left
<1>4. ASSUME NEW p \in DOMAIN t
      PROVE  /\ w[p] = [folders |-> t[p].folders, files |-> w[p].files]
             /\ w[p].files \in Seq(Files)
             /\ Sorted(w[p].files)
  <2>1. w[p].files = Retain(t[p].files, Left(p))
    BY <1>2
  <2>2. Retain(t[p].files, Left(p)) \in Seq(Files)
    BY <1>3, RetainKeeps, TablesAreNamed
  <2>3. Sorted(Retain(t[p].files, Left(p)))
    BY <1>3, RetainKeeps, TablesAreNamed
  <2> QED BY <1>2, <2>1, <2>2, <2>3
<1>5. IsTree(w) /\ TreeSorted(w)
  BY <1>1, <1>4, FilesEdited
<1>6. ASSUME Kept(t) PROVE Kept(w)
  <2>1. ASSUME NEW p \in DOMAIN t PROVE TableKept(w[p].files)
    <3>1. w[p].files = Retain(t[p].files, Left(p))
      BY <1>2
    <3>2. UniquelyNamed(t[p].files) /\ AllLower(t[p].files)
      BY <1>6 DEF Kept, TableKept
    <3>3. UniquelyNamed(Retain(t[p].files, Left(p)))
      BY <1>3, <3>2, RetainKeeps, TablesAreNamed
    <3>4. AllLower(Retain(t[p].files, Left(p)))
      BY <1>3, <3>2, RetainKeeps, TablesAreNamed
    <3> QED BY <1>4, <3>1, <3>3, <3>4 DEF TableKept
  <2> QED BY <1>1, <1>4, <1>6, <2>1, FilesEdited
<1> QED BY <1>5, <1>6 DEF w

\* sort_directories.
LEMMA SortTreeKeeps ==
  ASSUME NEW t, IsTree(t)
  PROVE  /\ IsTree(SortTree(t)) /\ TreeSorted(SortTree(t))
         /\ Kept(t) => Kept(SortTree(t))
<1> DEFINE w == SortTree(t)
<1>1. /\ DOMAIN w = DOMAIN t
      /\ \A p \in DOMAIN t : /\ w[p].folders = SortTable(t[p].folders)
                             /\ w[p].files = SortTable(t[p].files)
                             /\ w[p] = [folders |-> w[p].folders, files |-> w[p].files]
  BY DEF SortTree
<1> HIDE DEF w
<1>2. ASSUME NEW p \in DOMAIN t
      PROVE  t[p].folders \in Seq(ChildEntries) /\ t[p].files \in Seq(Files)
  BY FolderParts
<1>3. ASSUME NEW p \in DOMAIN t
      PROVE  w[p].folders \in Seq(ChildEntries) /\ w[p].files \in Seq(Files)
  <2>1. SortTable(t[p].folders) \in Seq(ChildEntries)
    BY <1>2, SortKeeps, TablesAreNamed
  <2>2. SortTable(t[p].files) \in Seq(Files)
    BY <1>2, SortKeeps, TablesAreNamed
  <2> QED BY <1>1, <2>1, <2>2
<1>4. ASSUME NEW p \in DOMAIN t
      PROVE  Sorted(w[p].folders) /\ Sorted(w[p].files)
  <2>1. Sorted(SortTable(t[p].folders))
    BY <1>2, SortKeeps, TablesAreNamed
  <2>2. Sorted(SortTable(t[p].files))
    BY <1>2, SortKeeps, TablesAreNamed
  <2> QED BY <1>1, <2>1, <2>2
<1>5. ASSUME NEW p \in DOMAIN t
      PROVE  SameListing(t[p].folders, w[p].folders)
  <2>1. KeepsEntries(t[p].folders, SortTable(t[p].folders))
    BY <1>2, SortKeeps, TablesAreNamed
  <2>2. KeepsEntries(SortTable(t[p].folders), t[p].folders)
    BY <1>2, SortKeeps, TablesAreNamed
  <2> QED BY <1>1, <2>1, <2>2 DEF SameListing
<1>6. ASSUME NEW p \in DOMAIN t
      PROVE  w[p] \in Folders
  <2>1. w[p] = [folders |-> w[p].folders, files |-> w[p].files]
    BY <1>1
  <2> QED BY <1>3, <2>1 DEF Folders, ChildEntries
<1>7. IsTree(w)
  BY <1>1, <1>5, <1>6, SameShape
<1>8. TreeSorted(w)
  BY <1>1, <1>4 DEF TreeSorted
<1>9. ASSUME Kept(t) PROVE Kept(w)
  <2>1. ASSUME NEW p \in DOMAIN t
        PROVE  TableKept(w[p].folders) /\ TableKept(w[p].files)
    <3>1. /\ UniquelyNamed(t[p].folders) /\ AllLower(t[p].folders)
          /\ UniquelyNamed(t[p].files) /\ AllLower(t[p].files)
      BY <1>9 DEF Kept, TableKept
    <3>2. UniquelyNamed(SortTable(t[p].folders))
      BY <1>2, <3>1, SortKeeps, TablesAreNamed
    <3>3. AllLower(SortTable(t[p].folders))
      BY <1>2, <3>1, SortKeeps, TablesAreNamed
    <3>4. UniquelyNamed(SortTable(t[p].files))
      BY <1>2, <3>1, SortKeeps, TablesAreNamed
    <3>5. AllLower(SortTable(t[p].files))
      BY <1>2, <3>1, SortKeeps, TablesAreNamed
    <3> QED BY <1>1, <1>4, <3>2, <3>3, <3>4, <3>5 DEF TableKept
  <2> QED BY <1>1, <2>1 DEF Kept
<1> QED BY <1>7, <1>8, <1>9 DEF w

(***************************************************************************)
(* prune_empty_folders.                                                    *)
(***************************************************************************)
LEMMA FrontAndLast ==
  ASSUME NEW E, NEW s \in Seq(E), s # <<>>
  PROVE  /\ Front(s) \in Seq(E) /\ Append(Front(s), Last(s)) = s
         /\ Len(Front(s)) = Len(s) - 1
         /\ \A i \in 1 .. Len(s) - 1 : Front(s)[i] = s[i]
<1> DEFINE m == Len(s) - 1
<1>1. m \in 0 .. Len(s) - 1 /\ m \in 0 .. Len(s) /\ m + 1 = Len(s)
  BY EmptySeq
<1>2. Front(s) = SubSeq(s, 1, m) /\ Last(s) = s[m + 1]
  BY <1>1 DEF Front, Last
<1> HIDE DEF m
<1>3. Append(SubSeq(s, 1, m), s[m + 1]) = SubSeq(s, 1, m + 1)
  BY <1>1, PrefixGrows
<1>4. SubSeq(s, 1, m + 1) = s
  BY <1>1, SubSeqFull
<1>5. SubSeq(s, 1, m) \in Seq(E) /\ Len(SubSeq(s, 1, m)) = m
      /\ \A i \in 1 .. m : SubSeq(s, 1, m)[i] = s[i]
  BY <1>1, PrefixParts
<1> QED BY <1>1, <1>2, <1>3, <1>4, <1>5 DEF m

\* IsPrefix, entry by entry.
LEMMA PrefixPointwise ==
  ASSUME NEW E, NEW s \in Seq(E), NEW q \in Seq(E)
  PROVE  IsPrefix(s, q) <=> /\ Len(s) <= Len(q)
                            /\ \A i \in 1 .. Len(s) : s[i] = q[i]
<1> DEFINE n == Len(s)
           a == SubSeq(s, 1, n)
           b == SubSeq(q, 1, n)
<1>1. n \in Nat /\ n \in 0 .. Len(s) /\ Len(q) \in Nat
  OBVIOUS
<1>2. a = s
  BY SubSeqFull
<1> HIDE DEF n
<1>3. CASE n <= Len(q)
  <2>1. n \in 0 .. Len(q)
    BY <1>1, <1>3
  <2>2. b \in Seq(E) /\ Len(b) = n /\ \A i \in 1 .. n : b[i] = q[i]
    BY <2>1, PrefixParts
  <2> HIDE DEF a, b
  <2>3. s = b <=> \A i \in 1 .. n : s[i] = q[i]
    <3>1. ASSUME \A i \in 1 .. n : s[i] = q[i] PROVE s = b
      <4>1. Len(s) = Len(b) /\ \A i \in 1 .. Len(s) : s[i] = b[i]
        BY <2>2, <3>1 DEF n
      <4> QED BY <2>2, <4>1, SeqEqual
    <3> QED BY <2>2, <3>1
  <2> QED BY <1>2, <1>3, <2>3 DEF IsPrefix, a, b, n
<1>4. CASE ~ (n <= Len(q))
  BY <1>4 DEF IsPrefix, n
<1> QED BY <1>3, <1>4

LEMMA PrefixOfFront ==
  ASSUME NEW E, NEW s \in Seq(E), NEW q \in Seq(E), s # <<>>, IsPrefix(s, q)
  PROVE  IsPrefix(Front(s), q)
<1> DEFINE f == Front(s)
<1>1. f \in Seq(E) /\ Len(f) = Len(s) - 1 /\ \A i \in 1 .. Len(s) - 1 : f[i] = s[i]
  BY FrontAndLast
<1>2. Len(s) <= Len(q) /\ \A i \in 1 .. Len(s) : s[i] = q[i]
  BY PrefixPointwise
<1> HIDE DEF f
<1>3. Len(s) \in Nat /\ Len(q) \in Nat
  OBVIOUS
<1>4. Len(f) <= Len(q) /\ \A i \in 1 .. Len(f) : f[i] = q[i]
  BY <1>1, <1>2, <1>3
<1>5. IsPrefix(f, q)
  BY <1>1, <1>4, PrefixPointwise
<1> QED BY <1>5 DEF f

LEMMA PruneTreeKeeps ==
  ASSUME NEW t, IsTree(t), TreeSorted(t)
  PROVE  /\ IsTree(PruneTree(t)) /\ TreeSorted(PruneTree(t))
         /\ Kept(t) => Kept(PruneTree(t))
<1> DEFINE w == PruneTree(t)
           kept == {p \in DOMAIN t : p = <<>> \/ HoldsFiles(t, p)}
           Live(p) == {i \in DOMAIN t[p].folders : Append(p, t[p].folders[i].name) \in kept}
           table(p) == Retain(t[p].folders, Live(p))
<1>1. DOMAIN w = kept /\ kept \subseteq DOMAIN t
  BY DEF PruneTree
<1>2. ASSUME NEW p \in kept
      PROVE  /\ w[p] = [folders |-> table(p), files |-> t[p].files]
             /\ w[p].folders = table(p) /\ w[p].files = t[p].files
  <2>1. t[p] = [folders |-> t[p].folders, files |-> t[p].files]
    BY FolderParts
  <2> DEFINE r == table(p)
  <2>2. w[p] = [t[p] EXCEPT !.folders = r]
    BY DEF PruneTree
  <2> HIDE DEF w, r, kept
  <2>3. w[p] = [folders |-> r, files |-> t[p].files] /\ w[p].folders = r
        /\ w[p].files = t[p].files
    BY <2>1, <2>2
  <2> QED BY <2>3 DEF r
<1>3. ASSUME NEW p \in kept
      PROVE  /\ p \in DOMAIN t /\ p \in Seq(Names)
             /\ t[p].folders \in Seq(ChildEntries) /\ t[p].files \in Seq(Files)
             /\ Live(p) \in SUBSET (1 .. Len(t[p].folders))
             /\ DOMAIN t[p].folders = 1 .. Len(t[p].folders)
  <2>1. /\ p \in Seq(Names) /\ t[p].folders \in Seq(ChildEntries) /\ t[p].files \in Seq(Files)
    BY FolderParts
  <2> QED BY <2>1
<1>4. ASSUME NEW p \in kept
      PROVE  /\ table(p) \in Seq(ChildEntries)
             /\ \A i \in Live(p) : \E k \in 1 .. Len(table(p)) : table(p)[k] = t[p].folders[i]
             /\ \A k \in 1 .. Len(table(p)) : \E i \in Live(p) : table(p)[k] = t[p].folders[i]
             /\ DOMAIN table(p) = 1 .. Len(table(p))
  <2> DEFINE K == Live(p)
             f == t[p].folders
  <2>1. f \in Seq(ChildEntries) /\ K \in SUBSET (1 .. Len(f))
    BY <1>3
  <2> HIDE DEF K, f
  <2>2. Retain(f, K) \in Seq(ChildEntries)
    BY <2>1, RetainKeeps, TablesAreNamed
  <2>3. \A i \in K : \E k \in 1 .. Len(Retain(f, K)) : Retain(f, K)[k] = f[i]
    BY <2>1, RetainKeeps, TablesAreNamed
  <2>4. \A k \in 1 .. Len(Retain(f, K)) : \E i \in K : Retain(f, K)[k] = f[i]
    BY <2>1, RetainKeeps, TablesAreNamed
  <2>5. DOMAIN Retain(f, K) = 1 .. Len(Retain(f, K))
    BY <2>2, LenProperties
  <2> QED BY <2>2, <2>3, <2>4, <2>5 DEF K, f
<1>5. ASSUME NEW p \in kept, p # <<>>
      PROVE  Front(p) \in kept
  <2>1. PICK q \in DOMAIN t : IsPrefix(p, q) /\ t[q].files # <<>>
    BY <1>5 DEF HoldsFiles
  <2>2. Front(p) \in DOMAIN t
    BY <1>5 DEF IsTree
  <2>3. p \in Seq(Names) /\ q \in Seq(Names)
    BY FolderParts
  <2>4. IsPrefix(Front(p), q)
    BY <1>5, <2>1, <2>3, PrefixOfFront
  <2> QED BY <2>1, <2>2, <2>4 DEF HoldsFiles
<1>6. ASSUME NEW p \in DOMAIN w
      PROVE  p \in Seq(Names) /\ w[p] \in Folders
  <2> HIDE DEF w, kept, table, Live
  <2>1. p \in kept
    BY <1>1
  <2> DEFINE r == table(p)
  <2>2. w[p] = [folders |-> r, files |-> t[p].files] /\ r \in Seq(ChildEntries)
        /\ t[p].files \in Seq(Files) /\ p \in Seq(Names)
    BY <1>2, <1>3, <1>4, <2>1
  <2> HIDE DEF r
  <2> QED BY <2>2 DEF Folders, ChildEntries
<1>7. ASSUME NEW p \in DOMAIN w, NEW k \in DOMAIN w[p].folders
      PROVE  Append(p, w[p].folders[k].name) \in DOMAIN w
  <2>1. p \in kept
    BY <1>1
  <2>2. w[p].folders = table(p)
    BY <1>2, <2>1
  <2>3. PICK i \in Live(p) : table(p)[k] = t[p].folders[i]
    <3> HIDE DEF w, kept, table, Live
    <3>1. k \in 1 .. Len(table(p))
      BY <1>4, <2>1, <2>2
    <3> QED BY <1>4, <2>1, <3>1
  <2>4. Append(p, t[p].folders[i].name) \in kept
    OBVIOUS
  <2> HIDE DEF w, kept, table, Live
  <2> QED BY <1>1, <2>2, <2>3, <2>4
<1>8. ASSUME NEW p \in DOMAIN w, p # <<>>
      PROVE  /\ Front(p) \in DOMAIN w
             /\ \E k \in DOMAIN w[Front(p)].folders :
                  w[Front(p)].folders[k].name = Last(p)
  <2> DEFINE d == Front(p)
  <2>1. p \in kept /\ d \in kept /\ p \in Seq(Names)
    BY <1>1, <1>3, <1>5, <1>8
  <2>2. PICK i \in DOMAIN t[d].folders : t[d].folders[i].name = Last(p)
    BY <1>8, <2>1 DEF IsTree
  <2>3. Append(d, Last(p)) = p
    BY <1>8, <2>1, FrontAndLast
  <2>4. i \in Live(d)
    <3> HIDE DEF d, kept
    <3> QED BY <2>1, <2>2, <2>3
  <2> HIDE DEF w, kept, table, Live, d
  <2>5. PICK k \in 1 .. Len(table(d)) : table(d)[k] = t[d].folders[i]
    BY <1>4, <2>1, <2>4
  <2>6. d \in DOMAIN w /\ w[d].folders = table(d) /\ k \in DOMAIN table(d)
    BY <1>1, <1>2, <1>4, <2>1
  <2>7. /\ d \in DOMAIN w
        /\ \E j \in DOMAIN w[d].folders : w[d].folders[j].name = Last(p)
    BY <2>2, <2>5, <2>6
  <2> QED BY <2>7 DEF d
<1>9. IsTree(w)
  <2>1. <<>> \in DOMAIN w
    BY <1>1 DEF IsTree
  <2> HIDE DEF w, kept, table, Live
  <2> QED BY <1>6, <1>7, <1>8, <2>1 DEF IsTree
<1>10. ASSUME NEW p \in DOMAIN w
       PROVE  Sorted(w[p].folders) /\ Sorted(w[p].files)
  <2>1. p \in kept /\ Sorted(t[p].folders) /\ Sorted(t[p].files)
    BY <1>1 DEF TreeSorted
  <2> HIDE DEF w, kept, Live
  <2>2. Sorted(Retain(t[p].folders, Live(p)))
    BY <1>3, <2>1, RetainKeeps, TablesAreNamed
  <2> QED BY <1>2, <2>1, <2>2
<1>11. TreeSorted(w)
  BY <1>10 DEF TreeSorted
<1>12. ASSUME Kept(t) PROVE Kept(w)
  <2>1. ASSUME NEW p \in DOMAIN w
        PROVE  TableKept(w[p].folders) /\ TableKept(w[p].files)
    <3>1. p \in kept /\ TableKept(t[p].folders) /\ TableKept(t[p].files)
      BY <1>1, <1>12 DEF Kept
    <3>2. UniquelyNamed(t[p].folders) /\ AllLower(t[p].folders)
      BY <3>1 DEF TableKept
    <3> HIDE DEF w, kept, Live
    <3>3. UniquelyNamed(Retain(t[p].folders, Live(p)))
      BY <1>3, <3>1, <3>2, RetainKeeps, TablesAreNamed
    <3>4. AllLower(Retain(t[p].folders, Live(p)))
      BY <1>3, <3>1, <3>2, RetainKeeps, TablesAreNamed
    <3>5. TableKept(w[p].folders)
      BY <1>2, <1>10, <3>1, <3>3, <3>4 DEF TableKept
    <3>6. TableKept(w[p].files)
      BY <1>2, <3>1
    <3> QED BY <3>5, <3>6
  <2> QED BY <2>1 DEF Kept
<1> QED BY <1>9, <1>11, <1>12 DEF w

(***************************************************************************)
(* Archives.                                                               *)
(***************************************************************************)
ArchiveSorted(ts) == \A i \in DOMAIN ts : TreeSorted(ts[i].tree)
ArchiveKept(ts)   == \A i \in DOMAIN ts : Kept(ts[i].tree)

\* What every edit is proved to keep.
Sound(ts) == IsArchive(ts) /\ ArchiveSorted(ts)

LEMMA TocParts ==
  ASSUME NEW ts, IsArchive(ts)
  PROVE  /\ ts \in Seq(Range(ts)) /\ Len(ts) \in Nat /\ DOMAIN ts = 1 .. Len(ts)
         /\ \A i \in DOMAIN ts : /\ ts[i] = [alias |-> ts[i].alias, tree |-> ts[i].tree]
                                 /\ ts[i].alias \in Aliases
                                 /\ IsTree(ts[i].tree)
<1>1. ts \in Seq(Range(ts))
  BY DEF IsArchive
<1>2. Len(ts) \in Nat /\ DOMAIN ts = 1 .. Len(ts)
  BY <1>1, LenProperties
<1> QED BY <1>1, <1>2 DEF IsArchive, IsToc

LEMMA TocOf ==
  ASSUME NEW a \in Aliases, NEW t, IsTree(t)
  PROVE  IsToc([alias |-> a, tree |-> t])
BY DEF IsToc

\* A new tree for every TOC.
LEMMA TreesMapped ==
  ASSUME NEW ts, IsArchive(ts), NEW g, \A i \in DOMAIN ts : IsTree(g[i]),
         NEW w, w = [i \in DOMAIN ts |-> [ts[i] EXCEPT !.tree = g[i]]]
  PROVE  /\ IsArchive(w) /\ DOMAIN w = DOMAIN ts
         /\ \A i \in DOMAIN ts : w[i].alias = ts[i].alias /\ w[i].tree = g[i]
<1>1. DOMAIN w = DOMAIN ts /\ DOMAIN ts = 1 .. Len(ts) /\ Len(ts) \in Nat
  BY TocParts
<1>2. ASSUME NEW i \in DOMAIN ts
      PROVE  w[i] = [alias |-> ts[i].alias, tree |-> g[i]] /\ w[i].tree = g[i]
  BY TocParts
<1>3. ASSUME NEW i \in DOMAIN ts PROVE IsToc(w[i])
  <2>1. ts[i].alias \in Aliases
    BY TocParts
  <2>2. IsToc([alias |-> ts[i].alias, tree |-> g[i]])
    BY <2>1, TocOf
  <2> QED BY <1>2, <2>2
<1>4. w \in Seq(Range(w))
  <2> DEFINE n == Len(ts)
  <2>1. w \in [1 .. n -> Range(w)]
    <3>1. \A i \in 1 .. n : w[i] \in Range(w)
      BY <1>1 DEF Range
    <3>2. w = [i \in 1 .. n |-> w[i]]
      BY <1>1
    <3> HIDE DEF n
    <3> QED BY <3>1, <3>2
  <2> QED BY <1>1, <2>1, SeqDef
<1>5. IsArchive(w)
  BY <1>1, <1>3, <1>4 DEF IsArchive
<1>6. ASSUME NEW i \in DOMAIN ts PROVE w[i].alias = ts[i].alias /\ w[i].tree = g[i]
  <2> DEFINE a == ts[i].alias
  <2>1. w[i] = [alias |-> a, tree |-> g[i]]
    BY <1>2
  <2> HIDE DEF a
  <2>2. w[i].alias = a /\ w[i].tree = g[i]
    BY <2>1
  <2> QED BY <2>2 DEF a
<1> QED BY <1>1, <1>5, <1>6

LEMMA MapTrees ==
  ASSUME NEW ts, Sound(ts), NEW g,
         \A i \in DOMAIN ts : IsTree(g[i]) /\ TreeSorted(g[i]),
         NEW w, w = [i \in DOMAIN ts |-> [ts[i] EXCEPT !.tree = g[i]]]
  PROVE  /\ Sound(w)
         /\ (\A i \in DOMAIN ts : Kept(g[i])) => ArchiveKept(w)
<1>1. IsArchive(ts)
  BY DEF Sound
<1>2. IsArchive(w)
  BY <1>1, TreesMapped
<1>3. DOMAIN w = DOMAIN ts /\ \A i \in DOMAIN ts : w[i].tree = g[i]
  BY <1>1, TreesMapped
<1>4. ArchiveSorted(w)
  BY <1>3 DEF ArchiveSorted
<1>5. ASSUME \A i \in DOMAIN ts : Kept(g[i]) PROVE ArchiveKept(w)
  BY <1>3, <1>5 DEF ArchiveKept
<1> QED BY <1>2, <1>4, <1>5 DEF Sound

\* A new tree for one TOC.
LEMMA TreeReplaced ==
  ASSUME NEW ts, IsArchive(ts), NEW i \in DOMAIN ts, NEW u, IsTree(u),
         NEW w, w = [ts EXCEPT ![i].tree = u]
  PROVE  /\ IsArchive(w) /\ DOMAIN w = DOMAIN ts
         /\ \A j \in DOMAIN ts : /\ w[j].alias = ts[j].alias
                                 /\ w[j].tree = IF j = i THEN u ELSE ts[j].tree
<1> DEFINE g == [j \in DOMAIN ts |-> IF j = i THEN u ELSE ts[j].tree]
<1>1. ts = [j \in DOMAIN ts |-> ts[j]]
  <2>1. ts \in Seq(Range(ts)) /\ DOMAIN ts = 1 .. Len(ts)
    BY TocParts
  <2>2. ts \in [1 .. Len(ts) -> Range(ts)]
    BY <2>1, LenProperties
  <2> QED BY <2>1, <2>2
<1>2. \A j \in DOMAIN ts : ts[j] = [alias |-> ts[j].alias, tree |-> ts[j].tree]
  BY TocParts
<1> DEFINE v == [j \in DOMAIN ts |-> [ts[j] EXCEPT !.tree = g[j]]]
<1>3. w = v
  <2>1. w = [j \in DOMAIN ts |-> IF j = i THEN [ts[j] EXCEPT !.tree = u] ELSE ts[j]]
    BY <1>1
  <2>2. ASSUME NEW j \in DOMAIN ts
        PROVE  [ts[j] EXCEPT !.tree = g[j]]
                 = IF j = i THEN [ts[j] EXCEPT !.tree = u] ELSE ts[j]
    BY <1>2
  <2> QED BY <2>1, <2>2
<1>4. \A j \in DOMAIN ts : IsTree(g[j])
  BY TocParts
<1>5. \A j \in DOMAIN ts : g[j] = IF j = i THEN u ELSE ts[j].tree
  OBVIOUS
<1>6. v = [j \in DOMAIN ts |-> [ts[j] EXCEPT !.tree = g[j]]]
  OBVIOUS
<1> HIDE DEF g, v
<1>7. IsArchive(v) /\ DOMAIN v = DOMAIN ts
  BY <1>4, <1>6, TreesMapped
<1>8. \A j \in DOMAIN ts : v[j].alias = ts[j].alias /\ v[j].tree = g[j]
  BY <1>4, <1>6, TreesMapped
<1> QED BY <1>3, <1>5, <1>7, <1>8

LEMMA PutTree ==
  ASSUME NEW ts, Sound(ts), NEW i \in DOMAIN ts, NEW u, IsTree(u), TreeSorted(u)
  PROVE  /\ Sound([ts EXCEPT ![i].tree = u])
         /\ ArchiveKept(ts) /\ Kept(u) => ArchiveKept([ts EXCEPT ![i].tree = u])
<1> DEFINE w == [ts EXCEPT ![i].tree = u]
<1>1. IsArchive(ts) /\ ArchiveSorted(ts)
  BY DEF Sound
<1>2. w = [ts EXCEPT ![i].tree = u]
  OBVIOUS
<1> HIDE DEF w
<1>3. IsArchive(w) /\ DOMAIN w = DOMAIN ts
  BY <1>1, <1>2, TreeReplaced
<1>4. \A j \in DOMAIN ts : w[j].tree = IF j = i THEN u ELSE ts[j].tree
  BY <1>1, <1>2, TreeReplaced
<1>5. ArchiveSorted(w)
  BY <1>1, <1>3, <1>4 DEF ArchiveSorted
<1>6. ASSUME ArchiveKept(ts), Kept(u) PROVE ArchiveKept(w)
  BY <1>3, <1>4, <1>6 DEF ArchiveKept
<1> QED BY <1>3, <1>5, <1>6 DEF Sound, w

LEMMA EmptyTreeSound == IsTree(EmptyTree) /\ TreeSorted(EmptyTree) /\ Kept(EmptyTree)
<1> DEFINE e == EmptyFolder
<1>1. DOMAIN EmptyTree = {<<>>} /\ EmptyTree[<<>>] = e
  BY DEF EmptyTree
<1>2. e.folders = <<>> /\ e.files = <<>> /\ e \in Folders
  BY DEF EmptyFolder, Folders
<1>3. Sorted(<<>>) /\ UniquelyNamed(<<>>) /\ AllLower(<<>>)
  BY DEF Sorted, UniquelyNamed, AllLower
<1>4. <<>> \in Seq(Names)
  OBVIOUS
<1> HIDE DEF e
<1> QED BY <1>1, <1>2, <1>3, <1>4 DEF IsTree, TreeSorted, Kept, TableKept

\* get_or_create_toc.
LEMMA TocIndexFound ==
  ASSUME NEW S, NEW ts \in Seq(S), NEW alias
  PROVE  /\ TocIndex(ts, alias) # 0 => TocIndex(ts, alias) \in 1 .. Len(ts)
         /\ TocIndex(ts, alias) = 0 => \A i \in 1 .. Len(ts) : ts[i].alias # alias
<1> DEFINE I == {i \in 1 .. Len(ts) : ts[i].alias = alias}
<1>1. TocIndex(ts, alias) = IF I # {} THEN Min(I) ELSE 0
  BY DEF TocIndex, SelectInSeq
<1>2. I # {} => Min(I) \in I
  <2> SUFFICES ASSUME I # {} PROVE Min(I) \in I
    OBVIOUS
  <2>0. I \subseteq Nat
    OBVIOUS
  <2> HIDE DEF I
  <2>1. \E n \in I : \A m \in I : n <= m
    BY <2>0, LeastNatural
  <2> QED BY <2>1 DEF Min
<1> QED BY <1>1, <1>2

LEMMA TocIndexNames ==
  ASSUME NEW S, NEW ts \in Seq(S), NEW alias, TocIndex(ts, alias) # 0
  PROVE  TocIndex(ts, alias) \in 1 .. Len(ts) /\ ts[TocIndex(ts, alias)].alias = alias
<1> DEFINE I == {i \in 1 .. Len(ts) : ts[i].alias = alias}
<1>1. TocIndex(ts, alias) = IF I # {} THEN Min(I) ELSE 0
  BY DEF TocIndex, SelectInSeq
<1>2. I # {} => Min(I) \in I
  <2> SUFFICES ASSUME I # {} PROVE Min(I) \in I
    OBVIOUS
  <2>0. I \subseteq Nat
    OBVIOUS
  <2> HIDE DEF I
  <2>1. \E n \in I : \A m \in I : n <= m
    BY <2>0, LeastNatural
  <2> QED BY <2>1 DEF Min
<1> QED BY <1>1, <1>2

\* A TOC more.
LEMMA TocAppended ==
  ASSUME NEW ts, IsArchive(ts), NEW toc, IsToc(toc),
         NEW w, w = Append(ts, toc)
  PROVE  /\ IsArchive(w) /\ Len(w) = Len(ts) + 1 /\ DOMAIN w = 1 .. Len(ts) + 1
         /\ \A i \in 1 .. Len(ts) : w[i] = ts[i]
         /\ w[Len(ts) + 1] = toc
<1>1. ts \in Seq(Range(ts)) /\ Len(ts) \in Nat /\ DOMAIN ts = 1 .. Len(ts)
  BY TocParts
<1> DEFINE S == Range(ts) \cup {toc}
<1>2. ts \in Seq(S) /\ toc \in S
  <2>1. Range(ts) \subseteq S
    OBVIOUS
  <2> HIDE DEF S
  <2>2. ts \in Seq(S)
    BY <1>1, <2>1, SeqMonotonic
  <2> QED BY <2>2 DEF S
<1> HIDE DEF S
<1>3. /\ w \in Seq(S) /\ Len(w) = Len(ts) + 1
      /\ \A i \in 1 .. Len(ts) : w[i] = ts[i]
      /\ w[Len(ts) + 1] = toc
  BY <1>2, AppendProperties
<1>4. DOMAIN w = 1 .. Len(ts) + 1
  BY <1>3, LenProperties
<1>5. w \in Seq(Range(w))
  BY <1>3, SeqOfRange
<1>6. ASSUME NEW i \in DOMAIN w PROVE IsToc(w[i])
  <2>1. CASE i = Len(ts) + 1
    BY <1>3, <2>1
  <2>2. CASE i # Len(ts) + 1
    <3>1. i \in DOMAIN ts /\ w[i] = ts[i]
      BY <1>1, <1>3, <1>4, <2>2
    <3> QED BY <3>1 DEF IsArchive
  <2> QED BY <2>1, <2>2
<1>7. IsArchive(w)
  BY <1>5, <1>6 DEF IsArchive
<1> QED BY <1>3, <1>4, <1>7

\* get_or_create_toc leaves the archive or one with an empty TOC more, in which
\* the alias is found.
LEMMA TocObtained ==
  ASSUME NEW ts, IsArchive(ts), NEW alias \in Aliases,
         NEW w, w = GetOrCreateToc(ts, alias)
  PROVE  /\ IsArchive(w)
         /\ Len(ts) \in Nat /\ 1 .. Len(ts) \subseteq DOMAIN w
         /\ \A i \in 1 .. Len(ts) : w[i] = ts[i]
         /\ \A i \in DOMAIN w \ 1 .. Len(ts) :
              w[i] = [alias |-> alias, tree |-> EmptyTree] /\ TocIndex(w, alias) = i
         /\ TocIndex(w, alias) \in DOMAIN w
         /\ w[TocIndex(w, alias)].alias = alias
<1> DEFINE toc == [alias |-> alias, tree |-> EmptyTree]
<1>1. ts \in Seq(Range(ts)) /\ Len(ts) \in Nat /\ DOMAIN ts = 1 .. Len(ts)
  BY TocParts
<1>2. CASE TocIndex(ts, alias) # 0
  <2>1. w = ts
    BY <1>2 DEF GetOrCreateToc
  <2>2. TocIndex(ts, alias) \in 1 .. Len(ts) /\ ts[TocIndex(ts, alias)].alias = alias
    BY <1>1, <1>2, TocIndexNames
  <2> QED BY <1>1, <2>1, <2>2
<1>3. CASE TocIndex(ts, alias) = 0
  <2>1. w = Append(ts, toc)
    BY <1>3 DEF GetOrCreateToc
  <2>2. IsToc(toc) /\ toc.alias = alias
    BY TocOf, EmptyTreeSound
  <2>3. toc = [alias |-> alias, tree |-> EmptyTree]
    OBVIOUS
  <2> HIDE DEF toc
  <2>4. IsArchive(w) /\ Len(w) = Len(ts) + 1 /\ DOMAIN w = 1 .. Len(ts) + 1
    BY <2>1, <2>2, TocAppended
  <2>5. (\A i \in 1 .. Len(ts) : w[i] = ts[i]) /\ w[Len(ts) + 1] = toc
    BY <2>1, <2>2, TocAppended
  <2>6. w \in Seq(Range(w))
    BY <2>4, TocParts
  <2>7. TocIndex(w, alias) # 0
    <3>1. Len(ts) + 1 \in 1 .. Len(w) /\ w[Len(ts) + 1].alias = alias
      BY <1>1, <2>2, <2>4, <2>5
    <3> QED BY <2>6, <3>1, TocIndexFound
  <2>8. TocIndex(w, alias) \in 1 .. Len(w) /\ w[TocIndex(w, alias)].alias = alias
    BY <2>6, <2>7, TocIndexNames
  <2>9. \A i \in 1 .. Len(ts) : ts[i].alias # alias
    BY <1>1, <1>3, TocIndexFound
  <2>10. TocIndex(w, alias) = Len(ts) + 1
    BY <1>1, <2>4, <2>5, <2>8, <2>9
  <2>11. ASSUME NEW i \in DOMAIN w \ 1 .. Len(ts) PROVE w[i] = toc /\ TocIndex(w, alias) = i
    BY <1>1, <2>4, <2>5, <2>10, <2>11
  <2> QED BY <1>1, <2>3, <2>4, <2>5, <2>8, <2>11
<1> QED BY <1>2, <1>3

LEMMA GetOrCreateTocSound ==
  ASSUME NEW ts, Sound(ts), NEW alias \in Aliases
  PROVE  /\ Sound(GetOrCreateToc(ts, alias))
         /\ ArchiveKept(ts) => ArchiveKept(GetOrCreateToc(ts, alias))
         /\ TocIndex(GetOrCreateToc(ts, alias), alias) \in DOMAIN GetOrCreateToc(ts, alias)
         /\ 1 \in DOMAIN GetOrCreateToc(ts, alias)
<1> DEFINE w == GetOrCreateToc(ts, alias)
<1>1. IsArchive(ts) /\ ArchiveSorted(ts) /\ DOMAIN ts = 1 .. Len(ts) /\ w = GetOrCreateToc(ts, alias)
  BY TocParts DEF Sound
<1> HIDE DEF w
<1>2. IsArchive(w)
  BY <1>1, TocObtained
<1>3. TocIndex(w, alias) \in DOMAIN w
  BY <1>1, TocObtained
<1>4. \A i \in 1 .. Len(ts) : w[i] = ts[i]
  BY <1>1, TocObtained
<1>5. \A i \in DOMAIN w \ 1 .. Len(ts) : w[i] = [alias |-> alias, tree |-> EmptyTree]
  BY <1>1, TocObtained
<1>6. ASSUME NEW i \in DOMAIN w
      PROVE  TreeSorted(w[i].tree) /\ (ArchiveKept(ts) => Kept(w[i].tree))
  <2>1. CASE i \in 1 .. Len(ts)
    BY <1>1, <1>4, <2>1 DEF ArchiveSorted, ArchiveKept
  <2>2. CASE i \notin 1 .. Len(ts)
    <3>1. w[i].tree = EmptyTree
      BY <1>5, <2>2
    <3> QED BY <3>1, EmptyTreeSound
  <2> QED BY <2>1, <2>2
<1>7. 1 \in DOMAIN w
  <2>1. DOMAIN w = 1 .. Len(w) /\ Len(w) \in Nat
    BY <1>2, TocParts
  <2> QED BY <1>3, <2>1
<1> QED BY <1>2, <1>3, <1>6, <1>7 DEF Sound, ArchiveSorted, ArchiveKept, w

LEMMA StoredFileTyped ==
  ASSUME NEW name \in Names, NEW d \in Data
  PROVE  StoredFile(name, d) \in Files /\ StoredFile(name, d).name = name
BY DEF StoredFile, Files, Storages, Verifications, StoredBytes

-----------------------------------------------------------------------------
(* Paths *)

AllLowerPath(p) == \A i \in 1 .. Len(p) : IsLower(p[i])

\* A tree in lowercase, seen from its paths and files.
TreeLower(t) == \A p \in DOMAIN t : AllLowerPath(p) /\ AllLower(t[p].files)

\* The folders of a lowercase tree have lowercase paths: a folder is listed by
\* its parent, whose path is shorter.
LEMMA PathsAreLower ==
  ASSUME NEW t, IsTree(t), \A q \in DOMAIN t : AllLower(t[q].folders), NEW p \in DOMAIN t
  PROVE  AllLowerPath(p)
<1> DEFINE bad == {n \in Nat : \E q \in DOMAIN t : Len(q) = n /\ ~ AllLowerPath(q)}
<1> SUFFICES ASSUME bad # {} PROVE FALSE
  <2>1. p \in Seq(Names)
    BY FolderParts
  <2> QED BY <2>1, LenProperties
<1>1. PICK n \in bad : \A m \in bad : n <= m
  <2>1. bad \subseteq Nat
    OBVIOUS
  <2> HIDE DEF bad
  <2> QED BY <2>1, LeastNatural
<1>2. PICK q \in DOMAIN t : Len(q) = n /\ ~ AllLowerPath(q)
  OBVIOUS
<1>3. q \in Seq(Names) /\ q # <<>>
  <2>1. q \in Seq(Names)
    BY FolderParts
  <2>2. Len(<<>>) = 0
    OBVIOUS
  <2> QED BY <1>2, <2>1, <2>2 DEF AllLowerPath
<1>4. /\ Front(q) \in DOMAIN t
      /\ \E i \in DOMAIN t[Front(q)].folders : t[Front(q)].folders[i].name = Last(q)
  BY <1>3 DEF IsTree
<1>5. IsLower(Last(q))
  BY <1>4 DEF AllLower
<1>6. /\ Len(q) \in Nat \ {0} /\ Len(Front(q)) = Len(q) - 1
      /\ \A i \in 1 .. Len(q) - 1 : Front(q)[i] = q[i]
  <2>1. Len(q) \in Nat \ {0}
    BY <1>3, EmptySeq, LenProperties
  <2> QED BY <1>3, <2>1, FrontAndLast
<1>7. AllLowerPath(Front(q))
  <2>1. Len(q) - 1 \in Nat /\ ~ (Len(q) <= Len(q) - 1)
    BY <1>6
  <2>2. Len(q) - 1 \notin bad
    BY <1>1, <1>2, <2>1
  <2> QED BY <1>4, <1>6, <2>1, <2>2
<1>8. \A i \in 1 .. Len(q) : IsLower(q[i])
  <2> TAKE i \in 1 .. Len(q)
  <2>1. CASE i = Len(q)
    BY <1>5, <2>1 DEF Last
  <2>2. CASE i # Len(q)
    BY <1>6, <1>7, <2>2 DEF AllLowerPath
  <2> QED BY <2>1, <2>2
<1> QED BY <1>2, <1>8 DEF AllLowerPath

\* So a tree is in lowercase when every listed name is, and only then.
LEMMA LowerTrees ==
  ASSUME NEW t, IsTree(t)
  PROVE  TreeLower(t) <=> \A p \in DOMAIN t : AllLower(t[p].folders) /\ AllLower(t[p].files)
<1>1. ASSUME TreeLower(t), NEW p \in DOMAIN t PROVE AllLower(t[p].folders)
  <2> SUFFICES ASSUME NEW i \in DOMAIN t[p].folders PROVE IsLower(t[p].folders[i].name)
    BY DEF AllLower
  <2>1. p \in Seq(Names) /\ t[p].folders[i] \in ChildEntries
    BY FolderParts
  <2> DEFINE name == t[p].folders[i].name
             q == Append(p, name)
  <2>2. name \in Names /\ q \in DOMAIN t
    BY <2>1 DEF ChildEntries, IsTree
  <2> HIDE DEF name
  <2>3. Len(q) = Len(p) + 1 /\ Len(p) \in Nat /\ q[Len(p) + 1] = name
    BY <2>1, <2>2, AppendProperties, LenProperties
  <2>4. AllLowerPath(q)
    BY <1>1, <2>2 DEF TreeLower
  <2> HIDE DEF q
  <2> QED BY <2>3, <2>4 DEF AllLowerPath, name
<1>2. (\A p \in DOMAIN t : AllLower(t[p].folders) /\ AllLower(t[p].files)) => TreeLower(t)
  BY PathsAreLower DEF TreeLower
<1> QED BY <1>1, <1>2 DEF TreeLower

\* descend makes folders in lowercase.
LEMMA DescendPaths ==
  ASSUME NEW t, IsTree(t), \A p \in DOMAIN t : AllLowerPath(p), NEW dirs \in Seq(Names),
         \A i \in 1 .. Len(dirs) : IsLower(dirs[i]), NEW u \in Descend(t, dirs)
  PROVE  \A p \in DOMAIN u : AllLowerPath(p)
<1> DEFINE n       == Depth(t, dirs)
           missing == {SubSeq(dirs, 1, m) : m \in n + 1 .. Len(dirs)}
<1>1. n \in 0 .. Len(dirs) /\ Len(dirs) \in Nat
  BY DepthStops
<1>2. DOMAIN u \subseteq DOMAIN t \cup missing
  BY DEF Descend
<1> HIDE DEF n
<1>3. ASSUME NEW p \in missing PROVE AllLowerPath(p)
  <2>1. PICK m \in n + 1 .. Len(dirs) : p = SubSeq(dirs, 1, m)
    OBVIOUS
  <2>2. m \in 0 .. Len(dirs)
    BY <1>1
  <2>3. Len(p) = m /\ \A i \in 1 .. m : p[i] = dirs[i]
    BY <2>1, <2>2, PrefixParts
  <2> QED BY <1>1, <2>2, <2>3 DEF AllLowerPath
<1> QED BY <1>2, <1>3

\* What Holders says of the map.
LEMMA FoldedPositionMisses ==
  ASSUME NEW table \in Seq(Files), NEW name \in Names, FoldedPosition(table, name) = 0
  PROVE  \A k \in 1 .. Len(table) : table[k].name.key # name.key
<1> DEFINE I == {i \in 1 .. Len(table) : Lower(table[i].name) = Lower(name)}
<1>1. FoldedPosition(table, name) = IF I # {} THEN Min(I) ELSE 0
  BY DEF FoldedPosition, SelectInSeq
<1>2. I # {} => Min(I) \in I
  <2> SUFFICES ASSUME I # {} PROVE Min(I) \in I
    OBVIOUS
  <2>0. I \subseteq Nat
    OBVIOUS
  <2> HIDE DEF I
  <2>1. \E n \in I : \A m \in I : n <= m
    BY <2>0, LeastNatural
  <2> QED BY <2>1 DEF Min
<1>3. I = {}
  BY <1>1, <1>2
<1>4. ASSUME NEW k \in 1 .. Len(table), table[k].name.key = name.key PROVE FALSE
  <2>1. table[k] \in Files
    OBVIOUS
  <2>2. table[k].name \in Names
    BY <2>1 DEF Files
  <2>3. Lower(table[k].name) = Lower(name)
    BY <1>4, <2>2 DEF Lower, Names
  <2> QED BY <1>3, <2>3
<1> QED BY <1>4

(***************************************************************************)
(* The file tables of a tree, of folders that are not there the empty one. *)
(***************************************************************************)
FilesIn(t, p) == IF p \in DOMAIN t THEN t[p].files ELSE <<>>

\* Tree w is tree t with another file table at dirs, and folders down to it.
TreeWith(t, w, dirs, table) ==
  /\ IsTree(w) /\ dirs \in DOMAIN w
  /\ FoldersKept(t) => FoldersKept(w)
  /\ \A p : FilesIn(w, p) = IF p = dirs THEN table ELSE FilesIn(t, p)

LEMMA FilesPlaced ==
  ASSUME NEW t, IsTree(t), NEW dirs \in Seq(Names),
         \A i \in 1 .. Len(dirs) : IsLower(dirs[i]),
         NEW u \in Descend(t, dirs)
  PROVE  /\ u[dirs].files = FilesIn(t, dirs) /\ FilesIn(t, dirs) \in Seq(Files)
         /\ \A table \in Seq(Files) :
              TreeWith(t, [u EXCEPT ![dirs].files = table], dirs, table)
<1>1. IsTree(u) /\ dirs \in DOMAIN u
  BY DescendFolders
<1>2. OnlyFoldersAdded(t, u)
  BY DescendFolders
<1>3. FoldersKept(t) => FoldersKept(u)
  BY DescendFolders
<1>4. \A p : FilesIn(u, p) = FilesIn(t, p)
  BY <1>2 DEF OnlyFoldersAdded, FilesIn
<1>5. u[dirs].files = FilesIn(t, dirs) /\ u[dirs].files \in Seq(Files)
  BY <1>1, <1>4, FolderParts DEF FilesIn
<1>6. ASSUME NEW table \in Seq(Files)
      PROVE  TreeWith(t, [u EXCEPT ![dirs].files = table], dirs, table)
  <2> DEFINE w == [u EXCEPT ![dirs].files = table]
  <2>1. u[dirs] = [folders |-> u[dirs].folders, files |-> u[dirs].files]
    BY <1>1, FolderParts
  <2>2. /\ DOMAIN w = DOMAIN u
        /\ w[dirs] = [folders |-> u[dirs].folders, files |-> table]
        /\ \A p \in DOMAIN u : p # dirs => w[p] = u[p]
    BY <1>1, <2>1
  <2> HIDE DEF w
  <2>3. w[dirs].files = table /\ w[dirs].folders = u[dirs].folders
    BY <2>2
  <2>4. \A p \in DOMAIN u :
          /\ w[p] = [folders |-> u[p].folders, files |-> w[p].files]
          /\ w[p].files \in Seq(Files)
    <3> TAKE p \in DOMAIN u
    <3>1. CASE p = dirs
      BY <2>2, <2>3, <3>1
    <3>2. CASE p # dirs
      <4>1. /\ u[p] = [folders |-> u[p].folders, files |-> u[p].files]
            /\ u[p].files \in Seq(Files)
        BY <1>1, FolderParts
      <4>2. w[p] = u[p]
        BY <2>2, <3>2
      <4> QED BY <4>1, <4>2
    <3> QED BY <3>1, <3>2
  <2>5. IsTree(w)
    BY <1>1, <2>2, <2>4, FilesReplaced
  <2>6. \A p \in DOMAIN u : w[p].folders = u[p].folders
    BY <1>1, <2>2, <2>4, FilesReplaced
  <2>7. FoldersKept(t) => FoldersKept(w)
    BY <1>3, <2>2, <2>6 DEF FoldersKept
  <2>8. ASSUME NEW p PROVE FilesIn(w, p) = IF p = dirs THEN table ELSE FilesIn(t, p)
    <3>1. CASE p = dirs
      BY <1>1, <2>2, <2>3, <3>1 DEF FilesIn
    <3>2. CASE p # dirs
      <4>1. FilesIn(w, p) = FilesIn(u, p)
        BY <2>2, <3>2 DEF FilesIn
      <4> QED BY <1>4, <3>2, <4>1
    <3> QED BY <3>1, <3>2
  <2>9. TreeWith(t, w, dirs, table)
    BY <1>1, <2>2, <2>5, <2>7, <2>8 DEF TreeWith
  <2> QED BY <2>9 DEF w
<1> QED BY <1>5, <1>6

LEMMA LoweredFile ==
  ASSUME NEW file \in Files
  PROVE  LET lowered == [file EXCEPT !.name = Lower(@)]
         IN  /\ lowered \in Files /\ lowered.name = Lower(file.name)
             /\ IsLower(lowered.name) /\ lowered.name.key = file.name.key
             /\ lowered.data = file.data
<1>1. file.name \in Names
  BY DEF Files
<1>2. /\ Lower(file.name) \in Names /\ IsLower(Lower(file.name))
      /\ Lower(file.name).key = file.name.key
  BY <1>1, LowerIsLower
<1> DEFINE lowered == [file EXCEPT !.name = Lower(@)]
<1>3. lowered \in Files /\ lowered.name = Lower(file.name) /\ lowered.data = file.data
  BY <1>2 DEF Files
<1> HIDE DEF lowered
<1>4. /\ lowered \in Files /\ lowered.name = Lower(file.name)
      /\ IsLower(lowered.name) /\ lowered.name.key = file.name.key
      /\ lowered.data = file.data
  BY <1>2, <1>3
<1> QED BY <1>4 DEF lowered

\* insert_file and insert_or_replace, of a tree with any tables.
LEMMA PushPlaces ==
  ASSUME NEW t, IsTree(t), NEW rel \in Seq(Names) \ {<<>>}, NEW file \in Files,
         NEW w \in PushInTree(t, rel, file)
  PROVE  /\ FilesIn(t, Dirs(rel)) \in Seq(Files)
         /\ TreeWith(t, w, Dirs(rel),
                     Append(FilesIn(t, Dirs(rel)), [file EXCEPT !.name = Lower(@)]))
<1> DEFINE dirs    == Dirs(rel)
           lowered == [file EXCEPT !.name = Lower(@)]
<1>1. PICK u \in Descend(t, dirs) : w = [u EXCEPT ![dirs].files = Append(@, lowered)]
  BY DEF PushInTree
<1>2. dirs \in Seq(Names) /\ \A i \in 1 .. Len(dirs) : IsLower(dirs[i])
  BY DirsAreLower
<1>3. lowered \in Files
  BY LoweredFile
<1> HIDE DEF dirs, lowered
<1>4. u[dirs].files = FilesIn(t, dirs) /\ FilesIn(t, dirs) \in Seq(Files)
  BY <1>2, FilesPlaced
<1>5. dirs \in DOMAIN u /\ u[dirs] = [folders |-> u[dirs].folders, files |-> u[dirs].files]
  <2>1. IsTree(u) /\ dirs \in DOMAIN u
    BY <1>2, DescendFolders
  <2> QED BY <2>1, FolderParts
<1> DEFINE table == Append(FilesIn(t, dirs), lowered)
<1>6. table \in Seq(Files)
  BY <1>3, <1>4
<1>7. w = [u EXCEPT ![dirs].files = table]
  BY <1>1, <1>4, <1>5
<1> HIDE DEF table
<1>8. TreeWith(t, [u EXCEPT ![dirs].files = table], dirs, table)
  BY <1>2, <1>6, FilesPlaced
<1>9. TreeWith(t, w, dirs, table)
  BY <1>7, <1>8
<1> QED BY <1>4, <1>9 DEF dirs, lowered, table

LEMMA InsertPlaces ==
  ASSUME NEW t, IsTree(t), NEW rel \in Seq(Names) \ {<<>>}, NEW file \in Files,
         NEW w \in InsertInTree(t, rel, file)
  PROVE  /\ FilesIn(t, Dirs(rel)) \in Seq(Files)
         /\ \E table \in InsertOrReplace(FilesIn(t, Dirs(rel)), [file EXCEPT !.name = Lower(@)]) :
              table \in Seq(Files) /\ TreeWith(t, w, Dirs(rel), table)
<1> DEFINE dirs    == Dirs(rel)
           lowered == [file EXCEPT !.name = Lower(@)]
<1>0. PICK u \in Descend(t, dirs) :
        \E table \in InsertOrReplace(u[dirs].files, lowered) :
          w = [u EXCEPT ![dirs].files = table]
  BY DEF InsertInTree
<1>1. PICK table \in InsertOrReplace(u[dirs].files, lowered) :
        u \in Descend(t, dirs) /\ w = [u EXCEPT ![dirs].files = table]
  BY <1>0
<1>2. dirs \in Seq(Names) /\ \A i \in 1 .. Len(dirs) : IsLower(dirs[i])
  BY DirsAreLower
<1>3. lowered \in Files
  BY LoweredFile
<1> HIDE DEF dirs, lowered
<1>4. u[dirs].files = FilesIn(t, dirs) /\ FilesIn(t, dirs) \in Seq(Files)
  BY <1>2, FilesPlaced
<1>5. table \in Seq(Files)
  BY <1>1, <1>3, <1>4, InsertOrReplaceKeeps, TablesAreNamed
<1>6. TreeWith(t, [u EXCEPT ![dirs].files = table], dirs, table)
  BY <1>2, <1>5, FilesPlaced
<1>7. TreeWith(t, w, dirs, table)
  BY <1>1, <1>6
<1> QED BY <1>1, <1>4, <1>5, <1>7 DEF dirs, lowered

\* A tree holds files at all if one of its tables does.
LEMMA HoldsFilesAtAll ==
  ASSUME NEW t, IsTree(t)
  PROVE  HoldsFiles(t, <<>>) <=> \E p : FilesIn(t, p) # <<>>
<1>1. ASSUME NEW q \in DOMAIN t PROVE IsPrefix(<<>>, q)
  <2>1. q \in Seq(Names)
    BY FolderParts
  <2>2. <<>> \in Seq(Names) /\ Len(<<>>) = 0 /\ Len(<<>>) <= Len(q)
    BY <2>1
  <2>3. \A i \in 1 .. Len(<<>>) : (<<>>)[i] = q[i]
    BY <2>2
  <2> QED BY <2>1, <2>2, <2>3, PrefixPointwise
<1> QED BY <1>1 DEF HoldsFiles, FilesIn

-----------------------------------------------------------------------------
(* Tables.  A lookup by key finds the first entry of that key, so that is  *)
(* what a table that may list a key twice holds of it.                     *)

FirstOfKey(table, k) == \A j \in 1 .. k - 1 : table[j].name.key # table[k].name.key

TableHolds(table, key, d) ==
  \E k \in 1 .. Len(table) :
    table[k].name.key = key /\ table[k].data = d /\ FirstOfKey(table, k)

\* Table b is table a with content d0 under key0.
TableSets(a, b, key0, d0) ==
  \A key, d : TableHolds(b, key, d) <=> IF key = key0 THEN d = d0 ELSE TableHolds(a, key, d)

HasKey(table, key) == \E k \in 1 .. Len(table) : table[k].name.key = key

Count(table, key) == Cardinality({k \in 1 .. Len(table) : table[k].name.key = key})

\* Table b lists no key more often than table a, or lists it once.
NoMoreDoubles(a, b) ==
  \A key : HasKey(b, key) =>
    Count(b, key) = 1 \/ (HasKey(a, key) /\ Count(b, key) <= Count(a, key))

LEMMA FirstExists ==
  ASSUME NEW table \in Seq(Files), NEW key, HasKey(table, key)
  PROVE  \E k \in 1 .. Len(table) : table[k].name.key = key /\ FirstOfKey(table, k)
<1> DEFINE I == {k \in 1 .. Len(table) : table[k].name.key = key}
<1>1. I \subseteq Nat /\ I # {}
  BY DEF HasKey
<1>2. PICK k \in I : \A j \in I : k <= j
  <2> HIDE DEF I
  <2> QED BY <1>1, LeastNatural
<1>3. FirstOfKey(table, k)
  BY <1>2 DEF FirstOfKey
<1> QED BY <1>2, <1>3

\* The first entry of a key settles what the table holds of it.
LEMMA FirstIsHeld ==
  ASSUME NEW table \in Seq(Files), NEW k \in 1 .. Len(table), FirstOfKey(table, k)
  PROVE  \A d : TableHolds(table, table[k].name.key, d) <=> d = table[k].data
<1>1. ASSUME NEW j \in 1 .. Len(table), table[j].name.key = table[k].name.key, FirstOfKey(table, j)
      PROVE  j = k
  <2>1. ~ (j < k)
    BY <1>1 DEF FirstOfKey
  <2>2. ~ (k < j)
    BY <1>1 DEF FirstOfKey
  <2> QED BY <2>1, <2>2
<1> QED BY <1>1 DEF TableHolds

\* Where no entry has a key nothing is held of it, and conversely.
LEMMA HeldHasKey ==
  ASSUME NEW table \in Seq(Files), NEW key
  PROVE  HasKey(table, key) <=> \E d : TableHolds(table, key, d)
<1>1. (\E d : TableHolds(table, key, d)) => HasKey(table, key)
  BY DEF TableHolds, HasKey
<1>2. HasKey(table, key) => \E d : TableHolds(table, key, d)
  BY FirstExists DEF TableHolds
<1> QED BY <1>1, <1>2

\* Entries that keep their places and their keys.
LEMMA SameKeysDoubles ==
  ASSUME NEW a \in Seq(Files), NEW b, Len(b) = Len(a),
         \A k \in 1 .. Len(a) : b[k].name.key = a[k].name.key
  PROVE  NoMoreDoubles(a, b)
<1> SUFFICES ASSUME NEW key, HasKey(b, key)
             PROVE  HasKey(a, key) /\ Count(b, key) <= Count(a, key)
  BY DEF NoMoreDoubles
<1> DEFINE I == {k \in 1 .. Len(a) : a[k].name.key = key}
<1>1. HasKey(a, key)
  BY DEF HasKey
<1>2. {k \in 1 .. Len(b) : b[k].name.key = key} = I
  OBVIOUS
<1>3. IsFiniteSet(I)
  <2>1. IsFiniteSet(1 .. Len(a)) /\ I \subseteq 1 .. Len(a)
    BY FS_Interval
  <2> HIDE DEF I
  <2> QED BY <2>1, FS_Subset
<1>4. Cardinality(I) \in Nat
  <2> HIDE DEF I
  <2> QED BY <1>3, FS_CardinalityType
<1>5. Count(b, key) = Cardinality(I) /\ Count(a, key) = Cardinality(I)
  BY <1>2 DEF Count
<1> HIDE DEF I
<1> QED BY <1>1, <1>4, <1>5

(***************************************************************************)
(* Table b is entries picked from table a, each once, those of one key in  *)
(* their order: what a removal, a stable sort and the undoing of an insert *)
(* have in common.                                                         *)
(***************************************************************************)
PickedFrom(a, b, e) ==
  /\ e \in [1 .. Len(b) -> 1 .. Len(a)]
  /\ \A k \in 1 .. Len(b) : b[k] = a[e[k]]
  /\ \A k, l \in 1 .. Len(b) : k # l => e[k] # e[l]
  /\ \A k, l \in 1 .. Len(b) : k < l /\ b[k].name.key = b[l].name.key => e[k] < e[l]

TakesAll(a, b, e, key) ==
  \A i \in 1 .. Len(a) : a[i].name.key = key => \E k \in 1 .. Len(b) : e[k] = i

LEMMA PickedHolds ==
  ASSUME NEW a \in Seq(Files), NEW b \in Seq(Files), NEW e, PickedFrom(a, b, e),
         NEW key, TakesAll(a, b, e, key)
  PROVE  \A d : TableHolds(b, key, d) <=> TableHolds(a, key, d)
<1>1. /\ \A k \in 1 .. Len(b) : e[k] \in 1 .. Len(a) /\ b[k] = a[e[k]]
      /\ \A k, l \in 1 .. Len(b) : k < l /\ b[k].name.key = b[l].name.key => e[k] < e[l]
  BY DEF PickedFrom
<1>2. ASSUME NEW k \in 1 .. Len(b), b[k].name.key = key, FirstOfKey(b, k)
      PROVE  FirstOfKey(a, e[k])
  <2> SUFFICES ASSUME NEW j \in 1 .. e[k] - 1, a[j].name.key = a[e[k]].name.key
               PROVE  FALSE
    BY DEF FirstOfKey
  <2>1. j \in 1 .. Len(a) /\ j < e[k] /\ a[j].name.key = key
    BY <1>1, <1>2
  <2>2. PICK l \in 1 .. Len(b) : e[l] = j
    BY <2>1 DEF TakesAll
  <2>3. b[l].name.key = key
    BY <1>1, <2>1, <2>2
  <2>4. ~ (k < l) /\ l # k
    BY <1>1, <1>2, <2>1, <2>2, <2>3
  <2>5. l \in 1 .. k - 1
    BY <2>4
  <2> QED BY <1>2, <2>3, <2>5 DEF FirstOfKey
<1>3. ASSUME NEW i \in 1 .. Len(a), a[i].name.key = key, FirstOfKey(a, i)
      PROVE  \E k \in 1 .. Len(b) : e[k] = i /\ FirstOfKey(b, k)
  <2>1. PICK k \in 1 .. Len(b) : e[k] = i
    BY <1>3 DEF TakesAll
  <2>2. ASSUME NEW l \in 1 .. k - 1, b[l].name.key = b[k].name.key
        PROVE  FALSE
    <3>1. l \in 1 .. Len(b) /\ l < k
      OBVIOUS
    <3>2. e[l] < e[k] /\ e[l] \in 1 .. Len(a) /\ a[e[l]].name.key = a[i].name.key
      BY <1>1, <2>1, <2>2, <3>1
    <3>3. e[l] \in 1 .. i - 1
      BY <2>1, <3>2
    <3> QED BY <1>3, <3>2, <3>3 DEF FirstOfKey
  <2>3. FirstOfKey(b, k)
    BY <2>2 DEF FirstOfKey
  <2> QED BY <2>1, <2>3
<1>4. ASSUME NEW d, TableHolds(b, key, d) PROVE TableHolds(a, key, d)
  BY <1>1, <1>2, <1>4 DEF TableHolds
<1>5. ASSUME NEW d, TableHolds(a, key, d) PROVE TableHolds(b, key, d)
  <2>1. PICK i \in 1 .. Len(a) : a[i].name.key = key /\ a[i].data = d /\ FirstOfKey(a, i)
    BY <1>5 DEF TableHolds
  <2>2. PICK k \in 1 .. Len(b) : e[k] = i /\ FirstOfKey(b, k)
    BY <1>3, <2>1
  <2> QED BY <1>1, <2>1, <2>2 DEF TableHolds
<1> QED BY <1>4, <1>5

\* Of one key table b has at most the entries of table a, and as many if it
\* takes them all.
LEMMA PickedCount ==
  ASSUME NEW a \in Seq(Files), NEW b \in Seq(Files), NEW e, PickedFrom(a, b, e), NEW key
  PROVE  /\ HasKey(b, key) => HasKey(a, key)
         /\ Count(b, key) \in Nat /\ Count(a, key) \in Nat
         /\ Count(b, key) <= Count(a, key)
         /\ TakesAll(a, b, e, key) => Count(b, key) = Count(a, key)
<1> DEFINE S == {k \in 1 .. Len(b) : b[k].name.key = key}
           T == {i \in 1 .. Len(a) : a[i].name.key = key}
           f == [k \in S |-> e[k]]
<1>1. /\ \A k \in 1 .. Len(b) : e[k] \in 1 .. Len(a) /\ b[k] = a[e[k]]
      /\ \A k, l \in 1 .. Len(b) : k # l => e[k] # e[l]
  BY DEF PickedFrom
<1>2. HasKey(b, key) => HasKey(a, key)
  BY <1>1 DEF HasKey
<1>3. IsFiniteSet(S) /\ IsFiniteSet(T)
  <2>1. IsFiniteSet(1 .. Len(a)) /\ IsFiniteSet(1 .. Len(b))
    BY FS_Interval
  <2>2. S \subseteq 1 .. Len(b) /\ T \subseteq 1 .. Len(a)
    OBVIOUS
  <2> HIDE DEF S, T
  <2> QED BY <2>1, <2>2, FS_Subset
<1>4. f \in Injection(S, T)
  <2>1. \A k \in S : e[k] \in T
    BY <1>1
  <2>2. f \in [S -> T]
    BY <2>1
  <2>3. \A k, l \in S : f[k] = f[l] => k = l
    BY <1>1
  <2> HIDE DEF f, S, T
  <2>4. DOMAIN f = S
    BY <2>2
  <2> QED BY <2>2, <2>3, <2>4 DEF Injection, IsInjective
<1>5. TakesAll(a, b, e, key) => f \in Surjection(S, T)
  <2> SUFFICES ASSUME TakesAll(a, b, e, key) PROVE f \in Surjection(S, T)
    OBVIOUS
  <2>1. ASSUME NEW i \in T PROVE \E k \in S : f[k] = i
    <3>1. PICK k \in 1 .. Len(b) : e[k] = i
      BY DEF TakesAll
    <3>2. k \in S
      BY <1>1, <3>1
    <3> QED BY <3>1, <3>2
  <2>2. f \in [S -> T]
    BY <1>4 DEF Injection
  <2> HIDE DEF f, S, T
  <2> QED BY <2>1, <2>2 DEF Surjection
<1>6. Count(b, key) = Cardinality(S) /\ Count(a, key) = Cardinality(T)
  BY DEF Count
<1> HIDE DEF f, S, T
<1>7. Cardinality(S) \in Nat /\ Cardinality(T) \in Nat
  BY <1>3, FS_CardinalityType
<1>8. Cardinality(S) <= Cardinality(T)
      /\ (Cardinality(S) = Cardinality(T) <=> f \in Surjection(S, T))
  BY <1>3, <1>4, FS_Injection
<1> QED BY <1>2, <1>5, <1>6, <1>7, <1>8

LEMMA PickedDoubles ==
  ASSUME NEW a \in Seq(Files), NEW b \in Seq(Files), NEW e, PickedFrom(a, b, e)
  PROVE  NoMoreDoubles(a, b)
BY PickedCount DEF NoMoreDoubles

\* Position is the first place of the name.
LEMMA PositionIsFirst ==
  ASSUME NEW E, NEW table \in Seq(E), NEW name
  PROVE  /\ Position(table, name) # 0 =>
              \A j \in 1 .. Position(table, name) - 1 : table[j].name # name
         /\ \A k \in 1 .. Len(table) :
              table[k].name = name /\ (\A j \in 1 .. k - 1 : table[j].name # name)
                => Position(table, name) = k
<1> DEFINE I == {i \in 1 .. Len(table) : table[i].name = name}
<1>1. Position(table, name) = IF I # {} THEN Min(I) ELSE 0
  BY DEF Position, SelectInSeq
<1>2. I # {} => Min(I) \in I /\ \A i \in I : Min(I) <= i
  <2> SUFFICES ASSUME I # {} PROVE Min(I) \in I /\ \A i \in I : Min(I) <= i
    OBVIOUS
  <2>1. I \subseteq Nat
    OBVIOUS
  <2> HIDE DEF I
  <2>2. \E n \in I : \A m \in I : n <= m
    BY <2>1, LeastNatural
  <2> QED BY <2>1, <2>2 DEF Min
<1>3. ASSUME Position(table, name) # 0, NEW j \in 1 .. Position(table, name) - 1
      PROVE  table[j].name # name
  <2>1. Position(table, name) \in I /\ \A i \in I : Position(table, name) <= i
    <3> HIDE DEF I
    <3> QED BY <1>1, <1>2, <1>3
  <2>2. j \in 1 .. Len(table) /\ j < Position(table, name)
    BY <2>1
  <2> QED BY <2>1, <2>2
<1>4. ASSUME NEW k \in 1 .. Len(table), table[k].name = name,
             \A j \in 1 .. k - 1 : table[j].name # name
      PROVE  Position(table, name) = k
  <2>1. k \in I
    BY <1>4
  <2>2. Position(table, name) \in I /\ Position(table, name) <= k
    <3> HIDE DEF I
    <3> QED BY <1>1, <1>2, <2>1
  <2>3. Position(table, name) \in 1 .. k /\ table[Position(table, name)].name = name
    BY <2>2
  <2>4. Position(table, name) \notin 1 .. k - 1
    BY <1>4, <2>3
  <2> QED BY <2>3, <2>4
<1> QED BY <1>3, <1>4

\* FoldedPosition finds the first entry of the key.
LEMMA FoldedPositionIsFirst ==
  ASSUME NEW table \in Seq(Files), NEW name \in Names, FoldedPosition(table, name) # 0
  PROVE  FirstOfKey(table, FoldedPosition(table, name))
<1> DEFINE I == {i \in 1 .. Len(table) : Lower(table[i].name) = Lower(name)}
           n == FoldedPosition(table, name)
<1>1. n = IF I # {} THEN Min(I) ELSE 0
  BY DEF FoldedPosition, SelectInSeq
<1>2. I # {} => Min(I) \in I /\ \A m \in I : Min(I) <= m
  <2> SUFFICES ASSUME I # {} PROVE Min(I) \in I /\ \A m \in I : Min(I) <= m
    OBVIOUS
  <2>0. I \subseteq Nat
    OBVIOUS
  <2> HIDE DEF I
  <2>1. \E k \in I : \A m \in I : k <= m
    BY <2>0, LeastNatural
  <2> QED BY <2>1 DEF Min
<1>3. n \in I /\ \A m \in I : n <= m
  <2> HIDE DEF I
  <2> QED BY <1>1, <1>2
<1>4. table[n].name.key = name.key
  BY FoldedPositionFound
<1> HIDE DEF n
<1>5. ASSUME NEW j \in 1 .. n - 1, table[j].name.key = table[n].name.key PROVE FALSE
  <2>1. j \in 1 .. Len(table) /\ j < n
    BY <1>3
  <2>2. table[j].name \in Names
    <3>1. table[j] \in Files
      BY <2>1
    <3> QED BY <3>1 DEF Files
  <2>3. Lower(table[j].name) = Lower(name)
    BY <1>4, <1>5, <2>2 DEF Lower, Names
  <2> QED BY <1>3, <2>1, <2>3
<1> QED BY <1>5 DEF FirstOfKey, n

\* insert_or_replace on a lowercase table: it overwrites the first entry of the
\* key, or there is none and it inserts.
LEMMA InsertOrReplaceCases ==
  ASSUME NEW table \in Seq(Files), NEW entry \in Files, AllLower(table), IsLower(entry.name),
         NEW r \in InsertOrReplace(table, entry)
  PROVE  \/ \E n \in 1 .. Len(table) : /\ table[n].name.key = entry.name.key
                                       /\ FirstOfKey(table, n)
                                       /\ r = [table EXCEPT ![n] = entry]
         \/ /\ ~ HasKey(table, entry.name.key)
            /\ \E i \in 1 .. Len(table) + 1 : Inserted(table, r, i, entry)
<1> DEFINE n == Position(table, entry.name)
<1>1. /\ n \in 0 .. Len(table)
      /\ n = 0 => \A i \in 1 .. Len(table) : table[i].name # entry.name
      /\ n # 0 => table[n].name = entry.name
  BY PositionFound
<1>2. ASSUME NEW i \in 1 .. Len(table), table[i].name.key = entry.name.key
      PROVE  table[i].name = entry.name
  <2>1. table[i] \in Files /\ i \in DOMAIN table
    BY LenProperties
  <2>2. table[i].name \in Names /\ entry.name \in Names
    BY <2>1, TablesAreNamed DEF Named
  <2>3. IsLower(table[i].name)
    BY <2>1 DEF AllLower
  <2> QED BY <1>2, <2>2, <2>3, LowerNamesByKey
<1>3. CASE n # 0
  <2>1. \A j \in 1 .. n - 1 : table[j].name # entry.name
    BY <1>3, PositionIsFirst
  <2>2. r = [table EXCEPT ![n] = entry]
    BY <1>3 DEF InsertOrReplace
  <2> HIDE DEF n
  <2>3. n \in 1 .. Len(table) /\ table[n].name.key = entry.name.key
    BY <1>1, <1>3
  <2>4. FirstOfKey(table, n)
    <3> SUFFICES ASSUME NEW j \in 1 .. n - 1, table[j].name.key = table[n].name.key PROVE FALSE
      BY DEF FirstOfKey
    <3>1. j \in 1 .. Len(table)
      BY <2>3
    <3> QED BY <1>2, <2>1, <2>3, <3>1
  <2> QED BY <2>2, <2>3, <2>4
<1>4. CASE n = 0
  <2>1. PICK at \in PartitionPoints(table, entry.name.key) : r = InsertAt(table, at + 1, entry)
    BY <1>4 DEF InsertOrReplace
  <2>2. at \in 0 .. Len(table)
    BY DEF PartitionPoints, Splits
  <2>3. at + 1 \in 1 .. Len(table) + 1
    BY <2>2
  <2>4. Inserted(table, r, at + 1, entry)
    BY <2>1, <2>3, InsertedThere
  <2>5. ~ HasKey(table, entry.name.key)
    BY <1>1, <1>2, <1>4 DEF HasKey
  <2> QED BY <2>3, <2>4, <2>5
<1> QED BY <1>3, <1>4

\* The first entry of a key overwritten.
LEMMA OverwrittenHolds ==
  ASSUME NEW table \in Seq(Files), NEW n \in 1 .. Len(table), NEW entry \in Files,
         FirstOfKey(table, n), entry.name.key = table[n].name.key
  PROVE  /\ TableSets(table, [table EXCEPT ![n] = entry], entry.name.key, entry.data)
         /\ NoMoreDoubles(table, [table EXCEPT ![n] = entry])
<1> DEFINE r == [table EXCEPT ![n] = entry]
<1>1. /\ r \in Seq(Files) /\ Len(r) = Len(table)
      /\ r[n] = entry
      /\ \A j \in 1 .. Len(table) : j # n => r[j] = table[j]
  BY OverwriteKeeps, TablesAreNamed
<1> HIDE DEF r
<1>2. \A j \in 1 .. Len(table) : r[j].name.key = table[j].name.key
  BY <1>1
<1>3. \A j \in 1 .. Len(table) : FirstOfKey(r, j) <=> FirstOfKey(table, j)
  <2> TAKE j \in 1 .. Len(table)
  <2>1. \A l \in 1 .. j - 1 : l \in 1 .. Len(table)
    OBVIOUS
  <2> QED BY <1>2, <2>1 DEF FirstOfKey
<1>4. ASSUME NEW key, NEW d, key = entry.name.key
      PROVE  TableHolds(r, key, d) <=> d = entry.data
  <2>1. n \in 1 .. Len(r) /\ FirstOfKey(r, n)
    BY <1>1, <1>3
  <2> QED BY <1>1, <1>4, <2>1, FirstIsHeld
<1>5. ASSUME NEW key, NEW d, key # entry.name.key
      PROVE  TableHolds(r, key, d) <=> TableHolds(table, key, d)
  <2>1. \A j \in 1 .. Len(table) : r[j].name.key = key \/ table[j].name.key = key => r[j] = table[j]
    BY <1>1, <1>2, <1>5
  <2> QED BY <1>1, <1>3, <2>1 DEF TableHolds
<1>6. TableSets(table, r, entry.name.key, entry.data)
  <2> SUFFICES ASSUME NEW key, NEW d
               PROVE  TableHolds(r, key, d)
                        <=> IF key = entry.name.key THEN d = entry.data ELSE TableHolds(table, key, d)
    BY DEF TableSets
  <2> QED BY <1>4, <1>5
<1>7. NoMoreDoubles(table, r)
  BY <1>1, <1>2, SameKeysDoubles
<1> QED BY <1>6, <1>7 DEF r

\* An entry of a new key put in: the old table is picked from the new one.
LEMMA InsertedHolds ==
  ASSUME NEW table \in Seq(Files), NEW entry \in Files, ~ HasKey(table, entry.name.key),
         NEW r \in Seq(Files), NEW i \in 1 .. Len(table) + 1, Inserted(table, r, i, entry)
  PROVE  TableSets(table, r, entry.name.key, entry.data) /\ NoMoreDoubles(table, r)
<1> DEFINE n == Len(table)
           e == [k \in 1 .. n |-> IF k < i THEN k ELSE k + 1]
<1>1. /\ n \in Nat /\ i \in 1 .. n + 1 /\ Len(r) = n + 1
      /\ \A j \in 1 .. n + 1 : r[j] = IF j < i THEN table[j] ELSE IF j = i THEN entry ELSE table[j - 1]
  BY LenProperties DEF Inserted
<1>2. e \in [1 .. n -> 1 .. n + 1] /\ \A k \in 1 .. n : e[k] = IF k < i THEN k ELSE k + 1
  <2> HIDE DEF n
  <2> QED BY <1>1
<1> HIDE DEF n, e
<1>3. \A k \in 1 .. n : table[k] = r[e[k]]
  <2> TAKE k \in 1 .. n
  <2>1. CASE k < i
    BY <1>1, <1>2, <2>1
  <2>2. CASE ~ (k < i)
    <3>1. e[k] = k + 1 /\ k + 1 \in 1 .. n + 1 /\ ~ (k + 1 < i) /\ k + 1 # i /\ (k + 1) - 1 = k
      BY <1>1, <1>2, <2>2
    <3> QED BY <1>1, <3>1
  <2> QED BY <2>1, <2>2
<1>4. \A k, l \in 1 .. n : (k # l => e[k] # e[l]) /\ (k < l => e[k] < e[l])
  <2> TAKE k, l \in 1 .. n
  <2>1. k \in Int /\ l \in Int /\ i \in Int
    BY <1>1
  <2>2. /\ e[k] = IF k < i THEN k ELSE k + 1
        /\ e[l] = IF l < i THEN l ELSE l + 1
    BY <1>2
  <2> QED BY <2>1, <2>2
<1>5. PickedFrom(r, table, e)
  BY <1>1, <1>2, <1>3, <1>4 DEF PickedFrom, n
<1>6. r[i] = entry /\ i \in 1 .. Len(r)
  BY <1>1
<1>7. \A j \in 1 .. Len(r) : r[j].name.key = entry.name.key => j = i
  <2> SUFFICES ASSUME NEW j \in 1 .. Len(r), r[j].name.key = entry.name.key, j # i PROVE FALSE
    OBVIOUS
  <2>1. CASE j < i
    <3>1. j \in 1 .. n /\ r[j] = table[j]
      BY <1>1, <2>1
    <3> QED BY <3>1 DEF HasKey, n
  <2>2. CASE ~ (j < i)
    <3>1. j - 1 \in 1 .. n /\ r[j] = table[j - 1]
      BY <1>1, <2>2
    <3> QED BY <3>1 DEF HasKey, n
  <2> QED BY <2>1, <2>2
<1>8. ASSUME NEW key, key # entry.name.key PROVE TakesAll(r, table, e, key)
  <2> SUFFICES ASSUME NEW j \in 1 .. Len(r), r[j].name.key = key
               PROVE  \E k \in 1 .. n : e[k] = j
    BY DEF TakesAll, n
  <2>1. j # i
    BY <1>6, <1>8
  <2>2. CASE j < i
    <3>1. j \in 1 .. n /\ e[j] = j
      BY <1>1, <1>2, <2>2
    <3> QED BY <3>1
  <2>3. CASE ~ (j < i)
    <3>1. j - 1 \in 1 .. n /\ e[j - 1] = j
      BY <1>1, <1>2, <2>1, <2>3
    <3> QED BY <3>1
  <2> QED BY <2>2, <2>3
<1>9. TableSets(table, r, entry.name.key, entry.data)
  <2> SUFFICES ASSUME NEW key, NEW d
               PROVE  TableHolds(r, key, d)
                        <=> IF key = entry.name.key THEN d = entry.data ELSE TableHolds(table, key, d)
    BY DEF TableSets
  <2>1. CASE key = entry.name.key
    <3>1. FirstOfKey(r, i)
      <4>1. \A j \in 1 .. i - 1 : j \in 1 .. Len(r) /\ j # i
        BY <1>6
      <4> QED BY <1>6, <1>7, <4>1 DEF FirstOfKey
    <3> QED BY <1>6, <2>1, <3>1, FirstIsHeld
  <2>2. CASE key # entry.name.key
    BY <1>5, <1>8, <2>2, PickedHolds
  <2> QED BY <2>1, <2>2
<1>10. NoMoreDoubles(table, r)
  <2> SUFFICES ASSUME NEW key, HasKey(r, key)
               PROVE  Count(r, key) = 1 \/ (HasKey(table, key) /\ Count(r, key) <= Count(table, key))
    BY DEF NoMoreDoubles
  <2>1. CASE key = entry.name.key
    <3>1. {k \in 1 .. Len(r) : r[k].name.key = key} = {i}
      BY <1>6, <1>7, <2>1
    <3> QED BY <3>1, FS_Singleton DEF Count
  <2>2. CASE key # entry.name.key
    <3>1. TakesAll(r, table, e, key)
      BY <1>8, <2>2
    <3>2. Count(r, key) \in Nat /\ Count(table, key) = Count(r, key)
      BY <1>5, <3>1, PickedCount
    <3>3. HasKey(table, key)
      BY <1>3, <3>1 DEF TakesAll, HasKey, n
    <3> QED BY <3>2, <3>3
  <2> QED BY <2>1, <2>2
<1> QED BY <1>9, <1>10

\* insert_or_replace, on a lowercase table.
LEMMA InsertOrReplaceHolds ==
  ASSUME NEW table \in Seq(Files), NEW entry \in Files, AllLower(table), IsLower(entry.name),
         NEW r \in InsertOrReplace(table, entry)
  PROVE  /\ TableSets(table, r, entry.name.key, entry.data)
         /\ NoMoreDoubles(table, r)
         /\ AllLower(r)
<1>1. r \in Seq(Files)
  BY InsertOrReplaceKeeps, TablesAreNamed
<1>2. CASE \E n \in 1 .. Len(table) : /\ table[n].name.key = entry.name.key
                                      /\ FirstOfKey(table, n)
                                      /\ r = [table EXCEPT ![n] = entry]
  <2>1. PICK n \in 1 .. Len(table) : /\ table[n].name.key = entry.name.key
                                     /\ FirstOfKey(table, n)
                                     /\ r = [table EXCEPT ![n] = entry]
    BY <1>2
  <2>2. AllLower(r)
    BY <2>1, OverwriteKeeps, TablesAreNamed
  <2> QED BY <2>1, <2>2, OverwrittenHolds
<1>3. CASE ~ HasKey(table, entry.name.key) /\ \E i \in 1 .. Len(table) + 1 : Inserted(table, r, i, entry)
  <2>1. PICK i \in 1 .. Len(table) + 1 : Inserted(table, r, i, entry)
    BY <1>3
  <2>2. \A j \in 1 .. Len(r) : r[j] = entry \/ \E k \in 1 .. Len(table) : r[j] = table[k]
    <3>1. /\ i \in 1 .. Len(table) + 1 /\ Len(table) \in Nat /\ Len(r) = Len(table) + 1
          /\ \A j \in 1 .. Len(r) : r[j] = IF j < i THEN table[j] ELSE IF j = i THEN entry ELSE table[j - 1]
      BY <2>1, LenProperties DEF Inserted
    <3> TAKE j \in 1 .. Len(r)
    <3>2. CASE j < i
      <4>1. j \in 1 .. Len(table) /\ r[j] = table[j]
        BY <3>1, <3>2
      <4> QED BY <4>1
    <3>3. CASE j = i
      BY <3>1, <3>3
    <3>4. CASE i < j
      <4>1. j - 1 \in 1 .. Len(table) /\ r[j] = table[j - 1]
        BY <3>1, <3>4
      <4> QED BY <4>1
    <3> QED BY <3>1, <3>2, <3>3, <3>4
  <2>3. AllLower(r)
    BY <1>1, <2>2 DEF AllLower
  <2> QED BY <1>1, <1>3, <2>1, <2>3, InsertedHolds
<1> QED BY <1>2, <1>3, InsertOrReplaceCases

\* retain picks the entries it keeps.
LEMMA RetainPicks ==
  ASSUME NEW table \in Seq(Files), NEW K \in SUBSET (1 .. Len(table))
  PROVE  \E e : /\ PickedFrom(table, Retain(table, K), e)
                /\ \A i \in K : \E k \in 1 .. Len(Retain(table, K)) : e[k] = i
<1> DEFINE R == {p \in K \X K : p[1] < p[2]}
           C == Cardinality(K)
           e == Enumerate(K, R)
           r == Retain(table, K)
<1>1. IsFiniteSet(K)
  <2>1. IsFiniteSet(1 .. Len(table))
    BY FS_Interval
  <2> QED BY <2>1, FS_Subset
<1>2. StrictOrder(K, R)
  <2>1. \A i \in K : i \in Int
    OBVIOUS
  <2> QED BY <2>1 DEF StrictOrder
<1>3. /\ C \in Nat /\ e \in [1 .. C -> K]
      /\ \A i \in K : \E k \in 1 .. C : e[k] = i
      /\ \A k, l \in 1 .. C : k < l => <<e[k], e[l]>> \in R
  <2> HIDE DEF R
  <2> QED BY <1>1, <1>2, EnumerateInOrder
<1>4. r = [k \in 1 .. C |-> table[e[k]]]
  BY DEF Retain
<1>5. \A k, l \in 1 .. C : k < l => e[k] < e[l]
  <2> HIDE DEF e, C
  <2> QED BY <1>3
<1> HIDE DEF e, C, R, r
<1>6. e \in [1 .. C -> 1 .. Len(table)]
  BY <1>3
<1>7. Len(r) = C /\ \A k \in 1 .. C : r[k] = table[e[k]]
  BY <1>3, <1>4, <1>6, PickedTable
<1>8. \A k, l \in 1 .. C : k # l => e[k] # e[l]
  <2> TAKE k, l \in 1 .. C
  <2>1. e[k] \in Int /\ e[l] \in Int
    BY <1>6
  <2>2. k < l => e[k] < e[l]
    BY <1>5
  <2>3. l < k => e[l] < e[k]
    BY <1>5
  <2> QED BY <1>3, <2>1, <2>2, <2>3
<1>9. PickedFrom(table, r, e)
  BY <1>5, <1>6, <1>7, <1>8 DEF PickedFrom
<1> QED BY <1>3, <1>7, <1>9 DEF r

\* A stable sort picks every entry.
LEMMA SortPicks ==
  ASSUME NEW table \in Seq(Files)
  PROVE  \E e : /\ PickedFrom(table, SortTable(table), e)
                /\ \A i \in 1 .. Len(table) : \E k \in 1 .. Len(SortTable(table)) : e[k] = i
<1> DEFINE K == 1 .. Len(table)
           R == NameOrder(table)
           C == Cardinality(K)
           e == Enumerate(K, R)
           r == SortTable(table)
<1>1. Len(table) \in Nat /\ IsFiniteSet(K) /\ C = Len(table)
  <2>1. Len(table) \in Nat
    OBVIOUS
  <2>2. IsFiniteSet(K)
    BY <2>1, FS_Interval
  <2>3. C = Len(table)
    BY <2>1, FS_Interval
  <2> QED BY <2>1, <2>2, <2>3
<1>2. StrictOrder(K, R)
  BY NameOrderStrict, TablesAreNamed
<1>3. /\ C \in Nat /\ e \in [1 .. C -> K]
      /\ \A i \in K : \E k \in 1 .. C : e[k] = i
      /\ \A k, l \in 1 .. C : k < l => <<e[k], e[l]>> \in R
  <2> HIDE DEF R, K
  <2> QED BY <1>1, <1>2, EnumerateInOrder
<1>4. r = [k \in 1 .. C |-> table[e[k]]]
  <2>1. K = 1 .. C
    BY <1>1
  <2> QED BY <1>1, <2>1 DEF SortTable
<1>5. \A i, j \in K : <<i, j>> \in R =>
        i < j \/ table[i].name.key < table[j].name.key
  <2>1. R = {p \in K \X K : \/ table[p[1]].name.key < table[p[2]].name.key
                           \/ /\ table[p[1]].name.key = table[p[2]].name.key
                              /\ p[1] < p[2]}
    BY DEF NameOrder
  <2> HIDE DEF K, R
  <2> QED BY <2>1
<1>6. \A i \in K : <<i, i>> \notin R
  BY <1>2 DEF StrictOrder
<1>7. \A i \in K : table[i].name.key \in Nat
  <2>1. \A i \in K : table[i] \in Files
    OBVIOUS
  <2> QED BY <2>1, TablesAreNamed, KeysAssumption DEF Named, Names
<1> HIDE DEF e, C, R, r
<1>8. Len(r) = C /\ \A k \in 1 .. C : r[k] = table[e[k]]
  BY <1>3, <1>4, PickedTable
<1>9. ASSUME NEW k \in 1 .. C, NEW l \in 1 .. C, k # l PROVE e[k] # e[l]
  <2>1. CASE k < l
    BY <1>3, <1>6, <2>1
  <2>2. CASE l < k
    BY <1>3, <1>6, <2>2
  <2> QED BY <1>3, <1>9, <2>1, <2>2
<1>10. ASSUME NEW k \in 1 .. C, NEW l \in 1 .. C, k < l, r[k].name.key = r[l].name.key
       PROVE  e[k] < e[l]
  <2>1. <<e[k], e[l]>> \in R /\ e[k] \in K /\ e[l] \in K
    BY <1>3, <1>10
  <2>2. table[e[k]].name.key = table[e[l]].name.key /\ table[e[k]].name.key \in Nat
    BY <1>7, <1>8, <1>10, <2>1
  <2>3. ~ (table[e[k]].name.key < table[e[l]].name.key)
    BY <2>2
  <2> QED BY <1>5, <2>1, <2>3
<1>11. PickedFrom(table, r, e)
  BY <1>3, <1>8, <1>9, <1>10 DEF PickedFrom
<1> QED BY <1>3, <1>8, <1>11 DEF r

\* retain, by name.
LEMMA RetainedHolds ==
  ASSUME NEW table \in Seq(Files), NEW K
  PROVE  LET L == {i \in DOMAIN table : table[i].name.key \notin K}
         IN  /\ \A key, d : TableHolds(Retain(table, L), key, d) <=> TableHolds(table, key, d) /\ key \notin K
             /\ NoMoreDoubles(table, Retain(table, L))
<1> DEFINE L == {i \in DOMAIN table : table[i].name.key \notin K}
           r == Retain(table, L)
<1>1. L \in SUBSET (1 .. Len(table))
  BY LenProperties
<1>2. \A i \in 1 .. Len(table) : i \in L <=> table[i].name.key \notin K
  BY LenProperties
<1> HIDE DEF L
<1>3. r \in Seq(Files)
  BY <1>1, RetainKeeps, TablesAreNamed
<1>4. \A k \in 1 .. Len(r) : \E i \in L : r[k] = table[i]
  BY <1>1, RetainKeeps, TablesAreNamed
<1>5. PICK e : PickedFrom(table, r, e) /\ \A i \in L : \E k \in 1 .. Len(r) : e[k] = i
  BY <1>1, RetainPicks
<1> HIDE DEF r
<1>6. ASSUME NEW key, NEW d
      PROVE  TableHolds(r, key, d) <=> TableHolds(table, key, d) /\ key \notin K
  <2>1. CASE key \in K
    <3>1. ~ HasKey(r, key)
      BY <1>1, <1>2, <1>4, <2>1 DEF HasKey
    <3> QED BY <1>3, <2>1, <3>1, HeldHasKey
  <2>2. CASE key \notin K
    <3>1. TakesAll(table, r, e, key)
      BY <1>2, <1>5, <2>2 DEF TakesAll
    <3> QED BY <1>3, <1>5, <2>2, <3>1, PickedHolds
  <2> QED BY <2>1, <2>2
<1>7. NoMoreDoubles(table, r)
  BY <1>3, <1>5, PickedDoubles
<1> QED BY <1>6, <1>7 DEF r, L

\* The sort is stable, so that doubles keep their order too.
LEMMA SortedHolds ==
  ASSUME NEW table \in Seq(Files)
  PROVE  /\ \A key, d : TableHolds(SortTable(table), key, d) <=> TableHolds(table, key, d)
         /\ NoMoreDoubles(table, SortTable(table))
<1> DEFINE r == SortTable(table)
<1>1. r \in Seq(Files)
  BY SortKeeps, TablesAreNamed
<1>2. PICK e : PickedFrom(table, r, e) /\ \A i \in 1 .. Len(table) : \E k \in 1 .. Len(r) : e[k] = i
  BY SortPicks
<1> HIDE DEF r
<1>3. \A key : TakesAll(table, r, e, key)
  BY <1>2 DEF TakesAll
<1> QED BY <1>1, <1>2, <1>3, PickedHolds, PickedDoubles DEF r

-----------------------------------------------------------------------------
(* Trees *)

TreeHolds(t, p, key, d) == p \in DOMAIN t /\ TableHolds(t[p].files, key, d)

\* Tree w is tree t with content d0 under key0 in folder p0.
TreeSets(t, w, p0, key0, d0) ==
  \A p, key, d : TreeHolds(w, p, key, d)
    <=> IF p = p0 /\ key = key0 THEN d = d0 ELSE TreeHolds(t, p, key, d)

SameInTree(t, u) == \A p, key, d : TreeHolds(u, p, key, d) <=> TreeHolds(t, p, key, d)

NoMoreDoublesIn(t, w) == \A p : NoMoreDoubles(FilesIn(t, p), FilesIn(w, p))

\* A folder that is not there holds nothing, as an empty one.
LEMMA HeldInFiles ==
  ASSUME NEW t
  PROVE  \A p, key, d : TreeHolds(t, p, key, d) <=> TableHolds(FilesIn(t, p), key, d)
<1>1. \A key, d : ~ TableHolds(<<>>, key, d)
  <2>1. Len(<<>>) = 0
    OBVIOUS
  <2> QED BY <2>1 DEF TableHolds
<1> QED BY <1>1 DEF TreeHolds, FilesIn

LEMMA FilesInTyped ==
  ASSUME NEW t, IsTree(t), NEW p
  PROVE  FilesIn(t, p) \in Seq(Files)
BY FolderParts DEF FilesIn

\* One file table of a tree is changed, and folders may be made on the way.
LEMMA TableChanged ==
  ASSUME NEW t, IsTree(t), NEW w, NEW dirs, NEW table,
         \A p : FilesIn(w, p) = IF p = dirs THEN table ELSE FilesIn(t, p)
  PROVE  /\ \A key0, d0 : TableSets(FilesIn(t, dirs), table, key0, d0) => TreeSets(t, w, dirs, key0, d0)
         /\ NoMoreDoubles(FilesIn(t, dirs), table) => NoMoreDoublesIn(t, w)
<1>1. ASSUME NEW key0, NEW d0, TableSets(FilesIn(t, dirs), table, key0, d0)
      PROVE  TreeSets(t, w, dirs, key0, d0)
  <2> SUFFICES ASSUME NEW p, NEW key, NEW d
               PROVE  TreeHolds(w, p, key, d)
                        <=> IF p = dirs /\ key = key0 THEN d = d0 ELSE TreeHolds(t, p, key, d)
    BY DEF TreeSets
  <2>1. /\ TreeHolds(w, p, key, d) <=> TableHolds(FilesIn(w, p), key, d)
        /\ TreeHolds(t, p, key, d) <=> TableHolds(FilesIn(t, p), key, d)
    BY HeldInFiles
  <2>2. CASE p = dirs
    BY <1>1, <2>1, <2>2 DEF TableSets
  <2>3. CASE p # dirs
    BY <2>1, <2>3
  <2> QED BY <2>2, <2>3
<1>2. ASSUME NoMoreDoubles(FilesIn(t, dirs), table), NEW p
      PROVE  NoMoreDoubles(FilesIn(t, p), FilesIn(w, p))
  <2>1. CASE p = dirs
    BY <1>2, <2>1
  <2>2. CASE p # dirs
    BY <2>2, FilesInTyped, SameKeysDoubles
  <2> QED BY <2>1, <2>2
<1> QED BY <1>1, <1>2 DEF NoMoreDoublesIn

\* The file tables of all folders are changed, each on its own.
LEMMA TablesChanged ==
  ASSUME NEW t, NEW w, DOMAIN w = DOMAIN t,
         \A p \in DOMAIN t : NoMoreDoubles(t[p].files, w[p].files)
  PROVE  NoMoreDoublesIn(t, w)
<1>1. NoMoreDoubles(<<>>, <<>>)
  BY DEF NoMoreDoubles, HasKey
<1> QED BY <1>1 DEF NoMoreDoublesIn, FilesIn

\* insert_or_replace sets the one member and no other, and makes no doubles: all
\* names it meets being lowercase, the exact lookup finds the rival of its key.
LEMMA InsertInTreeHolds ==
  ASSUME NEW t, IsTree(t), TreeLower(t), NEW rel \in Seq(Names) \ {<<>>},
         NEW file \in Files, NEW w \in InsertInTree(t, rel, file)
  PROVE  /\ TreeSets(t, w, Dirs(rel), file.name.key, file.data)
         /\ NoMoreDoublesIn(t, w)
         /\ TreeLower(w)
<1> DEFINE dirs    == Dirs(rel)
           lowered == [file EXCEPT !.name = Lower(@)]
           old     == FilesIn(t, dirs)
<1>1. old \in Seq(Files)
  BY FilesInTyped
<1>2. PICK table \in InsertOrReplace(old, lowered) : table \in Seq(Files) /\ TreeWith(t, w, dirs, table)
  BY InsertPlaces
<1>3. /\ lowered \in Files /\ IsLower(lowered.name)
      /\ lowered.name.key = file.name.key /\ lowered.data = file.data
  BY LoweredFile
<1>4. AllLower(old)
  BY DEF FilesIn, TreeLower, AllLower
<1>5. dirs \in Seq(Names) /\ \A i \in 1 .. Len(dirs) : IsLower(dirs[i])
  BY DirsAreLower
<1>6. \E u \in Descend(t, dirs) : DOMAIN w = DOMAIN u
  BY DEF InsertInTree
<1> HIDE DEF dirs, lowered, old
<1>7. /\ TableSets(old, table, file.name.key, file.data)
      /\ NoMoreDoubles(old, table)
      /\ AllLower(table)
  BY <1>1, <1>2, <1>3, <1>4, InsertOrReplaceHolds
<1>8. \A p : FilesIn(w, p) = IF p = dirs THEN table ELSE FilesIn(t, p)
  BY <1>2 DEF TreeWith
<1>9. TreeSets(t, w, dirs, file.name.key, file.data) /\ NoMoreDoublesIn(t, w)
  BY <1>7, <1>8, TableChanged DEF old
<1>10. TreeLower(w)
  <2>1. \A p \in DOMAIN w : AllLowerPath(p)
    BY <1>5, <1>6, DescendPaths DEF TreeLower
  <2>2. ASSUME NEW p \in DOMAIN w PROVE AllLower(w[p].files)
    <3>1. w[p].files = IF p = dirs THEN table ELSE FilesIn(t, p)
      BY <1>8 DEF FilesIn
    <3>2. AllLower(FilesIn(t, p))
      BY DEF FilesIn, TreeLower, AllLower
    <3> QED BY <1>7, <3>1, <3>2
  <2> QED BY <2>1, <2>2 DEF TreeLower
<1> QED BY <1>9, <1>10 DEF dirs

\* upsert_stored on a file that is there: the first of that key.
LEMMA OverwriteInTreeHolds ==
  ASSUME NEW t, IsTree(t), NEW rel \in Seq(Names) \ {<<>>},
         NEW file \in Files, file.name = Last(rel), Dirs(rel) \in DOMAIN t,
         FoldedPosition(t[Dirs(rel)].files, Last(rel)) # 0
  PROVE  LET w == Overwrite(t, rel, file)
         IN  /\ TreeSets(t, w, Dirs(rel), file.name.key, file.data)
             /\ NoMoreDoublesIn(t, w)
             /\ TreeLower(t) /\ IsLower(file.name) => TreeLower(w)
<1> DEFINE dirs == Dirs(rel)
           old == t[dirs].files
           k == FoldedPosition(old, Last(rel))
           new == [old EXCEPT ![k] = file]
           w == Overwrite(t, rel, file)
<1>1. dirs \in DOMAIN t /\ old \in Seq(Files) /\ k # 0
      /\ t[dirs] = [folders |-> t[dirs].folders, files |-> old]
  BY FolderParts
<1>2. w = [t EXCEPT ![dirs].files = new]
  BY DEF Overwrite
<1>3. k \in 1 .. Len(old) /\ file.name.key = old[k].name.key /\ FirstOfKey(old, k)
  <2>1. Last(rel) \in Names
    BY LastIsName
  <2> HIDE DEF old
  <2> QED BY <1>1, <2>1, FoldedPositionFound, FoldedPositionIsFirst
<1> HIDE DEF k, old, dirs, w
<1>4. TableSets(old, new, file.name.key, file.data) /\ NoMoreDoubles(old, new)
  BY <1>1, <1>3, OverwrittenHolds
<1>5. AllLower(old) /\ IsLower(file.name) => AllLower(new)
  BY <1>1, <1>3, OverwriteKeeps, TablesAreNamed
<1> HIDE DEF new
<1>6. DOMAIN w = DOMAIN t /\ w[dirs].files = new /\ \A p \in DOMAIN t : p # dirs => w[p] = t[p]
  BY <1>1, <1>2
<1>7. \A p : FilesIn(w, p) = IF p = dirs THEN new ELSE FilesIn(t, p)
  BY <1>1, <1>6 DEF FilesIn
<1>8. FilesIn(t, dirs) = old
  BY <1>1 DEF FilesIn, old
<1>9. TreeSets(t, w, dirs, file.name.key, file.data) /\ NoMoreDoublesIn(t, w)
  BY <1>4, <1>7, <1>8, TableChanged
<1>10. ASSUME TreeLower(t), IsLower(file.name) PROVE TreeLower(w)
  <2>1. AllLower(new)
    BY <1>1, <1>5, <1>10 DEF TreeLower, old
  <2> QED BY <1>6, <1>10, <2>1 DEF TreeLower
<1> QED BY <1>9, <1>10 DEF dirs, w

\* remove_files_where takes what it is asked to.
LEMMA RemoveInTreeHolds ==
  ASSUME NEW t, IsTree(t), NEW K
  PROVE  /\ \A p, key, d : TreeHolds(RemoveFrom(t, K), p, key, d) <=> TreeHolds(t, p, key, d) /\ key \notin K
         /\ NoMoreDoublesIn(t, RemoveFrom(t, K))
         /\ TreeLower(t) => TreeLower(RemoveFrom(t, K))
<1> DEFINE w == RemoveFrom(t, K)
           Left(p) == {i \in DOMAIN t[p].files : t[p].files[i].name.key \notin K}
<1>1. DOMAIN w = DOMAIN t
  BY DEF RemoveFrom
<1>2. ASSUME NEW p \in DOMAIN t
      PROVE  w[p].files = Retain(t[p].files, Left(p)) /\ t[p].files \in Seq(Files)
  <2>1. t[p] = [folders |-> t[p].folders, files |-> t[p].files] /\ t[p].files \in Seq(Files)
    BY FolderParts
  <2> DEFINE r == Retain(t[p].files, Left(p))
  <2>2. w[p] = [t[p] EXCEPT !.files = r]
    BY DEF RemoveFrom
  <2> HIDE DEF w, r
  <2>3. w[p].files = r
    BY <2>1, <2>2
  <2> QED BY <2>1, <2>3 DEF r
<1> HIDE DEF w
<1>3. ASSUME NEW p \in DOMAIN t
      PROVE  /\ \A key, d : TableHolds(w[p].files, key, d) <=> TableHolds(t[p].files, key, d) /\ key \notin K
             /\ NoMoreDoubles(t[p].files, w[p].files)
             /\ AllLower(t[p].files) => AllLower(w[p].files)
  <2> DEFINE f == t[p].files
             L == {i \in DOMAIN f : f[i].name.key \notin K}
  <2>1. w[p].files = Retain(f, L) /\ f \in Seq(Files)
    BY <1>2
  <2> HIDE DEF f
  <2>2. /\ \A key, d : TableHolds(Retain(f, L), key, d) <=> TableHolds(f, key, d) /\ key \notin K
        /\ NoMoreDoubles(f, Retain(f, L))
    BY <2>1, RetainedHolds
  <2>3. AllLower(f) => AllLower(Retain(f, L))
    <3>1. L \in SUBSET (1 .. Len(f))
      BY <2>1, LenProperties
    <3> QED BY <2>1, <3>1, RetainKeeps
  <2> HIDE DEF L
  <2> QED BY <2>1, <2>2, <2>3 DEF f
<1>4. \A p, key, d : TreeHolds(w, p, key, d) <=> TreeHolds(t, p, key, d) /\ key \notin K
  BY <1>1, <1>3 DEF TreeHolds
<1>5. NoMoreDoublesIn(t, w)
  BY <1>1, <1>3, TablesChanged
<1>6. TreeLower(t) => TreeLower(w)
  BY <1>1, <1>3 DEF TreeLower
<1> QED BY <1>4, <1>5, <1>6 DEF w

\* sort_directories moves files about and changes none.
LEMMA SortTreeHolds ==
  ASSUME NEW t, IsTree(t)
  PROVE  /\ SameInTree(t, SortTree(t)) /\ NoMoreDoublesIn(t, SortTree(t))
         /\ TreeLower(t) => TreeLower(SortTree(t))
<1> DEFINE w == SortTree(t)
<1>1. DOMAIN w = DOMAIN t /\ \A p \in DOMAIN t : w[p].files = SortTable(t[p].files)
  BY DEF SortTree
<1> HIDE DEF w
<1>2. ASSUME NEW p \in DOMAIN t
      PROVE  /\ \A key, d : TableHolds(w[p].files, key, d) <=> TableHolds(t[p].files, key, d)
             /\ NoMoreDoubles(t[p].files, w[p].files)
             /\ AllLower(t[p].files) => AllLower(w[p].files)
  <2>1. t[p].files \in Seq(Files)
    BY FolderParts
  <2>2. AllLower(t[p].files) => AllLower(SortTable(t[p].files))
    BY <2>1, SortKeeps, TablesAreNamed
  <2> QED BY <1>1, <2>1, <2>2, SortedHolds
<1>3. SameInTree(t, w)
  BY <1>1, <1>2 DEF SameInTree, TreeHolds
<1>4. NoMoreDoublesIn(t, w)
  BY <1>1, <1>2, TablesChanged
<1>5. TreeLower(t) => TreeLower(w)
  BY <1>1, <1>2 DEF TreeLower
<1> QED BY <1>3, <1>4, <1>5 DEF w

\* prune_empty_folders takes folders without files only.
LEMMA PruneTreeHolds ==
  ASSUME NEW t, IsTree(t)
  PROVE  /\ SameInTree(t, PruneTree(t)) /\ NoMoreDoublesIn(t, PruneTree(t))
         /\ TreeLower(t) => TreeLower(PruneTree(t))
<1> DEFINE w == PruneTree(t)
           kept == {p \in DOMAIN t : p = <<>> \/ HoldsFiles(t, p)}
<1>1. DOMAIN w = kept /\ kept \subseteq DOMAIN t
  BY DEF PruneTree
<1>2. ASSUME NEW p \in kept PROVE w[p].files = t[p].files
  <2>1. t[p] = [folders |-> t[p].folders, files |-> t[p].files]
    BY FolderParts
  <2> DEFINE r == Retain(t[p].folders, {i \in DOMAIN t[p].folders :
                                          Append(p, t[p].folders[i].name) \in kept})
  <2>2. w[p] = [t[p] EXCEPT !.folders = r]
    BY DEF PruneTree
  <2> HIDE DEF w, r, kept
  <2> QED BY <2>1, <2>2
<1>3. ASSUME NEW p \in DOMAIN t, p \notin kept PROVE t[p].files = <<>>
  <2>1. p \in Seq(Names)
    BY FolderParts
  <2>2. IsPrefix(p, p)
    BY <2>1, PrefixPointwise, LenProperties
  <2> QED BY <1>3, <2>2 DEF HoldsFiles
<1> HIDE DEF w, kept
<1>4. \A p : FilesIn(w, p) = FilesIn(t, p)
  BY <1>1, <1>2, <1>3 DEF FilesIn
<1>5. SameInTree(t, w)
  BY <1>4, HeldInFiles DEF SameInTree
<1>6. NoMoreDoublesIn(t, w)
  BY <1>4, FilesInTyped, SameKeysDoubles DEF NoMoreDoublesIn
<1>7. TreeLower(t) => TreeLower(w)
  BY <1>1, <1>2 DEF TreeLower
<1> QED BY <1>5, <1>6, <1>7 DEF w

\* repackage_art changes how files are stored, not what they hold.
LEMMA RepackageInHolds ==
  ASSUME NEW t, IsTree(t), NEW done
  PROVE  /\ SameInTree(t, RepackageIn(t, done)) /\ NoMoreDoublesIn(t, RepackageIn(t, done))
         /\ TreeLower(t) => TreeLower(RepackageIn(t, done))
<1> DEFINE w == RepackageIn(t, done)
           New(p, k) == IF \E s \in done : s.path = p /\ s.file = k
                        THEN Repackaged(t[p].files[k])
                        ELSE t[p].files[k]
           table(p) == [k \in DOMAIN t[p].files |-> New(p, k)]
<1>1. DOMAIN w = DOMAIN t
  BY DEF RepackageIn
<1>2. ASSUME NEW p \in DOMAIN t PROVE w[p].files = table(p)
  <2>1. t[p] = [folders |-> t[p].folders, files |-> t[p].files]
    BY FolderParts
  <2> DEFINE r == table(p)
  <2>2. w[p] = [t[p] EXCEPT !.files = r]
    BY DEF RepackageIn
  <2> HIDE DEF w, r, New
  <2>3. w[p].files = r
    BY <2>1, <2>2
  <2> QED BY <2>3 DEF r
<1>3. ASSUME NEW p \in DOMAIN t, NEW k \in DOMAIN t[p].files
      PROVE  New(p, k).name = t[p].files[k].name /\ New(p, k).data = t[p].files[k].data
  <2> DEFINE f == t[p].files[k]
  <2>1. f \in Files
    BY FolderParts
  <2>2. Repackaged(f).name = f.name /\ Repackaged(f).data = f.data
    <3> HIDE DEF f
    <3> QED BY <2>1 DEF Repackaged, Files
  <2> QED BY <2>2
<1>4. ASSUME NEW p \in DOMAIN t
      PROVE  Len(table(p)) = Len(t[p].files) /\ DOMAIN t[p].files = 1 .. Len(t[p].files)
  <2>1. t[p].files \in Seq(Files)
    BY FolderParts
  <2>2. Len(t[p].files) \in Nat /\ DOMAIN t[p].files = 1 .. Len(t[p].files)
    BY <2>1, LenProperties
  <2> HIDE DEF New
  <2>3. table(p) \in [1 .. Len(t[p].files) -> {New(p, k) : k \in DOMAIN t[p].files}]
    BY <2>2
  <2> QED BY <2>2, <2>3
<1> HIDE DEF w, New
<1>5. ASSUME NEW p \in DOMAIN t
      PROVE  /\ \A key, d : TableHolds(w[p].files, key, d) <=> TableHolds(t[p].files, key, d)
             /\ NoMoreDoubles(t[p].files, w[p].files)
             /\ AllLower(t[p].files) => AllLower(w[p].files)
  <2> DEFINE f == t[p].files
             g == w[p].files
  <2>1. \A k \in 1 .. Len(f) : g[k].name = f[k].name /\ g[k].data = f[k].data
    BY <1>2, <1>3, <1>4
  <2>2. Len(g) = Len(f) /\ f \in Seq(Files) /\ DOMAIN g = DOMAIN f /\ DOMAIN f = 1 .. Len(f)
    BY <1>2, <1>4, FolderParts
  <2> HIDE DEF f, g
  <2>3. \A k \in 1 .. Len(f) : FirstOfKey(g, k) <=> FirstOfKey(f, k)
    <3> TAKE k \in 1 .. Len(f)
    <3>1. \A j \in 1 .. k - 1 : j \in 1 .. Len(f)
      BY <2>2
    <3> QED BY <2>1, <3>1 DEF FirstOfKey
  <2>4. \A key, d : TableHolds(g, key, d) <=> TableHolds(f, key, d)
    BY <2>1, <2>2, <2>3 DEF TableHolds
  <2>5. NoMoreDoubles(f, g)
    BY <2>1, <2>2, SameKeysDoubles
  <2>6. AllLower(f) => AllLower(g)
    BY <2>1, <2>2 DEF AllLower
  <2> QED BY <2>4, <2>5, <2>6 DEF f, g
<1>6. SameInTree(t, w)
  BY <1>1, <1>5 DEF SameInTree, TreeHolds
<1>7. NoMoreDoublesIn(t, w)
  BY <1>1, <1>5, TablesChanged
<1>8. TreeLower(t) => TreeLower(w)
  BY <1>1, <1>5 DEF TreeLower
<1> QED BY <1>6, <1>7, <1>8 DEF w

-----------------------------------------------------------------------------
(* Paths that part, and their order in a tree. *)

\* Where a file of a path goes, in lowercase.
LEMMA LoweredPathIs ==
  ASSUME NEW rel \in Seq(Names) \ {<<>>}, NEW other \in Seq(Names) \ {<<>>}
  PROVE  /\ LowerPath(rel) \in Seq(Names) \ {<<>>}
         /\ other = LowerPath(rel) <=> Front(other) = Dirs(rel) /\ Last(other) = Lower(Last(rel))
<1> DEFINE n == Len(rel)
           p == LowerPath(rel)
<1>1. n \in Nat /\ n >= 1 /\ DOMAIN rel = 1 .. n /\ \A i \in 1 .. n : rel[i] \in Names
  BY EmptySeq
<1>2. \A i \in 1 .. n : Lower(rel[i]) \in Names
  BY <1>1, LowerIsLower
<1>3. p = [i \in 1 .. n |-> Lower(rel[i])]
  BY <1>1 DEF LowerPath
<1>4. p \in Seq(Names) /\ Len(p) = n /\ \A i \in 1 .. n : p[i] = Lower(rel[i])
  <2> HIDE DEF n
  <2> QED BY <1>1, <1>2, <1>3
<1>5. p # <<>>
  BY <1>1, <1>4, EmptySeq
<1> HIDE DEF p
<1>6. /\ Front(p) \in Seq(Names) /\ Append(Front(p), Last(p)) = p /\ Len(Front(p)) = n - 1
      /\ \A i \in 1 .. n - 1 : Front(p)[i] = p[i]
  BY <1>4, <1>5, FrontAndLast
<1>7. Dirs(rel) \in Seq(Names) /\ Len(Dirs(rel)) = n - 1
      /\ \A i \in 1 .. n - 1 : Dirs(rel)[i] = Lower(rel[i])
  <2>1. Dirs(rel) \in Seq(Names)
    BY DirsAreLower
  <2> QED BY <1>1, <2>1 DEF Dirs
<1>8. Front(p) = Dirs(rel)
  <2> DEFINE a == Front(p)
             b == Dirs(rel)
  <2>1. a \in Seq(Names) /\ b \in Seq(Names) /\ Len(a) = Len(b)
    BY <1>6, <1>7
  <2>2. \A i \in 1 .. Len(a) : a[i] = b[i]
    BY <1>1, <1>4, <1>6, <1>7
  <2> HIDE DEF a, b
  <2>3. a = b
    BY <2>1, <2>2, SeqEqual
  <2> QED BY <2>3 DEF a, b
<1>9. Last(p) = Lower(Last(rel))
  BY <1>1, <1>4 DEF Last
<1>10. Append(Front(other), Last(other)) = other
  BY FrontAndLast
<1> QED BY <1>4, <1>5, <1>6, <1>8, <1>9, <1>10 DEF p

\* Where p and q part.
Parts(p, q, i) ==
  /\ i \in 1 .. Len(p) /\ i <= Len(q) /\ p[i] # q[i]
  /\ \A j \in 1 .. i - 1 : p[j] = q[j]

LEMMA PartsOnce ==
  ASSUME NEW p \in Seq(Names), NEW q \in Seq(Names), NEW i, NEW j,
         Parts(p, q, i), Parts(p, q, j)
  PROVE  i = j
<1>1. i \in Nat /\ j \in Nat /\ i >= 1 /\ j >= 1
  BY DEF Parts
<1>2. ~ i < j
  <2> SUFFICES ASSUME i < j PROVE FALSE
    OBVIOUS
  <2>1. i \in 1 .. j - 1
    BY <1>1
  <2> QED BY <2>1 DEF Parts
<1>3. ~ j < i
  <2> SUFFICES ASSUME j < i PROVE FALSE
    OBVIOUS
  <2>1. j \in 1 .. i - 1
    BY <1>1
  <2> QED BY <2>1 DEF Parts
<1> QED BY <1>1, <1>2, <1>3

LEMMA PathsPartOrLead ==
  ASSUME NEW p \in Seq(Names), NEW q \in Seq(Names)
  PROVE  IsPrefix(p, q) \/ IsPrefix(q, p) \/ \E i \in Nat : Parts(p, q, i)
<1> SUFFICES ASSUME ~ IsPrefix(p, q), ~ IsPrefix(q, p) PROVE \E i \in Nat : Parts(p, q, i)
  OBVIOUS
<1>1. Len(p) \in Nat /\ Len(q) \in Nat
  OBVIOUS
<1> DEFINE D == {i \in 1 .. Len(p) : i > Len(q) \/ p[i] # q[i]}
<1>2. D # {}
  <2> SUFFICES ASSUME D = {} PROVE FALSE
    OBVIOUS
  <2>1. \A i \in 1 .. Len(p) : i <= Len(q) /\ p[i] = q[i]
    BY <1>1
  <2>2. Len(p) <= Len(q)
    BY <1>1, <2>1
  <2> QED BY <2>1, <2>2, PrefixPointwise
<1>3. PICK i \in D : \A j \in D : i <= j
  <2>1. D \subseteq Nat
    OBVIOUS
  <2> HIDE DEF D
  <2> QED BY <1>2, <2>1, LeastNatural
<1>4. \A j \in 1 .. i - 1 : j <= Len(q) /\ p[j] = q[j]
  BY <1>1, <1>3
<1>5. i <= Len(q)
  <2> SUFFICES ASSUME i > Len(q) PROVE FALSE
    BY <1>1
  <2>1. Len(q) <= Len(p) /\ \A j \in 1 .. Len(q) : q[j] = p[j]
    BY <1>1, <1>4
  <2> QED BY <2>1, PrefixPointwise
<1>6. Parts(p, q, i)
  BY <1>3, <1>4, <1>5 DEF Parts
<1> QED BY <1>6

\* The folders a path leads through are there, and each lists the next.
LEMMA FoldersAbove ==
  ASSUME NEW t, IsTree(t), NEW p \in DOMAIN t
  PROVE  \A m \in 0 .. Len(p) :
           /\ SubSeq(p, 1, m) \in DOMAIN t
           /\ m < Len(p) => \E i \in DOMAIN t[SubSeq(p, 1, m)].folders :
                              t[SubSeq(p, 1, m)].folders[i].name = p[m + 1]
<1>1. p \in Seq(Names) /\ Len(p) \in Nat
  BY FolderParts
<1> DEFINE up(k) == SubSeq(p, 1, Len(p) - k)
           bad   == {k \in 0 .. Len(p) : up(k) \notin DOMAIN t}
<1>2. ASSUME NEW m \in 0 .. Len(p) - 1, SubSeq(p, 1, m + 1) \in DOMAIN t
      PROVE  /\ SubSeq(p, 1, m) \in DOMAIN t
             /\ \E i \in DOMAIN t[SubSeq(p, 1, m)].folders :
                  t[SubSeq(p, 1, m)].folders[i].name = p[m + 1]
  <2> DEFINE a == SubSeq(p, 1, m)
             b == SubSeq(p, 1, m + 1)
  <2>1. m \in 0 .. Len(p) /\ p[m + 1] \in Names
    BY <1>1
  <2>2. a \in Seq(Names) /\ Append(a, p[m + 1]) = b
    BY <1>1, <2>1, PrefixParts, PrefixGrows
  <2> HIDE DEF a, b
  <2>3. b # <<>> /\ Front(b) = a /\ Last(b) = p[m + 1]
    BY <2>1, <2>2, FrontOfAppend
  <2>4. b \in DOMAIN t
    BY <1>2 DEF b
  <2>5. a \in DOMAIN t /\ \E i \in DOMAIN t[a].folders : t[a].folders[i].name = p[m + 1]
    BY <2>3, <2>4 DEF IsTree
  <2> QED BY <2>5 DEF a
<1>3. bad = {}
  <2> SUFFICES ASSUME bad # {} PROVE FALSE
    OBVIOUS
  <2>1. PICK k \in bad : \A j \in bad : k <= j
    <3>1. bad \subseteq Nat
      OBVIOUS
    <3> HIDE DEF bad
    <3> QED BY <3>1, LeastNatural
  <2>2. k # 0
    <3>1. SubSeq(p, 1, Len(p)) = p /\ Len(p) - 0 = Len(p)
      BY <1>1, SubSeqFull
    <3>2. up(0) = p
      BY <3>1
    <3> QED BY <3>2
  <2> DEFINE m == Len(p) - k
  <2>3. m \in 0 .. Len(p) - 1 /\ k - 1 \in 0 .. Len(p) /\ Len(p) - (k - 1) = m + 1
    BY <1>1, <2>2
  <2>4. k - 1 \notin bad
    BY <1>1, <2>1, <2>2
  <2>5. SubSeq(p, 1, m + 1) \in DOMAIN t
    BY <2>3, <2>4
  <2>6. SubSeq(p, 1, m) \in DOMAIN t
    <3> HIDE DEF m
    <3> QED BY <1>2, <2>3, <2>5
  <2> QED BY <2>6
<1>4. ASSUME NEW m \in 0 .. Len(p) PROVE SubSeq(p, 1, m) \in DOMAIN t
  <2>1. Len(p) - m \in 0 .. Len(p) /\ Len(p) - (Len(p) - m) = m
    BY <1>1
  <2> QED BY <1>3, <2>1
<1>5. ASSUME NEW m \in 0 .. Len(p), m < Len(p)
      PROVE  \E i \in DOMAIN t[SubSeq(p, 1, m)].folders :
               t[SubSeq(p, 1, m)].folders[i].name = p[m + 1]
  <2>1. m \in 0 .. Len(p) - 1 /\ m + 1 \in 0 .. Len(p)
    BY <1>1, <1>5
  <2> HIDE DEF bad
  <2>2. SubSeq(p, 1, m + 1) \in DOMAIN t
    BY <1>4, <2>1
  <2> QED BY <1>2, <2>1, <2>2
<1> QED BY <1>4, <1>5

\* The place among its siblings of the i-th folder a path leads through.
Rank(t, p, i) == Position(t[SubSeq(p, 1, i - 1)].folders, p[i])

LEMMA RankAfterSame ==
  ASSUME NEW t, NEW p \in Seq(Names), NEW q \in Seq(Names), NEW i \in 1 .. Len(p), i <= Len(q),
         \A j \in 1 .. i - 1 : p[j] = q[j]
  PROVE  /\ SubSeq(p, 1, i - 1) = SubSeq(q, 1, i - 1)
         /\ p[i] = q[i] => Rank(t, p, i) = Rank(t, q, i)
<1> DEFINE n == i - 1
           a == SubSeq(p, 1, n)
           b == SubSeq(q, 1, n)
<1>1. n \in 0 .. Len(p) /\ n \in 0 .. Len(q) /\ n \in Nat /\ \A j \in 1 .. n : p[j] = q[j]
  OBVIOUS
<1> HIDE DEF n
<1>2. a \in Seq(Names) /\ Len(a) = n /\ \A j \in 1 .. n : a[j] = p[j]
  BY <1>1, PrefixParts
<1>3. b \in Seq(Names) /\ Len(b) = n /\ \A j \in 1 .. n : b[j] = q[j]
  BY <1>1, PrefixParts
<1> HIDE DEF a, b
<1>4. a = b
  BY <1>1, <1>2, <1>3, SeqEqual
<1> QED BY <1>4 DEF Rank, a, b, n

LEMMA RanksDiffer ==
  ASSUME NEW t, IsTree(t), NEW p \in DOMAIN t, NEW q \in DOMAIN t, NEW i \in Nat, Parts(p, q, i)
  PROVE  /\ Rank(t, p, i) \in Nat /\ Rank(t, q, i) \in Nat
         /\ Rank(t, p, i) # Rank(t, q, i)
         /\ DepthFirst(t, p, q) <=> Rank(t, p, i) < Rank(t, q, i)
<1>1. /\ p \in Seq(Names) /\ q \in Seq(Names) /\ Len(p) \in Nat /\ Len(q) \in Nat
      /\ i \in 1 .. Len(p) /\ i <= Len(q) /\ p[i] # q[i]
      /\ \A j \in 1 .. i - 1 : p[j] = q[j]
  BY FolderParts DEF Parts
<1> DEFINE n == i - 1
           a == SubSeq(p, 1, n)
           siblings == t[a].folders
<1>2. a = SubSeq(q, 1, n)
  BY <1>1, RankAfterSame
<1>3. n \in 0 .. Len(p) /\ n \in 0 .. Len(q) /\ n < Len(p) /\ n < Len(q) /\ n + 1 = i
  BY <1>1
<1>4. /\ a \in DOMAIN t
      /\ \E k \in DOMAIN siblings : siblings[k].name = p[i]
      /\ \E k \in DOMAIN siblings : siblings[k].name = q[i]
  <2> HIDE DEF n
  <2>1. /\ SubSeq(p, 1, n) \in DOMAIN t
        /\ \E k \in DOMAIN t[SubSeq(p, 1, n)].folders : t[SubSeq(p, 1, n)].folders[k].name = p[n + 1]
    BY <1>3, FoldersAbove
  <2>2. \E k \in DOMAIN t[SubSeq(q, 1, n)].folders : t[SubSeq(q, 1, n)].folders[k].name = q[n + 1]
    BY <1>3, FoldersAbove
  <2> QED BY <1>2, <1>3, <2>1, <2>2
<1>5. siblings \in Seq(ChildEntries) /\ DOMAIN siblings = 1 .. Len(siblings) /\ Len(siblings) \in Nat
  BY <1>4, FolderParts
<1>6. /\ Position(siblings, p[i]) \in Nat /\ siblings[Position(siblings, p[i])].name = p[i]
      /\ Position(siblings, q[i]) \in Nat /\ siblings[Position(siblings, q[i])].name = q[i]
  <2> HIDE DEF siblings
  <2>1. Position(siblings, p[i]) \in 0 .. Len(siblings) /\ Position(siblings, q[i]) \in 0 .. Len(siblings)
    BY <1>5, PositionFound
  <2>2. Position(siblings, p[i]) # 0
    BY <1>4, <1>5, PositionFound
  <2>3. Position(siblings, q[i]) # 0
    BY <1>4, <1>5, PositionFound
  <2>4. siblings[Position(siblings, p[i])].name = p[i]
    BY <1>5, <2>2, PositionFound
  <2>5. siblings[Position(siblings, q[i])].name = q[i]
    BY <1>5, <2>3, PositionFound
  <2> QED BY <2>1, <2>4, <2>5
<1>7. Rank(t, p, i) = Position(siblings, p[i]) /\ Rank(t, q, i) = Position(siblings, q[i])
  BY <1>2 DEF Rank
<1>8. ASSUME Rank(t, p, i) < Rank(t, q, i) PROVE DepthFirst(t, p, q)
  <2>1. n \in 0 .. Len(p) - 1
    BY <1>1, <1>3
  <2>2. Position(siblings, p[n + 1]) < Position(siblings, q[n + 1])
    BY <1>3, <1>7, <1>8
  <2> HIDE DEF n
  <2> QED BY <1>2, <1>3, <2>1, <2>2 DEF DepthFirst
<1>9. ASSUME DepthFirst(t, p, q) PROVE Rank(t, p, i) < Rank(t, q, i)
  <2>1. ~ IsPrefix(p, q)
    BY <1>1, PrefixPointwise
  <2>2. PICK m \in 0 .. Len(p) - 1 :
          /\ m < Len(q) /\ SubSeq(p, 1, m) = SubSeq(q, 1, m)
          /\ Position(t[SubSeq(p, 1, m)].folders, p[m + 1])
               < Position(t[SubSeq(p, 1, m)].folders, q[m + 1])
    BY <1>9, <2>1 DEF DepthFirst, IsStrictPrefix
  <2>3. m \in Nat /\ m \in 0 .. Len(p) /\ m \in 0 .. Len(q)
    BY <1>1, <2>2
  <2>4. /\ \A j \in 1 .. m : SubSeq(p, 1, m)[j] = p[j]
        /\ \A j \in 1 .. m : SubSeq(q, 1, m)[j] = q[j]
    BY <1>1, <2>3, PrefixParts
  <2>5. \A j \in 1 .. m : p[j] = q[j]
    BY <2>2, <2>4
  <2>6. p[m + 1] # q[m + 1]
    <3> SUFFICES ASSUME p[m + 1] = q[m + 1] PROVE FALSE
      OBVIOUS
    <3> DEFINE k == Position(t[SubSeq(p, 1, m)].folders, p[m + 1])
    <3>1. k < k
      BY <2>2
    <3>2. k \in Nat
      <4>1. SubSeq(p, 1, m) \in DOMAIN t
        BY <2>3, FoldersAbove
      <4>2. t[SubSeq(p, 1, m)].folders \in Seq(ChildEntries)
        BY <4>1, FolderParts
      <4>3. k \in 0 .. Len(t[SubSeq(p, 1, m)].folders)
        BY <4>2, PositionFound
      <4> QED BY <4>3
    <3> QED BY <3>1, <3>2
  <2>7. m + 1 \in 1 .. Len(p) /\ m + 1 <= Len(q) /\ m + 1 - 1 = m
    BY <1>1, <2>2, <2>3
  <2>8. Parts(p, q, m + 1)
    BY <2>5, <2>6, <2>7 DEF Parts
  <2>9. m + 1 = i
    BY <1>1, <2>8, PartsOnce
  <2>10. m = n
    BY <1>3, <2>3, <2>9
  <2> QED BY <1>3, <1>7, <2>2, <2>9, <2>10
<1> HIDE DEF siblings
<1> QED BY <1>1, <1>6, <1>7, <1>8, <1>9

\* The order of a walk down the tree is an order of its folders.
LEMMA DepthFirstOrders ==
  ASSUME NEW t, IsTree(t)
  PROVE  /\ \A p \in DOMAIN t : ~ DepthFirst(t, p, p)
         /\ \A p, q \in DOMAIN t : p # q => DepthFirst(t, p, q) \/ DepthFirst(t, q, p)
         /\ \A p, q, r \in DOMAIN t :
              DepthFirst(t, p, q) /\ DepthFirst(t, q, r) => DepthFirst(t, p, r)
<1> DEFINE K == DOMAIN t
<1>1. \A p \in K : p \in Seq(Names) /\ Len(p) \in Nat
  BY FolderParts
<1>2. ASSUME NEW p \in K, NEW q \in K, IsPrefix(p, q), p # q PROVE Len(p) < Len(q)
  <2>1. Len(p) <= Len(q) /\ \A i \in 1 .. Len(p) : p[i] = q[i]
    BY <1>1, <1>2, PrefixPointwise
  <2>2. Len(p) # Len(q)
    BY <1>1, <1>2, <2>1, SeqEqual
  <2> QED BY <1>1, <2>1, <2>2
<1>3. ASSUME NEW p \in K PROVE ~ DepthFirst(t, p, p)
  <2> SUFFICES ASSUME DepthFirst(t, p, p) PROVE FALSE
    OBVIOUS
  <2>1. PICK n \in 0 .. Len(p) - 1 :
          Position(t[SubSeq(p, 1, n)].folders, p[n + 1]) < Position(t[SubSeq(p, 1, n)].folders, p[n + 1])
    BY DEF DepthFirst, IsStrictPrefix
  <2>2. n \in 0 .. Len(p) /\ SubSeq(p, 1, n) \in DOMAIN t
    BY <1>1, <2>1, FoldersAbove
  <2>3. t[SubSeq(p, 1, n)].folders \in Seq(ChildEntries)
    BY <2>2, FolderParts
  <2>4. Position(t[SubSeq(p, 1, n)].folders, p[n + 1]) \in 0 .. Len(t[SubSeq(p, 1, n)].folders)
    BY <2>3, PositionFound
  <2> QED BY <2>1, <2>4
<1>4. ASSUME NEW p \in K, NEW q \in K, p # q PROVE DepthFirst(t, p, q) \/ DepthFirst(t, q, p)
  <2>1. CASE IsPrefix(p, q) \/ IsPrefix(q, p)
    BY <1>4, <2>1 DEF DepthFirst, IsStrictPrefix
  <2>2. CASE \E i \in Nat : Parts(p, q, i)
    <3>1. PICK i \in Nat : Parts(p, q, i)
      BY <2>2
    <3>2. Parts(q, p, i)
      BY <1>1, <3>1 DEF Parts
    <3>3. Rank(t, p, i) \in Nat /\ Rank(t, q, i) \in Nat /\ Rank(t, p, i) # Rank(t, q, i)
      BY <3>1, RanksDiffer
    <3>4. /\ DepthFirst(t, p, q) <=> Rank(t, p, i) < Rank(t, q, i)
          /\ DepthFirst(t, q, p) <=> Rank(t, q, i) < Rank(t, p, i)
      BY <3>1, <3>2, RanksDiffer
    <3> QED BY <3>3, <3>4
  <2> QED BY <1>1, <2>1, <2>2, PathsPartOrLead
\* What goes before another leads to it, or parts from it to an earlier sibling.
<1>5. ASSUME NEW p \in K, NEW q \in K, DepthFirst(t, p, q)
      PROVE  \/ IsPrefix(p, q) /\ Len(p) < Len(q)
             \/ \E i \in Nat : Parts(p, q, i) /\ Rank(t, p, i) < Rank(t, q, i)
  <2>1. p # q
    BY <1>3, <1>5
  <2>2. CASE IsPrefix(p, q)
    BY <1>2, <2>1, <2>2
  <2>3. CASE IsPrefix(q, p)
    <3>1. Len(q) <= Len(p) /\ \A i \in 1 .. Len(q) : q[i] = p[i]
      BY <1>1, <2>3, PrefixPointwise
    <3>2. ~ IsPrefix(p, q)
      BY <1>1, <1>2, <2>1, <2>3
    <3>3. PICK n \in 0 .. Len(p) - 1 :
            /\ n < Len(q)
            /\ Position(t[SubSeq(p, 1, n)].folders, p[n + 1])
                 < Position(t[SubSeq(p, 1, n)].folders, q[n + 1])
      BY <1>5, <3>2 DEF DepthFirst, IsStrictPrefix
    <3>4. p[n + 1] = q[n + 1] /\ n \in 0 .. Len(p)
      BY <1>1, <3>1, <3>3
    <3>5. SubSeq(p, 1, n) \in DOMAIN t
      BY <3>4, FoldersAbove
    <3>6. t[SubSeq(p, 1, n)].folders \in Seq(ChildEntries)
      BY <3>5, FolderParts
    <3>7. Position(t[SubSeq(p, 1, n)].folders, p[n + 1]) \in 0 .. Len(t[SubSeq(p, 1, n)].folders)
      BY <3>6, PositionFound
    <3> QED BY <3>3, <3>4, <3>7
  <2>4. CASE \E i \in Nat : Parts(p, q, i)
    BY <1>5, <2>4, RanksDiffer
  <2> QED BY <1>1, <2>2, <2>3, <2>4, PathsPartOrLead
<1>6. ASSUME NEW p \in K, NEW q \in K, NEW i \in Nat, Parts(p, q, i), Rank(t, p, i) < Rank(t, q, i)
      PROVE  DepthFirst(t, p, q)
  BY <1>6, RanksDiffer
<1>7. ASSUME NEW p \in K, NEW q \in K, NEW r \in K, DepthFirst(t, p, q), DepthFirst(t, q, r)
      PROVE  DepthFirst(t, p, r)
  <2>0. /\ p \in Seq(Names) /\ q \in Seq(Names) /\ r \in Seq(Names)
        /\ Len(p) \in Nat /\ Len(q) \in Nat /\ Len(r) \in Nat
    BY <1>1
  <2>1. CASE IsPrefix(p, q) /\ Len(p) < Len(q)
    <3>1. \A k \in 1 .. Len(p) : p[k] = q[k]
      BY <2>0, <2>1, PrefixPointwise
    <3>2. CASE IsPrefix(q, r) /\ Len(q) < Len(r)
      <4>1. \A k \in 1 .. Len(q) : q[k] = r[k]
        BY <2>0, <3>2, PrefixPointwise
      <4>2. Len(p) <= Len(r) /\ p # r /\ \A k \in 1 .. Len(p) : p[k] = r[k]
        BY <2>0, <2>1, <3>1, <3>2, <4>1
      <4>3. IsPrefix(p, r)
        BY <2>0, <4>2, PrefixPointwise
      <4> QED BY <4>2, <4>3 DEF DepthFirst, IsStrictPrefix
    <3>3. CASE \E j \in Nat : Parts(q, r, j) /\ Rank(t, q, j) < Rank(t, r, j)
      <4>1. PICK j \in Nat : Parts(q, r, j) /\ Rank(t, q, j) < Rank(t, r, j)
        BY <3>3
      <4>2. /\ j \in 1 .. Len(q) /\ j <= Len(r) /\ q[j] # r[j]
            /\ \A k \in 1 .. j - 1 : q[k] = r[k]
        BY <4>1 DEF Parts
      <4>3. CASE j <= Len(p)
        <5>1. /\ j \in 1 .. Len(p) /\ p[j] = q[j] /\ p[j] # r[j]
              /\ (\A k \in 1 .. j - 1 : p[k] = q[k]) /\ \A k \in 1 .. j - 1 : p[k] = r[k]
          BY <2>0, <3>1, <4>2, <4>3
        <5>2. Parts(p, r, j)
          BY <4>2, <5>1 DEF Parts
        <5>3. Rank(t, p, j) = Rank(t, q, j)
          BY <2>0, <4>2, <5>1, RankAfterSame
        <5> QED BY <1>6, <4>1, <5>2, <5>3
      <4>4. CASE j > Len(p)
        <5>1. Len(p) <= Len(r) /\ Len(p) < Len(r) /\ \A k \in 1 .. Len(p) : p[k] = r[k]
          BY <2>0, <3>1, <4>2, <4>4
        <5>2. IsPrefix(p, r) /\ p # r
          BY <2>0, <5>1, PrefixPointwise
        <5> QED BY <5>2 DEF DepthFirst, IsStrictPrefix
      <4> QED BY <2>0, <4>2, <4>3, <4>4
    <3> QED BY <1>5, <1>7, <3>2, <3>3
  <2>2. CASE \E i \in Nat : Parts(p, q, i) /\ Rank(t, p, i) < Rank(t, q, i)
    <3>1. PICK i \in Nat : Parts(p, q, i) /\ Rank(t, p, i) < Rank(t, q, i)
      BY <2>2
    <3>2. /\ i \in 1 .. Len(p) /\ i \in 1 .. Len(q) /\ p[i] # q[i]
          /\ \A k \in 1 .. i - 1 : p[k] = q[k]
      BY <2>0, <3>1 DEF Parts
    <3>3. ASSUME i <= Len(r), q[i] = r[i], \A k \in 1 .. i - 1 : q[k] = r[k]
          PROVE  DepthFirst(t, p, r)
      <4>1. Parts(p, r, i)
        BY <3>2, <3>3 DEF Parts
      <4>2. Rank(t, q, i) = Rank(t, r, i)
        BY <2>0, <3>2, <3>3, RankAfterSame
      <4> QED BY <1>6, <3>1, <4>1, <4>2
    <3>4. CASE IsPrefix(q, r)
      <4>1. Len(q) <= Len(r) /\ \A k \in 1 .. Len(q) : q[k] = r[k]
        BY <2>0, <3>4, PrefixPointwise
      <4>2. i <= Len(r) /\ q[i] = r[i] /\ \A k \in 1 .. i - 1 : q[k] = r[k]
        BY <2>0, <3>2, <4>1
      <4> QED BY <3>3, <4>2
    <3>5. CASE \E j \in Nat : Parts(q, r, j) /\ Rank(t, q, j) < Rank(t, r, j)
      <4>1. PICK j \in Nat : Parts(q, r, j) /\ Rank(t, q, j) < Rank(t, r, j)
        BY <3>5
      <4>2. /\ j \in 1 .. Len(q) /\ j <= Len(r) /\ q[j] # r[j]
            /\ \A k \in 1 .. j - 1 : q[k] = r[k]
        BY <4>1 DEF Parts
      <4>3. CASE i < j
        <5>1. i <= Len(r) /\ q[i] = r[i] /\ \A k \in 1 .. i - 1 : q[k] = r[k]
          BY <2>0, <3>2, <4>2, <4>3
        <5> QED BY <3>3, <5>1
      <4>4. CASE j < i
        <5>1. /\ j \in 1 .. Len(p) /\ p[j] = q[j] /\ p[j] # r[j] /\ j <= Len(q)
              /\ (\A k \in 1 .. j - 1 : p[k] = q[k]) /\ \A k \in 1 .. j - 1 : p[k] = r[k]
          BY <2>0, <3>2, <4>2, <4>4
        <5>2. Parts(p, r, j)
          BY <4>2, <5>1 DEF Parts
        <5>3. Rank(t, p, j) = Rank(t, q, j)
          BY <2>0, <5>1, RankAfterSame
        <5> QED BY <1>6, <4>1, <5>2, <5>3
      <4>5. CASE i = j
        <5>1. \A k \in 1 .. i - 1 : p[k] = r[k]
          BY <3>2, <4>2, <4>5
        <5>2. Rank(t, p, i) \in Nat /\ Rank(t, q, i) \in Nat /\ Rank(t, r, i) \in Nat
          BY <3>1, <4>1, <4>5, RanksDiffer
        <5>3. Rank(t, p, i) < Rank(t, r, i)
          BY <3>1, <4>1, <4>5, <5>2
        <5>4. p[i] # r[i]
          <6>1. p[i] = r[i] => Rank(t, p, i) = Rank(t, r, i)
            BY <2>0, <3>2, <4>2, <4>5, <5>1, RankAfterSame
          <6> QED BY <5>2, <5>3, <6>1
        <5>5. Parts(p, r, i)
          BY <3>2, <4>2, <4>5, <5>1, <5>4 DEF Parts
        <5> QED BY <1>6, <5>3, <5>5
      <4> QED BY <3>2, <4>2, <4>3, <4>4, <4>5
    <3> QED BY <1>5, <1>7, <3>4, <3>5
  <2> QED BY <1>5, <1>7, <2>1, <2>2
<1> QED BY <1>3, <1>4, <1>7

-----------------------------------------------------------------------------
(* Lookups.                                                                *)

Matching(t, rel, p, k) ==
  /\ p \in DOMAIN t /\ k \in DOMAIN t[p].files
  /\ Len(p) = Len(rel) - 1
  /\ \A i \in DOMAIN p : p[i].key = rel[i].key
  /\ t[p].files[k].name.key = Last(rel).key

LEMMA MatchParts ==
  ASSUME NEW t, NEW rel
  PROVE  /\ \A s \in Matches(t, rel) : s = <<s[1], s[2]>> /\ Matching(t, rel, s[1], s[2])
         /\ \A p, k : Matching(t, rel, p, k) => <<p, k>> \in Matches(t, rel)
<1> DEFINE pairs == UNION {{<<p, k>> : k \in DOMAIN t[p].files} : p \in DOMAIN t}
<1>1. ASSUME NEW s \in Matches(t, rel)
      PROVE  s = <<s[1], s[2]>> /\ Matching(t, rel, s[1], s[2])
  <2>1. PICK p \in DOMAIN t : s \in {<<p, k>> : k \in DOMAIN t[p].files}
    BY DEF Matches
  <2>2. PICK k \in DOMAIN t[p].files : s = <<p, k>>
    BY <2>1
  <2>3. s[1] = p /\ s[2] = k
    BY <2>2
  <2> QED BY <2>2, <2>3 DEF Matches, Matching
<1>2. ASSUME NEW p, NEW k, Matching(t, rel, p, k)
      PROVE  <<p, k>> \in Matches(t, rel)
  <2>1. <<p, k>> \in {<<p, l>> : l \in DOMAIN t[p].files}
    BY <1>2 DEF Matching
  <2>2. <<p, k>> \in pairs
    BY <1>2, <2>1 DEF Matching
  <2>3. <<p, k>>[1] = p /\ <<p, k>>[2] = k
    OBVIOUS
  <2> QED BY <1>2, <2>2, <2>3 DEF Matches, Matching
<1> QED BY <1>1, <1>2

\* Only finitely many paths are one path up to case.
LEMMA SpellingsFinite ==
  ASSUME NEW rel \in Seq(Names), NEW P, P \subseteq Seq(Names),
         \A p \in P : Len(p) = Len(rel) - 1 /\ \A i \in DOMAIN p : p[i].key = rel[i].key
  PROVE  IsFiniteSet(P)
<1> DEFINE n == Len(rel)
           T == SUBSET (1 .. n)
           caps(p) == {i \in DOMAIN p : p[i].cased}
           f == [p \in P |-> caps(p)]
<1>1. n \in Nat /\ IsFiniteSet(T)
  <2>1. n \in Nat /\ IsFiniteSet(1 .. n)
    BY FS_Interval
  <2> QED BY <2>1, FS_SUBSET
<1>2. \A p \in P : p \in Seq(Names) /\ Len(p) = n - 1 /\ DOMAIN p = 1 .. n - 1 /\ caps(p) \in T
  BY <1>1
<1>3. ASSUME NEW p \in P, NEW q \in P, caps(p) = caps(q)
      PROVE  p = q
  <2>1. ASSUME NEW i \in 1 .. n - 1 PROVE p[i] = q[i]
    <3>1. p[i] \in Names /\ q[i] \in Names /\ p[i].key = q[i].key
      BY <1>2
    <3>2. p[i].cased \in BOOLEAN /\ q[i].cased \in BOOLEAN /\ (p[i].cased <=> q[i].cased)
      <4>1. i \in caps(p) <=> i \in caps(q)
        BY <1>3
      <4>2. (i \in caps(p) <=> p[i].cased) /\ (i \in caps(q) <=> q[i].cased)
        BY <1>2
      <4>3. p[i].cased \in BOOLEAN /\ q[i].cased \in BOOLEAN
        BY <3>1 DEF Names
      <4> QED BY <4>1, <4>2, <4>3
    <3>3. p[i].cased = q[i].cased
      BY <3>2, Zenon
    <3>4. p[i] = [key |-> p[i].key, cased |-> p[i].cased] /\ q[i] = [key |-> q[i].key, cased |-> q[i].cased]
      BY <3>1 DEF Names
    <3> QED BY <3>1, <3>3, <3>4
  <2> QED BY <1>2, <2>1, SeqEqual
<1>4. f \in Injection(P, T)
  BY <1>2, <1>3 DEF Injection, IsInjective
<1> HIDE DEF f, T, caps
<1> QED BY <1>1, <1>4, FS_Injection

\* Where a path has a match, FirstMatch is one.
LEMMA FirstMatchFound ==
  ASSUME NEW t, IsTree(t), NEW rel \in Seq(Names) \ {<<>>}, Matches(t, rel) # {}
  PROVE  FirstMatch(t, rel) \in Matches(t, rel)
<1> DEFINE M == Matches(t, rel)
           P == {p \in DOMAIN t : \E k : Matching(t, rel, p, k)}
           R == {q \in P \X P : DepthFirst(t, q[1], q[2])}
           First(s) == \A r \in M \ {s} : DepthFirst(t, s[1], r[1]) \/ (s[1] = r[1] /\ s[2] < r[2])
<1>1. P \subseteq Seq(Names) /\ P # {}
  <2>1. P \subseteq Seq(Names)
    BY FolderParts
  <2>2. P # {}
    BY MatchParts DEF Matching
  <2> QED BY <2>1, <2>2
<1>2. IsFiniteSet(P)
  BY <1>1, SpellingsFinite DEF Matching
<1>3. StrictOrder(P, R)
  <2>1. \A p, q \in P : <<p, q>> \in R <=> DepthFirst(t, p, q)
    OBVIOUS
  <2>2. P \subseteq DOMAIN t
    OBVIOUS
  <2> HIDE DEF P, R
  <2> QED BY <2>1, <2>2, DepthFirstOrders DEF StrictOrder
<1>4. PICK p \in P : \A q \in P : q # p => DepthFirst(t, p, q)
  <2> DEFINE C == Cardinality(P)
             e == Enumerate(P, R)
  <2>1. /\ C \in Nat /\ e \in [1 .. C -> P]
        /\ \A q \in P : \E k \in 1 .. C : e[k] = q
        /\ \A k, l \in 1 .. C : k < l => <<e[k], e[l]>> \in R
    <3> HIDE DEF P, R
    <3> QED BY <1>2, <1>3, EnumerateInOrder
  <2>2. 1 \in 1 .. C
    <3> HIDE DEF e, C
    <3> QED BY <1>1, <2>1
  <2>3. ASSUME NEW q \in P, q # e[1] PROVE DepthFirst(t, e[1], q)
    <3>1. PICK k \in 1 .. C : e[k] = q
      BY <2>1
    <3>2. 1 < k
      <4> HIDE DEF e, C
      <4> QED BY <2>1, <2>2, <2>3, <3>1
    <3>3. <<e[1], q>> \in R
      <4> HIDE DEF e, C, R
      <4> QED BY <2>1, <2>2, <3>1, <3>2
    <3> HIDE DEF e
    <3> QED BY <3>3
  <2> HIDE DEF e, C, P
  <2> QED BY <2>1, <2>2, <2>3
<1> DEFINE K == {k \in DOMAIN t[p].files : Matching(t, rel, p, k)}
<1>5. K \subseteq Nat /\ K # {}
  <2>1. t[p].files \in Seq(Files)
    BY FolderParts
  <2>2. DOMAIN t[p].files \subseteq Nat
    BY <2>1
  <2>3. \E k : Matching(t, rel, p, k)
    OBVIOUS
  <2> QED BY <2>2, <2>3 DEF Matching
<1>6. PICK k \in K : \A l \in K : k <= l
  <2> HIDE DEF K
  <2> QED BY <1>5, LeastNatural
<1>7. <<p, k>> \in M
  BY MatchParts
<1>8. First(<<p, k>>)
  <2>1. <<p, k>>[1] = p /\ <<p, k>>[2] = k
    OBVIOUS
  <2> SUFFICES ASSUME NEW r \in M, r # <<p, k>>
               PROVE  DepthFirst(t, p, r[1]) \/ (p = r[1] /\ k < r[2])
    BY <2>1
  <2>2. r = <<r[1], r[2]>> /\ Matching(t, rel, r[1], r[2])
    BY MatchParts
  <2>3. r[1] \in P
    BY <2>2 DEF Matching
  <2>4. CASE r[1] # p
    <3> HIDE DEF P
    <3> QED BY <1>4, <2>3, <2>4
  <2>5. CASE r[1] = p
    <3>1. r[2] \in K /\ r[2] # k
      BY <2>2, <2>5 DEF Matching
    <3> HIDE DEF K
    <3>2. k \in Nat /\ r[2] \in Nat /\ k <= r[2]
      BY <1>5, <1>6, <3>1
    <3> QED BY <2>5, <3>1, <3>2
  <2> QED BY <2>4, <2>5
<1>9. FirstMatch(t, rel) = CHOOSE s \in M : First(s)
  BY DEF FirstMatch
<1>10. FirstMatch(t, rel) \in M
  <2> HIDE DEF M, First
  <2> QED BY <1>7, <1>8, <1>9
<1> QED BY <1>10

\* What lookups find is a member of the first TOC with a match.
LEMMA FoldedHoldersAre ==
  ASSUME NEW ts, IsArchive(ts), NEW rel, FoldedHolders(ts, rel) # {}
  PROVE  /\ Min(FoldedHolders(ts, rel)) \in DOMAIN ts
         /\ Matches(ts[Min(FoldedHolders(ts, rel))].tree, rel) # {}
<1>1. FoldedHolders(ts, rel) \subseteq Nat
  <2>1. DOMAIN ts \subseteq Nat
    BY TocParts
  <2> QED BY <2>1 DEF FoldedHolders
<1>2. Min(FoldedHolders(ts, rel)) \in FoldedHolders(ts, rel)
  BY <1>1, MinFound
<1> QED BY <1>2 DEF FoldedHolders

LEMMA FoundTyped ==
  ASSUME NEW ts, IsArchive(ts), NEW rel \in Seq(Names) \ {<<>>}
  PROVE  FoundIn(ts, rel) \subseteq Files
<1> SUFFICES ASSUME FoldedHolders(ts, rel) # {} PROVE FoundIn(ts, rel) \subseteq Files
  BY DEF FoundIn
<1> DEFINE t == ts[Min(FoldedHolders(ts, rel))].tree
           s == FirstMatch(t, rel)
<1>1. FoundIn(ts, rel) = {t[s[1]].files[s[2]]}
  BY DEF FoundIn
<1>2. IsTree(t) /\ Matches(t, rel) # {}
  <2>1. Min(FoldedHolders(ts, rel)) \in DOMAIN ts /\ Matches(t, rel) # {}
    BY FoldedHoldersAre
  <2> QED BY <2>1, TocParts
<1> HIDE DEF t
<1>3. Matching(t, rel, s[1], s[2])
  <2>1. s \in Matches(t, rel)
    BY <1>2, FirstMatchFound
  <2> HIDE DEF s
  <2> QED BY <2>1, MatchParts
<1> HIDE DEF s
<1>4. t[s[1]].files \in Seq(Files)
  BY <1>2, <1>3, FolderParts DEF Matching
<1> QED BY <1>1, <1>3, <1>4 DEF Matching

=============================================================================
