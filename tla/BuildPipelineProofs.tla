------------------------ MODULE BuildPipelineProofs ------------------------
(***************************************************************************)
(* The build of any project: proofs about BuildPipeline for all source     *)
(* directories, rules and compilers.                                       *)
(***************************************************************************)
EXTENDS BuildPipeline, ArchiveTreeProofs

-----------------------------------------------------------------------------
(* The orders of the walks are orders of the directory. *)

\* A component of a path, and whether it is the file's name.
Steps == [name : Names, last : BOOLEAN]

StepAt(p, i) == [name |-> p[i], last |-> Len(p) = i]

\* Paths none of which leads through another.
Apart(K) ==
  /\ K \subseteq Seq(Names)
  /\ \A p, q \in K : ~ IsStrictPrefix(p, q)

LEMMA PathsPart ==
  ASSUME NEW K, Apart(K), NEW p \in K, NEW q \in K, p # q
  PROVE  \E i \in Nat : Parts(p, q, i)
<1>1. p \in Seq(Names) /\ q \in Seq(Names) /\ ~ IsPrefix(p, q) /\ ~ IsPrefix(q, p)
  BY DEF Apart, IsStrictPrefix
<1> QED BY <1>1, PathsPartOrLead

LEMMA ForkParts ==
  ASSUME NEW p \in Seq(Names), NEW q \in Seq(Names), NEW i, Parts(p, q, i)
  PROVE  Fork(p, q) = i
<1> DEFINE C(j) == /\ j <= Len(q) /\ p[j] # q[j]
                   /\ SubSeq(p, 1, j - 1) = SubSeq(q, 1, j - 1)
<1>1. Len(p) \in Nat /\ Len(q) \in Nat
  OBVIOUS
<1>2. ASSUME NEW j \in 1 .. Len(p), j <= Len(q)
      PROVE  SubSeq(p, 1, j - 1) = SubSeq(q, 1, j - 1) <=> \A k \in 1 .. j - 1 : p[k] = q[k]
  <2> DEFINE n == j - 1
             a == SubSeq(p, 1, n)
             b == SubSeq(q, 1, n)
  <2>1. n \in 0 .. Len(p) /\ n \in 0 .. Len(q) /\ n \in Nat
    BY <1>1, <1>2
  <2> HIDE DEF n
  <2>2. a \in Seq(Names) /\ Len(a) = n /\ \A k \in 1 .. n : a[k] = p[k]
    BY <2>1, PrefixParts
  <2>3. b \in Seq(Names) /\ Len(b) = n /\ \A k \in 1 .. n : b[k] = q[k]
    BY <2>1, PrefixParts
  <2> HIDE DEF a, b
  <2>4. a = b <=> \A k \in 1 .. n : a[k] = b[k]
    <3>1. ASSUME \A k \in 1 .. n : a[k] = b[k] PROVE a = b
      BY <2>2, <2>3, <3>1, SeqEqual
    <3> QED BY <3>1
  <2> QED BY <2>2, <2>3, <2>4 DEF a, b, n
<1>3. \A j \in 1 .. Len(p) : C(j) <=> Parts(p, q, j)
  BY <1>2 DEF Parts
<1>4. i \in 1 .. Len(p) /\ C(i)
  BY <1>3 DEF Parts
<1>5. \A j \in 1 .. Len(p) : C(j) => j = i
  <2> HIDE DEF C
  <2> QED BY <1>3, PartsOnce
<1>6. Fork(p, q) = CHOOSE j \in 1 .. Len(p) : C(j)
  BY DEF Fork
<1> HIDE DEF C
<1> QED BY <1>4, <1>5, <1>6

(***************************************************************************)
(* Paths in an order of their steps: at the first place where they part.   *)
(***************************************************************************)
StepOrder(R) ==
  /\ \A s \in Steps : <<s, s>> \notin R
  /\ \A s, t \in Steps : s.name # t.name => <<s, t>> \in R \/ <<t, s>> \in R
  /\ \A s, t, u \in Steps : <<s, t>> \in R /\ <<t, u>> \in R => <<s, u>> \in R

Lexical(K, R, L) ==
  /\ \A p \in K : <<p, p>> \notin L
  /\ \A p, q \in K : \A i \in Nat :
       Parts(p, q, i) => (<<p, q>> \in L <=> <<StepAt(p, i), StepAt(q, i)>> \in R)

LEMMA StepTyped ==
  ASSUME NEW p \in Seq(Names), NEW i \in 1 .. Len(p)
  PROVE  StepAt(p, i) \in Steps /\ StepAt(p, i).name = p[i] /\ StepAt(p, i).last = (Len(p) = i)
<1>1. p[i] \in Names /\ (Len(p) = i) \in BOOLEAN
  OBVIOUS
<1> QED BY <1>1 DEF StepAt, Steps

LEMMA LexicalOrder ==
  ASSUME NEW K, Apart(K), NEW R, StepOrder(R), NEW L, Lexical(K, R, L)
  PROVE  StrictOrder(K, L)
<1>1. \A p \in K : p \in Seq(Names) /\ Len(p) \in Nat
  BY DEF Apart
<1>2. ASSUME NEW p \in K, NEW q \in K, NEW i \in Nat, Parts(p, q, i)
      PROVE  /\ Parts(q, p, i) /\ StepAt(p, i) \in Steps /\ StepAt(q, i) \in Steps
             /\ StepAt(p, i).name # StepAt(q, i).name
  BY <1>1, <1>2, StepTyped DEF Parts
<1>3. ASSUME NEW p \in K, NEW q \in K, p # q PROVE <<p, q>> \in L \/ <<q, p>> \in L
  <2>1. PICK i \in Nat : Parts(p, q, i)
    BY <1>3, PathsPart
  <2> QED BY <1>2, <2>1 DEF Lexical, StepOrder
<1>4. ASSUME NEW p \in K, NEW q \in K, NEW r \in K, <<p, q>> \in L, <<q, r>> \in L
      PROVE  <<p, r>> \in L
  <2>1. p # q /\ q # r
    BY <1>4 DEF Lexical
  <2>2. PICK i \in Nat : Parts(p, q, i)
    BY <2>1, PathsPart
  <2>3. PICK j \in Nat : Parts(q, r, j)
    BY <2>1, PathsPart
  <2>4. <<StepAt(p, i), StepAt(q, i)>> \in R /\ <<StepAt(q, j), StepAt(r, j)>> \in R
    BY <1>4, <2>2, <2>3 DEF Lexical
  <2>5. /\ i \in 1 .. Len(p) /\ i \in 1 .. Len(q) /\ p[i] # q[i]
        /\ \A k \in 1 .. i - 1 : p[k] = q[k]
    BY <1>1, <2>2 DEF Parts
  <2>6. /\ j \in 1 .. Len(q) /\ j \in 1 .. Len(r) /\ q[j] # r[j]
        /\ \A k \in 1 .. j - 1 : q[k] = r[k]
    BY <1>1, <2>3 DEF Parts
  <2>7. CASE i < j
    <3>1. i \in 1 .. j - 1 /\ q[i] = r[i] /\ i <= Len(r)
      BY <1>1, <2>5, <2>6, <2>7
    <3>2. \A k \in 1 .. i - 1 : p[k] = r[k]
      BY <2>5, <2>6, <2>7
    <3>3. Parts(p, r, i)
      BY <2>5, <3>1, <3>2 DEF Parts
    <3>4. Len(q) # i /\ Len(r) # i
      BY <1>1, <2>6, <2>7
    <3>5. StepAt(q, i) = StepAt(r, i)
      BY <3>1, <3>4 DEF StepAt
    <3> QED BY <2>4, <3>3, <3>5 DEF Lexical
  <2>8. CASE j < i
    <3>1. j \in 1 .. i - 1 /\ p[j] = q[j] /\ j \in 1 .. Len(p)
      BY <1>1, <2>5, <2>6, <2>8
    <3>2. \A k \in 1 .. j - 1 : p[k] = r[k]
      BY <2>5, <2>6, <2>8
    <3>3. Parts(p, r, j)
      BY <2>6, <3>1, <3>2 DEF Parts
    <3>4. Len(p) # j /\ Len(q) # j
      BY <1>1, <2>5, <2>8
    <3>5. StepAt(p, j) = StepAt(q, j)
      BY <3>1, <3>4 DEF StepAt
    <3> QED BY <2>4, <3>3, <3>5 DEF Lexical
  <2>9. CASE i = j
    <3>1. <<StepAt(p, i), StepAt(r, i)>> \in R
      <4>1. StepAt(p, i) \in Steps /\ StepAt(q, i) \in Steps /\ StepAt(r, i) \in Steps
        BY <1>1, <2>5, <2>6, <2>9, StepTyped
      <4> QED BY <2>4, <2>9, <4>1 DEF StepOrder
    <3>2. \A k \in 1 .. i - 1 : p[k] = r[k]
      BY <2>5, <2>6, <2>9
    <3>3. p[i] # r[i]
      <4> SUFFICES ASSUME p[i] = r[i] PROVE FALSE
        OBVIOUS
      <4>1. StepAt(p, i) # StepAt(r, i)
        BY <1>1, <2>5, <3>1, StepTyped DEF StepOrder
      <4>2. (Len(p) = i) # (Len(r) = i)
        BY <4>1 DEF StepAt
      <4>3. \A k \in 1 .. i : p[k] = r[k]
        BY <2>5, <3>2
      <4>4. CASE Len(p) = i
        <5>1. IsPrefix(p, r) /\ p # r
          BY <1>1, <2>6, <2>9, <4>2, <4>3, <4>4, PrefixPointwise
        <5> QED BY <5>1 DEF Apart, IsStrictPrefix
      <4>5. CASE Len(r) = i
        <5>1. IsPrefix(r, p) /\ r # p
          BY <1>1, <2>5, <2>9, <4>2, <4>3, <4>5, PrefixPointwise
        <5> QED BY <5>1 DEF Apart, IsStrictPrefix
      <4> QED BY <4>2, <4>4, <4>5
    <3>4. Parts(p, r, i)
      BY <2>5, <2>6, <2>9, <3>2, <3>3 DEF Parts
    <3> QED BY <3>1, <3>4 DEF Lexical
  <2> QED BY <2>5, <2>6, <2>7, <2>8, <2>9
<1> QED BY <1>3, <1>4 DEF StrictOrder, Lexical

\* The two orders.
BySource ==
  {st \in Steps \X Steps : ByteRank[st[1].name] < ByteRank[st[2].name]}

ByBurn ==
  {st \in Steps \X Steps :
     \/ st[1].last /\ ~ st[2].last
     \/ st[1].last /\ st[2].last /\ ByteRank[st[1].name] < ByteRank[st[2].name]
     \/ ~ st[1].last /\ ~ st[2].last /\ ByteRank[st[1].name] > ByteRank[st[2].name]}

LEMMA StepOrders == StepOrder(BySource) /\ StepOrder(ByBurn)
<1>1. \A s \in Steps : s.name \in Names /\ s.last \in BOOLEAN
  BY DEF Steps
<1>2. \A m \in Names : ByteRank[m] \in Nat
  BY NamesAssumption
<1>3. \A m, n \in Names : m # n => ByteRank[m] # ByteRank[n]
  BY NamesAssumption
<1>4. StepOrder(BySource)
  BY <1>1, <1>2, <1>3 DEF StepOrder, BySource
<1>5. StepOrder(ByBurn)
  BY <1>1, <1>2, <1>3 DEF StepOrder, ByBurn
<1> QED BY <1>4, <1>5

SourcePairs(K) == {pair \in K \X K : SourceOrder(pair[1], pair[2])}
BurnPairs(K)   == {pair \in K \X K : BurnOrder(pair[1], pair[2])}

LEMMA WalkOrders ==
  ASSUME NEW K, Apart(K)
  PROVE  StrictOrder(K, SourcePairs(K)) /\ StrictOrder(K, BurnPairs(K))
<1>1. ASSUME NEW p \in K, NEW q \in K, NEW i \in Nat, Parts(p, q, i)
      PROVE  /\ Fork(p, q) = i /\ p # q
             /\ StepAt(p, i) \in Steps /\ StepAt(p, i).name = p[i] /\ StepAt(p, i).last = (Len(p) = i)
             /\ StepAt(q, i) \in Steps /\ StepAt(q, i).name = q[i] /\ StepAt(q, i).last = (Len(q) = i)
             /\ Len(p) \in Nat /\ Len(q) \in Nat /\ i <= Len(p) /\ i <= Len(q)
  <2>1. p \in Seq(Names) /\ q \in Seq(Names) /\ i \in 1 .. Len(p) /\ i \in 1 .. Len(q)
    BY <1>1 DEF Apart, Parts
  <2>2. Fork(p, q) = i /\ p # q
    BY <1>1, <2>1, ForkParts DEF Parts
  <2> QED BY <2>1, <2>2, StepTyped
<1>2. Lexical(K, BySource, SourcePairs(K))
  <2>1. \A p \in K : <<p, p>> \notin SourcePairs(K)
    BY DEF SourcePairs, SourceOrder
  <2>2. ASSUME NEW p \in K, NEW q \in K, NEW i \in Nat, Parts(p, q, i)
        PROVE  <<p, q>> \in SourcePairs(K) <=> <<StepAt(p, i), StepAt(q, i)>> \in BySource
    BY <1>1, <2>2 DEF SourcePairs, SourceOrder, BySource
  <2> QED BY <2>1, <2>2 DEF Lexical
<1>3. Lexical(K, ByBurn, BurnPairs(K))
  <2>1. \A p \in K : <<p, p>> \notin BurnPairs(K)
    BY DEF BurnPairs, BurnOrder
  <2>2. ASSUME NEW p \in K, NEW q \in K, NEW i \in Nat, Parts(p, q, i)
        PROVE  <<p, q>> \in BurnPairs(K) <=> <<StepAt(p, i), StepAt(q, i)>> \in ByBurn
    <3> DEFINE s == StepAt(p, i)
               t == StepAt(q, i)
    <3>1. /\ s \in Steps /\ s.name = p[i] /\ s.last = (Len(p) = i)
          /\ t \in Steps /\ t.name = q[i] /\ t.last = (Len(q) = i)
          /\ Fork(p, q) = i /\ p # q
      BY <1>1, <2>2
    <3>2. (Len(p) > i <=> Len(p) # i) /\ (Len(q) > i <=> Len(q) # i)
      BY <1>1, <2>2
    <3> HIDE DEF s, t
    <3>3. <<p, q>> \in BurnPairs(K)
            <=> \/ Len(p) = i /\ Len(q) # i
                \/ Len(p) = i /\ Len(q) = i /\ ByteRank[p[i]] < ByteRank[q[i]]
                \/ Len(p) # i /\ Len(q) # i /\ ByteRank[p[i]] > ByteRank[q[i]]
      BY <3>1, <3>2 DEF BurnPairs, BurnOrder
    <3>4. <<s, t>> \in ByBurn
            <=> \/ Len(p) = i /\ Len(q) # i
                \/ Len(p) = i /\ Len(q) = i /\ ByteRank[p[i]] < ByteRank[q[i]]
                \/ Len(p) # i /\ Len(q) # i /\ ByteRank[p[i]] > ByteRank[q[i]]
      BY <3>1 DEF ByBurn
    <3> QED BY <3>3, <3>4 DEF s, t
  <2> QED BY <2>1, <2>2 DEF Lexical
<1> QED BY <1>2, <1>3, StepOrders, LexicalOrder

-----------------------------------------------------------------------------
(* What a walk visits, and what it has left. *)

Bases == {"assets", "data", "info", "locale"}

\* What the project is made of.
LEMMA ProjectParts ==
  ASSUME project \in Projects
  PROVE  /\ DOMAIN project.files = Bases
         /\ \A base \in Bases :
              LET files == project.files[base]
              IN  /\ IsFiniteSet(DOMAIN files) /\ Apart(DOMAIN files)
                  /\ \A p \in DOMAIN files : p \in Seq(Names) \ {<<>>} /\ files[p] \in Data
         /\ project.rules \in Seq(Range(project.rules))
         /\ \A r \in Range(project.rules) : r.alias \in Aliases \cup {NoAlias}
<1>1. DOMAIN project.files = Bases
  BY ProjectsAssumption DEF Bases
<1>2. ASSUME NEW base \in Bases PROVE IsDirectory(project.files[base])
  BY <1>1, ProjectsAssumption
<1>3. ASSUME NEW base \in Bases
      PROVE  LET files == project.files[base]
             IN  /\ IsFiniteSet(DOMAIN files) /\ Apart(DOMAIN files)
                 /\ \A p \in DOMAIN files : p \in Seq(Names) \ {<<>>} /\ files[p] \in Data
  BY <1>2 DEF IsDirectory, Apart
<1>4. /\ project.rules \in Seq(Range(project.rules))
      /\ \A r \in Range(project.rules) : r.alias \in Aliases \cup {NoAlias}
  BY ProjectsAssumption
<1> QED BY <1>1, <1>3, <1>4

LEMMA WalkParts ==
  ASSUME NEW s \in 1 .. 4
  PROVE  /\ SourceWalks[s].base \in Bases
         /\ SourceWalks[s].alias \in Aliases
         /\ SourceWalks[s].storage \in Storages
<1>1. s = 1 \/ s = 2 \/ s = 3 \/ s = 4
  OBVIOUS
<1> QED BY <1>1, DataAssumption DEF SourceWalks, Bases, Storages

LEMMA AssetsParts ==
  ASSUME project \in Projects
  PROVE  /\ IsFiniteSet(DOMAIN Assets) /\ Apart(DOMAIN Assets)
         /\ \A p \in DOMAIN Assets : p \in Seq(Names) \ {<<>>} /\ Assets[p] \in Data
<1>1. "assets" \in Bases
  BY DEF Bases
<1> QED BY <1>1, ProjectParts DEF Assets

\* The rule that selects a path routes it to a TOC.
LEMMA RulesRoute ==
  ASSUME project \in Projects, NEW burner, NEW path, RuleIndex(project.rules, burner, path) # 0
  PROVE  AliasFor(burner, path) \in Aliases
<1> DEFINE T(r) == IsRuleOf(r, burner) /\ \E g \in r.includes : GlobMatches(g, path)
           rules == project.rules
           I == {i \in 1 .. Len(rules) : T(rules[i])}
<1>1. rules \in Seq(Range(rules)) /\ Len(rules) \in Nat
  BY ProjectParts
<1>2. RuleIndex(rules, burner, path) = IF I = {} THEN 0 ELSE Min(I)
  BY DEF RuleIndex, SelectInSeq
<1>3. I \subseteq Nat /\ I # {}
  <2> HIDE DEF T
  <2> QED BY <1>1, <1>2
<1>4. RuleIndex(rules, burner, path) \in I
  <2> HIDE DEF I
  <2> QED BY <1>2, <1>3, MinFound
<1>5. /\ RuleIndex(rules, burner, path) \in 1 .. Len(rules)
      /\ rules[RuleIndex(rules, burner, path)].alias # NoAlias
  BY <1>4 DEF IsRuleOf
<1>6. rules[RuleIndex(rules, burner, path)] \in Range(rules)
  BY <1>1, <1>5
<1> QED BY <1>5, <1>6, ProjectParts DEF AliasFor

Visited(s) ==
  IF s \in 1 .. 4 THEN PathsIn(SourceWalks[s])
  ELSE IF IsBurnStage(s) THEN Selected(BurnerAt(s)) ELSE {}

WalkBefore(s, p, q) == IF s \in 1 .. 4 THEN SourceOrder(p, q) ELSE BurnOrder(p, q)

LEMMA SubdirectoryApart ==
  ASSUME NEW K, NEW L, Apart(L), K \subseteq L
  PROVE  Apart(K)
BY DEF Apart

LEMMA VisitedParts ==
  ASSUME project \in Projects, NEW s \in 1 .. Built
  PROVE  /\ IsFiniteSet(Visited(s)) /\ Apart(Visited(s))
         /\ Visited(s) \subseteq Seq(Names) \ {<<>>}
         /\ s \in 1 .. 4 => Visited(s) \subseteq DOMAIN project.files[SourceWalks[s].base]
         /\ s \notin 1 .. 4 => Visited(s) \subseteq DOMAIN Assets
<1>1. CASE s \in 1 .. 4
  <2> DEFINE L == DOMAIN project.files[SourceWalks[s].base]
  <2>1. IsFiniteSet(L) /\ Apart(L) /\ \A p \in L : p \in Seq(Names) \ {<<>>}
    BY <1>1, WalkParts, ProjectParts
  <2>2. Visited(s) \subseteq L
    BY <1>1 DEF Visited, PathsIn
  <2> HIDE DEF L
  <2>3. IsFiniteSet(Visited(s)) /\ Apart(Visited(s))
    BY <2>1, <2>2, SubdirectoryApart, FS_Subset
  <2> QED BY <1>1, <2>1, <2>2, <2>3 DEF L
<1>2. CASE s \notin 1 .. 4
  <2> DEFINE L == DOMAIN Assets
  <2>1. IsFiniteSet(L) /\ Apart(L) /\ \A p \in L : p \in Seq(Names) \ {<<>>}
    BY AssetsParts
  <2>2. Visited(s) \subseteq L
    BY <1>2 DEF Visited, Selected
  <2> HIDE DEF L
  <2>3. IsFiniteSet(Visited(s)) /\ Apart(Visited(s))
    BY <2>1, <2>2, SubdirectoryApart, FS_Subset
  <2> QED BY <1>2, <2>1, <2>2, <2>3 DEF L
<1> QED BY <1>1, <1>2

\* What the walk has left to visit, in its order, after what it has visited.
Remaining(s, list) ==
  /\ list \in Seq(Visited(s))
  /\ \A i, j \in 1 .. Len(list) : i < j => WalkBefore(s, list[i], list[j])
  /\ \A p \in Visited(s) \ Range(list) : \A j \in 1 .. Len(list) : WalkBefore(s, p, list[j])

LEMMA TodoAtRemains ==
  ASSUME project \in Projects, NEW s \in 1 .. Built
  PROVE  Remaining(s, TodoAt(s)) /\ Range(TodoAt(s)) = Visited(s)
<1> DEFINE K == Visited(s)
           B == {pair \in K \X K : WalkBefore(s, pair[1], pair[2])}
           list == Enumerate(K, B)
<1>1. CASE s = Built
  <2>1. TodoAt(s) = <<>> /\ Visited(s) = {}
    BY <1>1 DEF TodoAt, Visited, IsBurnStage, Built
  <2> QED BY <2>1 DEF Remaining, Range
<1>2. CASE s # Built
  <2>1. IsFiniteSet(K) /\ Apart(K)
    BY VisitedParts
  <2>2. B = IF s \in 1 .. 4 THEN SourcePairs(K) ELSE BurnPairs(K)
    BY DEF SourcePairs, BurnPairs, WalkBefore
  <2>3. TodoAt(s) = list
    <3>1. CASE s \in 1 .. 4
      BY <3>1 DEF TodoAt, Visited, Listed, WalkBefore
    <3>2. CASE s \notin 1 .. 4
      <4>1. IsBurnStage(s)
        BY <1>2, <3>2 DEF IsBurnStage, Built
      <4> QED BY <3>2, <4>1 DEF TodoAt, Visited, Listed, WalkBefore
    <3> QED BY <3>1, <3>2
  <2> HIDE DEF K
  <2>4. StrictOrder(K, B)
    <3> HIDE DEF B
    <3> QED BY <2>1, <2>2, WalkOrders
  <2>5. Cardinality(K) \in Nat /\ list \in [1 .. Cardinality(K) -> K]
    <3> HIDE DEF B
    <3> QED BY <2>1, <2>4, EnumerateInOrder
  <2>6. \A p \in K : \E k \in 1 .. Cardinality(K) : list[k] = p
    <3> HIDE DEF B
    <3> QED BY <2>1, <2>4, EnumerateInOrder
  <2>7. \A k, l \in 1 .. Cardinality(K) : k < l => <<list[k], list[l]>> \in B
    <3> HIDE DEF B
    <3> QED BY <2>1, <2>4, EnumerateInOrder
  <2>8. \A k, l \in 1 .. Cardinality(K) : k < l => WalkBefore(s, list[k], list[l])
    <3> HIDE DEF list
    <3> QED BY <2>7
  <2> HIDE DEF list
  <2>9. list \in Seq(K) /\ Len(list) = Cardinality(K) /\ Range(list) = K
    BY <2>5, <2>6 DEF Range
  <2> QED BY <2>3, <2>8, <2>9 DEF Remaining, K
<1> QED BY <1>1, <1>2

LEMMA TailRemains ==
  ASSUME NEW s, NEW list, Remaining(s, list), list # <<>>
  PROVE  /\ Head(list) \in Visited(s)
         /\ Remaining(s, Tail(list))
<1>1. /\ list \in Seq(Visited(s)) /\ Len(list) \in Nat /\ Len(list) >= 1
      /\ Head(list) = list[1] /\ Head(list) \in Visited(s)
      /\ Tail(list) \in Seq(Visited(s)) /\ Len(Tail(list)) = Len(list) - 1
      /\ \A i \in 1 .. Len(list) - 1 : Tail(list)[i] = list[i + 1]
  BY DEF Remaining
<1>2. ASSUME NEW i \in 1 .. Len(list) - 1, NEW j \in 1 .. Len(list) - 1, i < j
      PROVE  WalkBefore(s, Tail(list)[i], Tail(list)[j])
  <2>1. i + 1 \in 1 .. Len(list) /\ j + 1 \in 1 .. Len(list) /\ i + 1 < j + 1
    BY <1>1, <1>2
  <2>2. WalkBefore(s, list[i + 1], list[j + 1])
    BY <2>1 DEF Remaining
  <2> QED BY <1>1, <2>2
<1>3. Range(list) = {list[1]} \cup Range(Tail(list))
  <2>1. \A i \in 1 .. Len(list) : i = 1 \/ (i - 1 \in 1 .. Len(list) - 1 /\ Tail(list)[i - 1] = list[i])
    BY <1>1
  <2>2. DOMAIN list = 1 .. Len(list) /\ DOMAIN Tail(list) = 1 .. Len(list) - 1
    BY <1>1
  <2>3. \A x \in Range(list) : x = list[1] \/ x \in Range(Tail(list))
    BY <2>1, <2>2 DEF Range
  <2>4. \A x \in Range(Tail(list)) : x \in Range(list)
    <3> SUFFICES ASSUME NEW i \in 1 .. Len(list) - 1 PROVE Tail(list)[i] \in Range(list)
      BY <2>2 DEF Range
    <3>1. i + 1 \in 1 .. Len(list) /\ Tail(list)[i] = list[i + 1]
      BY <1>1
    <3> QED BY <2>2, <3>1 DEF Range
  <2>5. list[1] \in Range(list)
    BY <1>1, <2>2 DEF Range
  <2> QED BY <2>3, <2>4, <2>5
<1>4. ASSUME NEW p \in Visited(s) \ Range(Tail(list)), NEW j \in 1 .. Len(list) - 1
      PROVE  WalkBefore(s, p, Tail(list)[j])
  <2>1. j + 1 \in 1 .. Len(list) /\ Tail(list)[j] = list[j + 1] /\ 1 < j + 1 /\ 1 \in 1 .. Len(list)
    BY <1>1
  <2>2. CASE p = list[1]
    <3>1. WalkBefore(s, list[1], list[j + 1])
      BY <2>1 DEF Remaining
    <3> QED BY <2>1, <2>2, <3>1
  <2>3. CASE p # list[1]
    <3>1. WalkBefore(s, p, list[j + 1])
      BY <1>3, <2>1, <2>3 DEF Remaining
    <3> QED BY <2>1, <3>1
  <2> QED BY <2>2, <2>3
<1>5. Remaining(s, Tail(list))
  BY <1>1, <1>2, <1>4 DEF Remaining
<1> QED BY <1>1, <1>3, <1>5

-----------------------------------------------------------------------------
(***************************************************************************)
(* The inductive invariant: the walk is somewhere in its order, a burned   *)
(* table is one of the .locdb at hand, the trees are well formed with      *)
(* folders in order, each TOC holds a file and no alias comes twice.       *)
(***************************************************************************)
GoodTree(t) == IsTree(t) /\ FoldersKept(t)

GoodTocs(ts) ==
  /\ IsArchive(ts)
  /\ \A i \in DOMAIN ts : GoodTree(ts[i].tree) /\ HoldsFiles(ts[i].tree, <<>>)
  /\ \A i, j \in DOMAIN ts : ts[i].alias = ts[j].alias => i = j

AliasesClosed(s) == {SourceWalks[k].alias : k \in 2 .. s - 1}

WalkSound ==
  /\ project \in Projects
  /\ stage \in 0 .. Built
  /\ stage # Failed => Remaining(stage, todo)
  /\ stage = Failed => todo \in Seq(DOMAIN Assets)
  /\ tables \subseteq DOMAIN Assets
  /\ stage # Failed /\ tables # {} =>
       stage = 8 /\ todo # <<>> /\ tables \subseteq TablesOf(Head(todo))

TreesSound ==
  /\ GoodTree(root)
  /\ root = EmptyTree \/ HoldsFiles(root, <<>>)
  /\ GoodTocs(tocs)
  /\ stage \in 1 .. 4 => \A i \in DOMAIN tocs : tocs[i].alias \in AliasesClosed(stage)

BuildSound == WalkSound /\ TreesSound

LEMMA EmptyTreeGood == GoodTree(EmptyTree)
<1>1. \A p \in DOMAIN EmptyTree : EmptyTree[p] = EmptyFolder
  BY DEF EmptyTree
<1>2. TableKept(<<>>)
  BY DEF TableKept, Sorted, UniquelyNamed, AllLower
<1>3. FoldersKept(EmptyTree)
  BY <1>1, <1>2 DEF FoldersKept, EmptyFolder
<1> QED BY <1>3, EmptyTreeSound DEF GoodTree

LEMMA AppendHasEntries ==
  ASSUME NEW E, NEW s \in Seq(E), NEW e
  PROVE  Append(s, e) # <<>>
<1>1. Len(Append(s, e)) = Len(s) + 1 /\ Len(s) \in Nat /\ Len(<<>>) = 0
  OBVIOUS
<1> QED BY <1>1

LEMMA InsertHasEntries ==
  ASSUME NEW table \in Seq(Files), NEW entry \in Files, NEW r \in InsertOrReplace(table, entry)
  PROVE  r # <<>>
<1> DEFINE i == Position(table, entry.name)
<1>1. i \in 0 .. Len(table) /\ Len(table) \in Nat
  BY PositionFound
<1>2. CASE i # 0
  <2>1. r = [table EXCEPT ![i] = entry]
    BY <1>2 DEF InsertOrReplace
  <2>2. Len(r) = Len(table) /\ Len(table) # 0
    BY <1>1, <1>2, <2>1
  <2> QED BY <2>2
<1>3. CASE i = 0
  <2>1. PICK at \in PartitionPoints(table, entry.name.key) : r = InsertAt(table, at + 1, entry)
    BY <1>3 DEF InsertOrReplace
  <2>2. at + 1 \in 1 .. Len(table) + 1
    BY <1>1 DEF PartitionPoints, Splits
  <2>3. Len(r) = Len(table) + 1
    BY <2>1, <2>2, InsertedThere DEF Inserted
  <2> QED BY <1>1, <2>3
<1> QED BY <1>2, <1>3

\* A tree with a file put into a folder is good and holds one.
LEMMA PlacedIsGood ==
  ASSUME NEW t, GoodTree(t), NEW w, NEW dirs, NEW table, table # <<>>,
         TreeWith(t, w, dirs, table)
  PROVE  GoodTree(w) /\ HoldsFiles(w, <<>>)
<1>1. GoodTree(w)
  BY DEF GoodTree, TreeWith
<1>2. FilesIn(w, dirs) # <<>>
  BY DEF TreeWith
<1> QED BY <1>1, <1>2, HoldsFilesAtAll DEF GoodTree

LEMMA PushIsGood ==
  ASSUME NEW t, GoodTree(t), NEW rel \in Seq(Names) \ {<<>>}, NEW file \in Files,
         NEW w \in PushInTree(t, rel, file)
  PROVE  GoodTree(w) /\ HoldsFiles(w, <<>>)
<1> DEFINE dirs == Dirs(rel)
           table == Append(FilesIn(t, dirs), [file EXCEPT !.name = Lower(@)])
<1>1. FilesIn(t, dirs) \in Seq(Files) /\ TreeWith(t, w, dirs, table)
  BY PushPlaces DEF GoodTree
<1>2. table # <<>>
  BY <1>1, AppendHasEntries
<1> HIDE DEF dirs, table
<1> QED BY <1>1, <1>2, PlacedIsGood

LEMMA InsertIsGood ==
  ASSUME NEW t, GoodTree(t), NEW rel \in Seq(Names) \ {<<>>}, NEW file \in Files,
         NEW w \in InsertInTree(t, rel, file)
  PROVE  GoodTree(w) /\ HoldsFiles(w, <<>>)
<1> DEFINE dirs == Dirs(rel)
           lowered == [file EXCEPT !.name = Lower(@)]
<1>1. FilesIn(t, dirs) \in Seq(Files)
  BY InsertPlaces DEF GoodTree
<1>2. PICK table \in InsertOrReplace(FilesIn(t, dirs), lowered) : TreeWith(t, w, dirs, table)
  BY InsertPlaces DEF GoodTree
<1>3. lowered \in Files
  BY LoweredFile
<1> HIDE DEF dirs, lowered
<1>4. table # <<>>
  BY <1>1, <1>3, InsertHasEntries
<1> QED BY <1>2, <1>4, PlacedIsGood

\* A finished tree becomes a TOC of its own.
LEMMA ClosedIsGood ==
  ASSUME NEW ts, GoodTocs(ts), NEW t, GoodTree(t), t = EmptyTree \/ HoldsFiles(t, <<>>),
         NEW alias \in Aliases, \A i \in DOMAIN ts : ts[i].alias # alias
  PROVE  /\ GoodTocs(WithToc(ts, alias, t))
         /\ \A i \in DOMAIN WithToc(ts, alias, t) :
              \/ WithToc(ts, alias, t)[i].alias = alias
              \/ \E j \in DOMAIN ts : WithToc(ts, alias, t)[i].alias = ts[j].alias
<1> DEFINE toc == [alias |-> alias, tree |-> t]
           v == Append(ts, toc)
<1>1. CASE t = EmptyTree
  BY <1>1 DEF WithToc
<1>2. CASE t # EmptyTree
  <2>1. WithToc(ts, alias, t) = v
    BY <1>2 DEF WithToc
  <2>2. IsArchive(ts) /\ IsToc(toc) /\ toc.alias = alias /\ toc.tree = t
    BY TocOf DEF GoodTocs, GoodTree
  <2>3. Len(ts) \in Nat /\ DOMAIN ts = 1 .. Len(ts)
    BY <2>2, TocParts
  <2> HIDE DEF toc
  <2>a. v = Append(ts, toc)
    OBVIOUS
  <2> HIDE DEF v
  <2>4. /\ IsArchive(v) /\ DOMAIN v = 1 .. Len(ts) + 1
        /\ \A i \in 1 .. Len(ts) : v[i] = ts[i]
        /\ v[Len(ts) + 1] = toc
    <3>1. IsArchive(v)
      BY <2>2, <2>a, TocAppended
    <3>2. DOMAIN v = 1 .. Len(ts) + 1
      BY <2>2, <2>a, TocAppended
    <3>3. \A i \in 1 .. Len(ts) : v[i] = ts[i]
      BY <2>2, <2>a, TocAppended
    <3>4. v[Len(ts) + 1] = toc
      BY <2>2, <2>a, TocAppended
    <3> QED BY <3>1, <3>2, <3>3, <3>4
  <2>5. \A i \in DOMAIN v : i \in DOMAIN ts \/ i = Len(ts) + 1
    BY <2>3, <2>4
  <2>6. \A i \in DOMAIN v : GoodTree(v[i].tree) /\ HoldsFiles(v[i].tree, <<>>)
    BY <1>2, <2>2, <2>3, <2>4, <2>5 DEF GoodTocs
  <2>7. \A i, j \in DOMAIN v : v[i].alias = v[j].alias => i = j
    BY <2>2, <2>3, <2>4, <2>5 DEF GoodTocs
  <2>8. \A i \in DOMAIN v : v[i].alias = alias \/ \E j \in DOMAIN ts : v[i].alias = ts[j].alias
    BY <2>2, <2>3, <2>4, <2>5
  <2> QED BY <2>1, <2>4, <2>6, <2>7, <2>8 DEF GoodTocs
<1> QED BY <1>1, <1>2

\* What get_or_create_toc and insert_or_replace leave.
LEMMA PlacedInToc ==
  ASSUME NEW ts, IsArchive(ts), NEW alias \in Aliases, NEW rel \in Seq(Names) \ {<<>>},
         NEW d \in Data, NEW w \in PlaceBurned(ts, alias, rel, d)
  PROVE  LET with == GetOrCreateToc(ts, alias)
             k    == TocIndex(with, alias)
         IN  /\ k \in DOMAIN with
             /\ IsArchive(w) /\ DOMAIN w = DOMAIN with
             /\ \A j \in DOMAIN with : w[j].alias = with[j].alias
             /\ \A j \in DOMAIN with : j # k => w[j].tree = with[j].tree
             /\ w[k].tree \in InsertInTree(with[k].tree, rel, StoredFile(Last(rel), d))
<1> DEFINE with == GetOrCreateToc(ts, alias)
           k    == TocIndex(with, alias)
           file == StoredFile(Last(rel), d)
<1>1. PICK t \in InsertInTree(with[k].tree, rel, file) : w = [with EXCEPT ![k].tree = t]
  BY DEF PlaceBurned, UpsertIn
<1>2. file \in Files
  BY LastIsName, StoredFileTyped
<1>3. IsArchive(with) /\ k \in DOMAIN with
  BY TocObtained
<1> HIDE DEF with, k, file
<1>4. IsTree(with[k].tree)
  BY <1>3, TocParts
<1>5. IsTree(t)
  <2>1. \E table : TreeWith(with[k].tree, t, Dirs(rel), table)
    BY <1>2, <1>4, InsertPlaces
  <2> QED BY <2>1 DEF TreeWith
<1>6. IsArchive(w) /\ DOMAIN w = DOMAIN with
  BY <1>1, <1>3, <1>5, TreeReplaced
<1>7. \A j \in DOMAIN with : /\ w[j].alias = with[j].alias
                             /\ w[j].tree = IF j = k THEN t ELSE with[j].tree
  BY <1>1, <1>3, <1>5, TreeReplaced
<1> QED BY <1>1, <1>3, <1>6, <1>7 DEF with, k, file

LEMMA BurnedIsGood ==
  ASSUME NEW ts, GoodTocs(ts), NEW alias \in Aliases, NEW rel \in Seq(Names) \ {<<>>},
         NEW d \in Data, NEW w \in PlaceBurned(ts, alias, rel, d)
  PROVE  GoodTocs(w)
<1> DEFINE with == GetOrCreateToc(ts, alias)
           k    == TocIndex(with, alias)
           file == StoredFile(Last(rel), d)
<1>0. IsArchive(ts) /\ file \in Files
  BY LastIsName, StoredFileTyped DEF GoodTocs
<1>1. /\ k \in DOMAIN with
      /\ IsArchive(w) /\ DOMAIN w = DOMAIN with
      /\ \A j \in DOMAIN with : w[j].alias = with[j].alias
      /\ \A j \in DOMAIN with : j # k => w[j].tree = with[j].tree
      /\ w[k].tree \in InsertInTree(with[k].tree, rel, file)
  BY <1>0, PlacedInToc
<1>2. Len(ts) \in Nat /\ DOMAIN ts = 1 .. Len(ts)
  BY <1>0, TocParts
<1>3. /\ 1 .. Len(ts) \subseteq DOMAIN with
      /\ \A i \in 1 .. Len(ts) : with[i] = ts[i]
      /\ \A i \in DOMAIN with \ 1 .. Len(ts) :
           with[i] = [alias |-> alias, tree |-> EmptyTree] /\ k = i
      /\ with[k].alias = alias
  BY <1>0, TocObtained
<1>5. CASE TocIndex(ts, alias) # 0
  <2>1. with = ts
    BY <1>5 DEF GetOrCreateToc
  <2> HIDE DEF with, k, file
  <2>2. GoodTree(w[k].tree) /\ HoldsFiles(w[k].tree, <<>>)
    BY <1>0, <1>1, <2>1, InsertIsGood DEF GoodTocs
  <2>3. \A i \in DOMAIN w : GoodTree(w[i].tree) /\ HoldsFiles(w[i].tree, <<>>)
    BY <1>1, <2>1, <2>2 DEF GoodTocs
  <2>4. \A i, j \in DOMAIN w : w[i].alias = w[j].alias => i = j
    BY <1>1, <2>1 DEF GoodTocs
  <2> QED BY <1>1, <2>3, <2>4 DEF GoodTocs
<1>6. CASE TocIndex(ts, alias) = 0
  <2>1. with = Append(ts, [alias |-> alias, tree |-> EmptyTree])
    BY <1>6 DEF GetOrCreateToc
  <2>2. \A i \in 1 .. Len(ts) : ts[i].alias # alias
    BY <1>0, <1>6, TocParts, TocIndexFound
  <2>3. k \notin 1 .. Len(ts)
    BY <1>3, <2>2
  <2> HIDE DEF with, k, file
  <2>4. with[k].tree = EmptyTree
    BY <1>1, <1>3, <2>3
  <2>5. GoodTree(w[k].tree) /\ HoldsFiles(w[k].tree, <<>>)
    BY <1>0, <1>1, <2>4, InsertIsGood, EmptyTreeGood
  <2>6. \A i \in DOMAIN w : i = k \/ i \in 1 .. Len(ts)
    BY <1>1, <1>3
  <2>7. \A i \in DOMAIN w : GoodTree(w[i].tree) /\ HoldsFiles(w[i].tree, <<>>)
    BY <1>1, <1>2, <1>3, <2>5, <2>6 DEF GoodTocs
  <2>8. \A i, j \in DOMAIN w : w[i].alias = w[j].alias => i = j
    BY <1>1, <1>2, <1>3, <2>2, <2>6 DEF GoodTocs
  <2> QED BY <1>1, <2>7, <2>8 DEF GoodTocs
<1> QED BY <1>5, <1>6

(***************************************************************************)
(* Every action keeps it.                                                  *)
(***************************************************************************)

\* The project stays what it is, and so does what a walk visits.
LEMMA SameProject ==
  ASSUME project' = project
  PROVE  /\ Assets' = Assets
         /\ \A s : Visited(s)' = Visited(s)
         /\ \A locdb : TablesOf(locdb)' = TablesOf(locdb)
<1>1. Assets' = Assets
  BY DEF Assets
<1>2. \A walk : PathsIn(walk)' = PathsIn(walk)
  BY DEF PathsIn
<1>3. \A burner : Selected(burner)' = Selected(burner)
  BY <1>1 DEF Selected
<1>4. \A locdb : TablesOf(locdb)' = TablesOf(locdb)
  BY <1>1 DEF TablesOf
<1> QED BY <1>1, <1>2, <1>3, <1>4 DEF Visited, IsBurnStage, BurnerAt

LEMMA RemainsNext ==
  ASSUME project' = project, NEW s, stage' = s, NEW list, todo' = list, Remaining(s, list)
  PROVE  Remaining(stage, todo)'
<1>1. Visited(stage)' = Visited(s)
  BY SameProject
<1> QED BY <1>1 DEF Remaining, WalkBefore

\* The walk moves on to the next file, or to the next stage.
LEMMA StepOn ==
  ASSUME WalkSound, project' = project, stage' = stage, stage # Failed,
         todo # <<>>, todo' = Tail(todo)
  PROVE  /\ Remaining(stage, todo)' /\ (project \in Projects)' /\ (stage \in 0 .. Built)'
         /\ Head(todo) \in Visited(stage)
<1>1. Remaining(stage, todo)
  BY DEF WalkSound
<1>2. Remaining(stage, Tail(todo)) /\ Head(todo) \in Visited(stage)
  BY <1>1, TailRemains
<1> QED BY <1>2, RemainsNext DEF WalkSound

LEMMA TablesOfAssets == \A locdb : TablesOf(locdb) \subseteq DOMAIN Assets
BY DEF TablesOf

LEMMA GoToSound ==
  ASSUME WalkSound, project' = project, NEW s \in 1 .. Built, GoTo(s)
  PROVE  WalkSound'
<1>1. project \in Projects /\ s # Failed
  BY DEF WalkSound, Failed
<1>2. stage' = s /\ todo' = TodoAt(s) /\ tables' = TablesAt(s, TodoAt(s))
  BY DEF GoTo
<1>3. Remaining(s, TodoAt(s))
  BY <1>1, TodoAtRemains
<1>4. Remaining(stage, todo)'
  BY <1>2, <1>3, RemainsNext
<1>5. tables' # {} => s = 8 /\ todo' # <<>> /\ tables' \subseteq TablesOf(Head(todo'))
  BY <1>2 DEF TablesAt
<1>6. tables' \subseteq DOMAIN Assets
  BY <1>2, TablesOfAssets DEF TablesAt
<1>7. \A locdb : TablesOf(locdb)' = TablesOf(locdb)
  BY SameProject
<1>8. tables' # {} => tables' \subseteq TablesOf(Head(todo))'
  BY <1>5, <1>7
<1>9. Assets' = Assets
  BY SameProject
<1>10. s \in 0 .. Built
  BY DEF Built
<1> QED BY <1>1, <1>2, <1>4, <1>5, <1>6, <1>8, <1>9, <1>10 DEF WalkSound

\* A source that is read is a file.
LEMMA SourceFileTyped ==
  ASSUME NEW name \in Names, NEW d \in Data, NEW storage \in Storages
  PROVE  /\ SourceFile(name, d, storage) \in Files
         /\ SourceFile(name, d, storage).name = name
         /\ SourceFile(name, d, storage).data = d
<1>1. StoredFile(name, d) \in Files
  BY StoredFileTyped
<1>2. [data |-> d, storage |-> storage] \in StoredBytes
  BY DEF StoredBytes
<1> QED BY <1>1, <1>2 DEF SourceFile, Files, StoredFile

LEMMA AddSourceSound == BuildSound /\ AddSource => BuildSound'
<1> SUFFICES ASSUME BuildSound, AddSource PROVE BuildSound'
  OBVIOUS
<1> DEFINE walk == SourceWalks[stage]
           path == Head(todo)
           file == SourceFile(Last(path), project.files[walk.base][path], walk.storage)
<1>1. /\ stage \in 1 .. 4 /\ todo # <<>> /\ todo' = Tail(todo)
      /\ project' = project /\ stage' = stage /\ tables' = tables /\ tocs' = tocs
      /\ root' \in PushInTree(root, path, file)
  BY DEF AddSource
<1>2. WalkSound /\ TreesSound /\ stage # Failed /\ stage \in 1 .. Built
  BY <1>1 DEF BuildSound, Failed, Built
<1>3. /\ Remaining(stage, todo)' /\ (project \in Projects)' /\ (stage \in 0 .. Built)'
      /\ path \in Visited(stage)
  BY <1>1, <1>2, StepOn
<1>4. project \in Projects /\ tables = {} /\ tables \subseteq DOMAIN Assets
  BY <1>1, <1>2 DEF WalkSound
<1>5. WalkSound'
  BY <1>1, <1>2, <1>3, <1>4 DEF WalkSound
<1>6. path \in DOMAIN project.files[walk.base]
  BY <1>1, <1>2, <1>3, <1>4, VisitedParts
<1>7. path \in Seq(Names) \ {<<>>} /\ project.files[walk.base][path] \in Data
  BY <1>1, <1>4, <1>6, WalkParts, ProjectParts
<1>8. file \in Files
  BY <1>1, <1>7, WalkParts, LastIsName, SourceFileTyped
<1> HIDE DEF file, path, walk
<1>9. GoodTree(root)' /\ HoldsFiles(root, <<>>)'
  BY <1>1, <1>2, <1>7, <1>8, PushIsGood DEF TreesSound
<1>10. TreesSound'
  BY <1>1, <1>2, <1>9 DEF TreesSound
<1> QED BY <1>5, <1>10 DEF BuildSound

LEMMA ShareRootSound == BuildSound /\ ShareRoot => BuildSound'
<1> SUFFICES ASSUME BuildSound, ShareRoot PROVE BuildSound'
  OBVIOUS
<1>1. stage = 1 /\ GoTo(2) /\ project' = project /\ root' = root /\ tocs' = tocs /\ stage' = 2
  BY DEF ShareRoot, GoTo
<1>2. WalkSound'
  BY <1>1, GoToSound DEF BuildSound, Built
<1>3. TreesSound /\ DOMAIN tocs = {}
  <2>1. TreesSound /\ \A i \in DOMAIN tocs : tocs[i].alias \in AliasesClosed(1)
    BY <1>1 DEF BuildSound, TreesSound
  <2>2. AliasesClosed(1) = {}
    BY DEF AliasesClosed
  <2> QED BY <2>1, <2>2
<1>4. TreesSound'
  BY <1>1, <1>3 DEF TreesSound
<1> QED BY <1>2, <1>4 DEF BuildSound

LEMMA CloseTocSound == BuildSound /\ CloseToc => BuildSound'
<1> SUFFICES ASSUME BuildSound, CloseToc PROVE BuildSound'
  OBVIOUS
<1> DEFINE alias == SourceWalks[stage].alias
<1>1. /\ stage \in 2 .. 4 /\ GoTo(stage + 1) /\ project' = project
      /\ tocs' = WithToc(tocs, alias, root) /\ root' = EmptyTree /\ stage' = stage + 1
  BY DEF CloseToc, GoTo
<1>2. stage + 1 \in 1 .. Built
  BY <1>1 DEF Built
<1>3. WalkSound'
  BY <1>1, <1>2, GoToSound DEF BuildSound
<1>4. TreesSound /\ \A i \in DOMAIN tocs : tocs[i].alias \in AliasesClosed(stage)
  BY <1>1 DEF BuildSound, TreesSound
<1>5. alias \in Aliases
  BY <1>1, WalkParts
<1>6. alias \notin AliasesClosed(stage) /\ AliasesClosed(stage + 1) = AliasesClosed(stage) \cup {alias}
  <2>1. stage = 2 \/ stage = 3 \/ stage = 4
    BY <1>1
  <2>2. CASE stage = 2
    <3>1. AliasesClosed(2) = {} /\ AliasesClosed(3) = {SourceWalks[2].alias}
      BY DEF AliasesClosed
    <3> QED BY <2>2, <3>1
  <2>3. CASE stage = 3
    <3>1. AliasesClosed(3) = {"data"} /\ AliasesClosed(4) = {"data", "info"} /\ alias = "info"
      BY <2>3 DEF AliasesClosed, SourceWalks
    <3> QED BY <2>3, <3>1
  <2>4. CASE stage = 4
    <3>1. 2 .. 3 = {2, 3} /\ 2 .. 4 = {2, 3, 4}
      OBVIOUS
    <3>2. AliasesClosed(4) = {"data", "info"} /\ AliasesClosed(5) = {"data", "info", "locale"}
          /\ alias = "locale"
      BY <2>4, <3>1 DEF AliasesClosed, SourceWalks
    <3> QED BY <2>4, <3>2
  <2> QED BY <2>1, <2>2, <2>3, <2>4
<1>7. \A i \in DOMAIN tocs : tocs[i].alias # alias
  BY <1>4, <1>6
<1> HIDE DEF alias
<1>8. GoodTocs(tocs')
  BY <1>1, <1>4, <1>5, <1>7, ClosedIsGood DEF TreesSound
<1>9. \A i \in DOMAIN tocs' : tocs'[i].alias = alias \/ \E j \in DOMAIN tocs : tocs'[i].alias = tocs[j].alias
  BY <1>1, <1>4, <1>5, <1>7, ClosedIsGood DEF TreesSound
<1>10. \A i \in DOMAIN tocs' : tocs'[i].alias \in AliasesClosed(stage + 1)
  BY <1>4, <1>6, <1>9
<1>11. TreesSound'
  BY <1>1, <1>8, <1>10, EmptyTreeGood DEF TreesSound
<1> QED BY <1>3, <1>11 DEF BuildSound

LEMMA FailSound ==
  ASSUME BuildSound, Fail, stage \in 5 .. 8
  PROVE  BuildSound'
<1>1. /\ stage' = Failed /\ project' = project /\ todo' = todo /\ tables' = tables
      /\ root' = root /\ tocs' = tocs
  BY DEF Fail
<1>2. stage # Failed /\ stage \notin 1 .. 4 /\ stage \in 1 .. Built
  BY DEF Failed, Built
<1>3. project \in Projects /\ todo \in Seq(Visited(stage)) /\ tables \subseteq DOMAIN Assets
  BY <1>2 DEF BuildSound, WalkSound, Remaining
<1>4. Visited(stage) \subseteq DOMAIN Assets
  BY <1>2, <1>3, VisitedParts
<1>5. todo \in Seq(DOMAIN Assets)
  BY <1>3, <1>4, SeqMonotonic
<1>6. Assets' = Assets
  BY <1>1, SameProject
<1>7. WalkSound'
  BY <1>1, <1>3, <1>5, <1>6 DEF WalkSound, Failed, Built
<1>8. TreesSound'
  BY <1>1 DEF BuildSound, TreesSound, Failed
<1> QED BY <1>7, <1>8 DEF BuildSound

\* What a burner makes goes under a path, to a TOC, and is data.
LEMMA BurnedPathTyped ==
  ASSUME NEW path \in Seq(Names) \ {<<>>}
  PROVE  BurnedPath(path) \in Seq(Names) \ {<<>>}
<1>1. Front(path) \in Seq(Names) /\ Last(path) \in Names
  BY FrontAndLast, LastIsName
<1>2. BurnedKey[Last(path).key] \in Keys
  BY <1>1, NamesAssumption DEF Names
<1> DEFINE name == [key |-> BurnedKey[Last(path).key], cased |-> FALSE]
<1>3. name \in Names
  BY <1>2 DEF Names
<1>4. BurnedPath(path) = Append(Front(path), name)
  BY DEF BurnedPath
<1> HIDE DEF name
<1> QED BY <1>1, <1>3, <1>4, FrontOfAppend

LEMMA BurnParts ==
  ASSUME project \in Projects, NEW s \in 5 .. 8, NEW path \in Visited(s)
  PROVE  /\ path \in DOMAIN Assets /\ path \in Seq(Names) \ {<<>>}
         /\ Compiled[Assets[path]] \in Data \cup {Rejected}
         /\ AliasFor(BurnerAt(s).burner, path) \in Aliases
<1>1. s \in 1 .. Built /\ s \notin 1 .. 4
  BY DEF Built
<1>2. path \in DOMAIN Assets
  BY <1>1, VisitedParts
<1>3. path \in Seq(Names) \ {<<>>} /\ Assets[path] \in Data
  BY <1>2, AssetsParts
<1>4. Compiled[Assets[path]] \in Data \cup {Rejected}
  BY <1>3, DataAssumption
<1>5. RuleIndex(project.rules, BurnerAt(s).burner, path) # 0
  BY <1>1 DEF Visited, IsBurnStage, Selected
<1> QED BY <1>2, <1>3, <1>4, <1>5, RulesRoute

LEMMA TableParts ==
  ASSUME project \in Projects, NEW locdb \in DOMAIN Assets, NEW table \in TablesOf(locdb)
  PROVE  /\ table \in DOMAIN Assets
         /\ Compiled[Assets[table]] \in Data \cup {Rejected}
         /\ LocalePath[<<Last(locdb), Last(table)>>] \in Seq(Names) \ {<<>>}
<1>1. table \in DOMAIN Assets /\ LocalePath[<<Last(locdb), Last(table)>>] # <<>>
  BY DEF TablesOf
<1>2. /\ locdb \in Seq(Names) \ {<<>>} /\ table \in Seq(Names) \ {<<>>} /\ Assets[table] \in Data
  BY <1>1, AssetsParts
<1>3. Last(locdb) \in Names /\ Last(table) \in Names
  BY <1>2, LastIsName
<1>4. LocalePath[<<Last(locdb), Last(table)>>] \in Seq(Names)
  BY <1>3, NamesAssumption
<1>5. Compiled[Assets[table]] \in Data \cup {Rejected}
  BY <1>2, DataAssumption
<1> QED BY <1>1, <1>4, <1>5

LEMMA BurnSound == BuildSound /\ Burn => BuildSound'
<1> SUFFICES ASSUME BuildSound, Burn PROVE BuildSound'
  OBVIOUS
<1> DEFINE path  == Head(todo)
           bytes == Compiled[Assets[path]]
           alias == AliasFor(BurnerAt(stage).burner, path)
<1>1. stage \in 5 .. 7 /\ todo # <<>> /\ stage # Failed /\ WalkSound /\ TreesSound
  BY DEF Burn, BuildSound, Failed
<1>2. CASE Fail
  BY <1>1, <1>2, FailSound
<1>3. CASE /\ bytes # Rejected
           /\ tocs' \in PlaceBurned(tocs, alias, BurnedPath(path), bytes)
           /\ todo' = Tail(todo)
           /\ UNCHANGED <<project, stage, tables, root>>
  <2>1. /\ project' = project /\ stage' = stage /\ tables' = tables /\ root' = root
        /\ bytes # Rejected /\ tocs' \in PlaceBurned(tocs, alias, BurnedPath(path), bytes)
        /\ todo' = Tail(todo)
    BY <1>3
  <2>2. /\ Remaining(stage, todo)' /\ (project \in Projects)' /\ (stage \in 0 .. Built)'
        /\ path \in Visited(stage)
    BY <1>1, <2>1, StepOn
  <2>3. project \in Projects /\ stage \in 5 .. 8 /\ tables = {}
    BY <1>1 DEF WalkSound
  <2>4. path \in Seq(Names) \ {<<>>} /\ bytes \in Data /\ alias \in Aliases
    BY <2>1, <2>2, <2>3, BurnParts
  <2>5. BurnedPath(path) \in Seq(Names) \ {<<>>}
    BY <2>4, BurnedPathTyped
  <2> HIDE DEF path, bytes, alias
  <2>6. WalkSound'
    BY <1>1, <2>1, <2>2, <2>3 DEF WalkSound
  <2>7. GoodTocs(tocs')
    BY <1>1, <2>1, <2>4, <2>5, BurnedIsGood DEF TreesSound
  <2>8. TreesSound'
    BY <1>1, <2>1, <2>7 DEF TreesSound
  <2> QED BY <2>6, <2>8 DEF BuildSound
<1> QED BY <1>2, <1>3 DEF Burn

LEMMA BurnTableSound == BuildSound /\ BurnTable => BuildSound'
<1> SUFFICES ASSUME BuildSound, BurnTable PROVE BuildSound'
  OBVIOUS
<1> DEFINE path  == Head(todo)
           alias == AliasFor("UCS", path)
           bytes(table) == Compiled[Assets[table]]
           rel(table) == LocalePath[<<Last(path), Last(table)>>]
<1>1. stage = 8 /\ stage # Failed /\ WalkSound /\ TreesSound
  BY DEF BurnTable, BuildSound, Failed
<1>2. CASE Fail
  BY <1>1, <1>2, FailSound
<1>3. CASE \E table \in tables :
             /\ bytes(table) # Rejected
             /\ tocs' \in PlaceBurned(tocs, alias, rel(table), bytes(table))
             /\ tables' = tables \ {table}
             /\ UNCHANGED <<project, stage, todo, root>>
  <2>1. PICK table \in tables :
          /\ bytes(table) # Rejected
          /\ tocs' \in PlaceBurned(tocs, alias, rel(table), bytes(table))
          /\ tables' = tables \ {table}
          /\ UNCHANGED <<project, stage, todo, root>>
    BY <1>3
  <2>2. /\ project' = project /\ stage' = stage /\ todo' = todo /\ root' = root
    BY <2>1
  <2>3. /\ project \in Projects /\ todo # <<>> /\ tables \subseteq TablesOf(Head(todo))
        /\ tables \subseteq DOMAIN Assets /\ Remaining(8, todo)
    BY <1>1, <2>1 DEF WalkSound
  <2>4. path \in Visited(8)
    BY <2>3, TailRemains
  <2>5. BurnerAt(8).burner = "UCS"
    BY DEF BurnerAt, Burners
  <2>6. path \in DOMAIN Assets /\ alias \in Aliases
    BY <2>3, <2>4, <2>5, BurnParts
  <2>7. table \in TablesOf(path)
    BY <2>3
  <2>8. rel(table) \in Seq(Names) \ {<<>>} /\ bytes(table) \in Data
    BY <2>1, <2>3, <2>6, <2>7, TableParts
  <2> HIDE DEF alias, bytes, rel
  <2>9. GoodTocs(tocs')
    BY <1>1, <2>1, <2>6, <2>8, BurnedIsGood DEF TreesSound
  <2>10. TreesSound'
    BY <1>1, <2>2, <2>9 DEF TreesSound
  <2>11. Remaining(stage, todo)'
    BY <1>1, <2>2, <2>3, RemainsNext
  <2>12. TablesOf(path)' = TablesOf(path) /\ Assets' = Assets
    BY <2>2, SameProject
  <2>13. WalkSound'
    BY <1>1, <2>1, <2>2, <2>3, <2>11, <2>12 DEF WalkSound, Built, Failed
  <2> QED BY <2>10, <2>13 DEF BuildSound
<1> QED BY <1>2, <1>3 DEF BurnTable

LEMMA NextLocdbSound == BuildSound /\ NextLocdb => BuildSound'
<1> SUFFICES ASSUME BuildSound, NextLocdb PROVE BuildSound'
  OBVIOUS
<1>1. /\ stage = 8 /\ todo # <<>> /\ todo' = Tail(todo) /\ tables' = TablesAt(8, Tail(todo))
      /\ project' = project /\ stage' = stage /\ root' = root /\ tocs' = tocs
      /\ stage # Failed /\ WalkSound /\ TreesSound
  BY DEF NextLocdb, BuildSound, Failed
<1>2. Remaining(stage, todo)' /\ (project \in Projects)' /\ (stage \in 0 .. Built)'
  BY <1>1, StepOn
<1>3. tables' # {} => todo' # <<>> /\ tables' \subseteq TablesOf(Head(todo'))
  BY <1>1 DEF TablesAt
<1>4. tables' \subseteq DOMAIN Assets
  BY <1>1, TablesOfAssets DEF TablesAt
<1>5. Assets' = Assets /\ \A locdb : TablesOf(locdb)' = TablesOf(locdb)
  BY <1>1, SameProject
<1>6. tables' # {} => tables' \subseteq TablesOf(Head(todo))'
  BY <1>3, <1>5
<1>7. WalkSound'
  BY <1>1, <1>2, <1>3, <1>4, <1>5, <1>6 DEF WalkSound, Failed
<1>8. TreesSound'
  BY <1>1 DEF TreesSound
<1> QED BY <1>7, <1>8 DEF BuildSound

LEMMA NextBurnerSound == BuildSound /\ NextBurner => BuildSound'
<1> SUFFICES ASSUME BuildSound, NextBurner PROVE BuildSound'
  OBVIOUS
<1>1. /\ stage \in 5 .. 8 /\ GoTo(stage + 1) /\ project' = project /\ root' = root
      /\ tocs' = tocs /\ stage' = stage + 1
  BY DEF NextBurner, GoTo, IsBurnStage
<1>2. stage + 1 \in 1 .. Built /\ stage + 1 \notin 1 .. 4
  BY <1>1 DEF Built
<1>3. WalkSound'
  BY <1>1, <1>2, GoToSound DEF BuildSound
<1>4. TreesSound'
  BY <1>1, <1>2 DEF BuildSound, TreesSound
<1> QED BY <1>3, <1>4 DEF BuildSound

LEMMA InitSound == Init => BuildSound
<1> SUFFICES ASSUME Init PROVE BuildSound
  OBVIOUS
<1>1. /\ project \in Projects /\ stage = 1 /\ todo = TodoAt(1) /\ tables = {}
      /\ root = EmptyTree /\ tocs = <<>>
  BY DEF Init
<1>2. 1 \in 1 .. Built /\ 1 # Failed
  BY DEF Built, Failed
<1>3. Remaining(1, TodoAt(1))
  BY <1>1, <1>2, TodoAtRemains
<1>4. WalkSound
  BY <1>1, <1>2, <1>3 DEF WalkSound
<1>5. IsArchive(<<>>) /\ DOMAIN <<>> = {}
  BY DEF IsArchive
<1>6. TreesSound
  BY <1>1, <1>5, EmptyTreeGood DEF TreesSound, GoodTocs
<1> QED BY <1>4, <1>6 DEF BuildSound

LEMMA BuildStepSound == BuildSound /\ [Next]_vars => BuildSound'
<1> SUFFICES ASSUME BuildSound, [Next]_vars PROVE BuildSound'
  OBVIOUS
<1>1. CASE UNCHANGED vars
  <2>1. /\ project' = project /\ stage' = stage /\ todo' = todo /\ tables' = tables
        /\ root' = root /\ tocs' = tocs
    BY <1>1 DEF vars
  <2>2. WalkSound /\ TreesSound
    BY DEF BuildSound
  <2>3. (stage # Failed)' => Remaining(stage, todo)'
    BY <2>1, <2>2, RemainsNext DEF WalkSound
  <2>4. Assets' = Assets /\ \A locdb : TablesOf(locdb)' = TablesOf(locdb)
    BY <2>1, SameProject
  <2>5. TablesOf(Head(todo))' = TablesOf(Head(todo))
    BY <2>1, <2>4
  <2>6. WalkSound'
    BY <2>1, <2>2, <2>3, <2>4, <2>5 DEF WalkSound
  <2>7. TreesSound'
    BY <2>1, <2>2 DEF TreesSound
  <2> QED BY <2>6, <2>7 DEF BuildSound
<1> QED BY <1>1, AddSourceSound, ShareRootSound, CloseTocSound, BurnSound, BurnTableSound,
           NextLocdbSound, NextBurnerSound DEF Next

THEOREM BuildIsSound == Spec => []BuildSound
<1> QED BY InitSound, BuildStepSound, PTL DEF Spec

(***************************************************************************)
(* compile_project only ever visits files of the project and keeps its     *)
(* trees well formed, whatever the project and the rules are.              *)
(***************************************************************************)
THEOREM BuildTypeCorrect == Spec => []BuildTypeOK
<1>1. BuildSound => BuildTypeOK
  <2> SUFFICES ASSUME BuildSound PROVE BuildTypeOK
    OBVIOUS
  <2> DEFINE all == UNION {DOMAIN project.files[b] : b \in DOMAIN project.files}
  <2>1. WalkSound /\ TreesSound
    BY DEF BuildSound
  <2>2. \A base \in Bases : DOMAIN project.files[base] \subseteq all
    BY <2>1, ProjectParts DEF WalkSound
  <2> HIDE DEF all
  <2>3. DOMAIN Assets \subseteq all
    BY <2>2 DEF Assets, Bases
  <2>4. ASSUME stage = Failed PROVE Range(todo) \subseteq all
    <3>1. Range(todo) \subseteq all
      BY <2>1, <2>3, <2>4 DEF WalkSound, Range
    <3> QED BY <3>1
  <2>5. ASSUME stage # Failed PROVE Range(todo) \subseteq all
    <3>1. stage \in 1 .. Built /\ Remaining(stage, todo) /\ project \in Projects
      BY <2>1, <2>5 DEF WalkSound, Failed, Built
    <3>2. Visited(stage) \subseteq all
      BY <2>2, <2>3, <3>1, VisitedParts, WalkParts
    <3>3. Range(todo) \subseteq all
      BY <3>1, <3>2 DEF Remaining, Range
    <3> QED BY <3>3
  <2>6. Range(todo) \subseteq all
    BY <2>4, <2>5
  <2>7. IsTree(root) /\ IsArchive(tocs)
    BY <2>1 DEF TreesSound, GoodTocs, GoodTree
  <2> QED BY <2>1, <2>6, <2>7 DEF BuildTypeOK, WalkSound, all
<1> QED BY <1>1, BuildIsSound, PTL

(***************************************************************************)
(* No TOC of a built archive comes twice, and none is without files: an    *)
(* empty tree makes none, and a burner that asks for one puts a file in.   *)
(***************************************************************************)
THEOREM BuiltTocsAreDistinctAndFilled == Spec => []TocsDistinctAndFilled
<1>1. BuildSound => TocsDistinctAndFilled
  BY DEF BuildSound, TreesSound, GoodTocs, TocsDistinctAndFilled
<1> QED BY <1>1, BuildIsSound, PTL

(***************************************************************************)
(* Whatever is pushed and burned in whatever order, the folder tables of   *)
(* the archive stay sorted, lowercase and without doubles: the game can go *)
(* down to any folder even where it cannot find the file.                  *)
(***************************************************************************)
THEOREM BuiltFoldersAreSearchable == Spec => []FoldersSearchable
<1>1. BuildSound => FoldersSearchable
  BY DEF BuildSound, TreesSound, GoodTocs, GoodTree, FoldersKept, FoldersSearchable
<1> QED BY <1>1, BuildIsSound, PTL

-----------------------------------------------------------------------------
(***************************************************************************)
(* A tidy project's file tables.  A walk comes to the files of a folder in *)
(* the order of their names, and to a folder only once; so what it pushes  *)
(* at the end belongs there.                                               *)
(***************************************************************************)
FilesKept(t) == \A p : TableKept(FilesIn(t, p))

\* Every file of the tree comes from one of the paths.
FilledFrom(t, paths) ==
  \A p : \A k \in 1 .. Len(FilesIn(t, p)) :
    \E q \in paths : Front(q) = p /\ Last(q) = FilesIn(t, p)[k].name

\* The paths the tree at hand was filled from: of this walk, and of the one
\* it shares the tree with.
Done(s, list) == (Visited(s) \ Range(list)) \cup IF s = 2 THEN Visited(1) ELSE {}

TidySound ==
  /\ ArchiveKept(tocs)
  /\ stage \in 1 .. 4 => FilesKept(root) /\ FilledFrom(root, Done(stage, todo))

LEMMA EmptyTableKept == TableKept(<<>>)
BY DEF TableKept, Sorted, UniquelyNamed, AllLower

LEMMA KeptParts ==
  ASSUME NEW t
  PROVE  FoldersKept(t) /\ FilesKept(t) <=> Kept(t)
<1>1. \A p \in DOMAIN t : FilesIn(t, p) = t[p].files
  BY DEF FilesIn
<1>2. \A p : p \notin DOMAIN t => TableKept(FilesIn(t, p))
  BY EmptyTableKept DEF FilesIn
<1>3. FilesKept(t) <=> \A p \in DOMAIN t : TableKept(t[p].files)
  BY <1>1, <1>2 DEF FilesKept
<1> QED BY <1>3 DEF Kept, FoldersKept

LEMMA EmptyTreeFiles == FilesKept(EmptyTree) /\ \A p : FilesIn(EmptyTree, p) = <<>>
<1>1. \A p : FilesIn(EmptyTree, p) = <<>>
  BY DEF FilesIn, EmptyTree, EmptyFolder
<1> QED BY <1>1, EmptyTableKept DEF FilesKept

LEMMA AppendAbove ==
  ASSUME NEW table \in Seq(Files), TableKept(table), NEW file \in Files, IsLower(file.name),
         \A k \in 1 .. Len(table) : table[k].name.key < file.name.key
  PROVE  TableKept(Append(table, file))
<1> DEFINE r == Append(table, file)
           n == Len(table)
<1>1. /\ n \in Nat /\ DOMAIN table = 1 .. n /\ DOMAIN r = 1 .. n + 1
      /\ \A k \in 1 .. n : r[k] = table[k]
      /\ r[n + 1] = file
  OBVIOUS
<1>2. \A f \in Files : f.name.key \in Nat
  BY KeysAssumption DEF Files, Names
<1>3. \A k \in 1 .. n : table[k] \in Files
  OBVIOUS
<1> HIDE DEF r, n
<1>4. \A k \in DOMAIN r : k = n + 1 \/ k \in 1 .. n
  BY <1>1
<1>5. \A k \in 1 .. n : r[k].name.key < r[n + 1].name.key /\ r[k].name.key \in Nat
  BY <1>1, <1>2, <1>3 DEF n
<1>6. r[n + 1].name.key \in Nat
  BY <1>1, <1>2
<1>7. Sorted(r)
  <2>1. \A i, j \in 1 .. n : i <= j => r[i].name.key <= r[j].name.key
    BY <1>1 DEF TableKept, Sorted
  <2> QED BY <1>1, <1>4, <1>5, <1>6, <2>1 DEF Sorted
<1>8. UniquelyNamed(r)
  <2>1. \A i, j \in 1 .. n : r[i].name.key = r[j].name.key => i = j
    BY <1>1 DEF TableKept, UniquelyNamed
  <2> QED BY <1>4, <1>5, <1>6, <2>1 DEF UniquelyNamed
<1>9. AllLower(r)
  BY <1>1, <1>4 DEF TableKept, AllLower
<1> QED BY <1>7, <1>8, <1>9 DEF TableKept, r

\* Of two files of a folder, the one of the smaller name comes first.
LEMMA SiblingsInOrder ==
  ASSUME NEW p \in Seq(Names) \ {<<>>}, NEW q \in Seq(Names) \ {<<>>}, Front(p) = Front(q),
         SourceOrder(p, q)
  PROVE  ByteRank[Last(p)] < ByteRank[Last(q)]
<1> DEFINE n == Len(p)
<1>1. /\ Len(Front(p)) = Len(p) - 1 /\ Append(Front(p), Last(p)) = p
      /\ \A i \in 1 .. Len(p) - 1 : Front(p)[i] = p[i]
  BY FrontAndLast
<1>2. /\ Len(Front(q)) = Len(q) - 1 /\ Append(Front(q), Last(q)) = q
      /\ \A i \in 1 .. Len(q) - 1 : Front(q)[i] = q[i]
  BY FrontAndLast
<1>3. n \in Nat /\ n >= 1 /\ Len(q) = n
  BY <1>1, <1>2, EmptySeq
<1>4. Last(p) = p[n] /\ Last(q) = q[n]
  BY <1>3 DEF Last
<1>5. p # q
  BY DEF SourceOrder
<1>6. p[n] # q[n]
  BY <1>1, <1>2, <1>4, <1>5
<1>7. \A j \in 1 .. n - 1 : p[j] = q[j]
  BY <1>1, <1>2, <1>3
<1>8. Parts(p, q, n)
  BY <1>3, <1>6, <1>7 DEF Parts
<1>9. Fork(p, q) = n
  BY <1>8, ForkParts
<1> QED BY <1>4, <1>9 DEF SourceOrder

LEMMA LowerPathParts ==
  ASSUME NEW p \in Seq(Names) \ {<<>>}, p = LowerPath(p)
  PROVE  Dirs(p) = Front(p) /\ Lower(Last(p)) = Last(p) /\ IsLower(Last(p))
<1>1. /\ Front(p) \in Seq(Names) /\ Len(Front(p)) = Len(p) - 1
      /\ \A i \in 1 .. Len(p) - 1 : Front(p)[i] = p[i]
  BY FrontAndLast
<1>2. Len(p) \in Nat /\ Len(p) >= 1 /\ DOMAIN p = 1 .. Len(p)
  BY EmptySeq
<1>3. \A i \in 1 .. Len(p) : p[i] = Lower(p[i])
  BY <1>2 DEF LowerPath
<1>4. Dirs(p) \in Seq(Names) /\ Len(Dirs(p)) = Len(p) - 1
      /\ \A i \in 1 .. Len(p) - 1 : Dirs(p)[i] = p[i]
  <2>1. Dirs(p) \in Seq(Names)
    BY DirsAreLower
  <2> QED BY <1>2, <1>3, <2>1 DEF Dirs
<1>5. Dirs(p) = Front(p)
  BY <1>1, <1>4, SeqEqual
<1>6. Last(p) = p[Len(p)] /\ p[Len(p)] \in Names
  BY <1>2 DEF Last
<1>7. Lower(Last(p)) = Last(p)
  BY <1>2, <1>3, <1>6
<1>8. IsLower(Last(p))
  BY <1>6, <1>7, LowerIsLower
<1> QED BY <1>5, <1>7, <1>8

\* The next file of a walk belongs at the end of its table.
LEMMA PushKeeps ==
  ASSUME NEW t, IsTree(t), FilesKept(t), NEW paths, FilledFrom(t, paths),
         NEW rel \in Seq(Names) \ {<<>>}, rel = LowerPath(rel),
         NEW file \in Files, file.name = Last(rel),
         \A q \in paths : Front(q) = Front(rel) =>
           q \in Seq(Names) \ {<<>>} /\ q = LowerPath(q) /\ SourceOrder(q, rel),
         NEW w \in PushInTree(t, rel, file)
  PROVE  FilesKept(w) /\ FilledFrom(w, paths \cup {rel})
<1> DEFINE dirs    == Dirs(rel)
           lowered == [file EXCEPT !.name = Lower(@)]
           old     == FilesIn(t, dirs)
           table   == Append(old, lowered)
<1>1. old \in Seq(Files) /\ TreeWith(t, w, dirs, table)
  BY PushPlaces
<1>2. dirs = Front(rel) /\ Lower(Last(rel)) = Last(rel) /\ IsLower(Last(rel)) /\ Last(rel) \in Names
  BY LowerPathParts, LastIsName
<1>3. lowered \in Files /\ lowered.name = Last(rel)
  BY <1>2, LoweredFile
<1>4. ASSUME NEW k \in 1 .. Len(old) PROVE old[k].name.key < lowered.name.key
  <2>1. PICK q \in paths : Front(q) = dirs /\ Last(q) = old[k].name
    BY DEF FilledFrom
  <2>2. q \in Seq(Names) \ {<<>>} /\ q = LowerPath(q) /\ SourceOrder(q, rel) /\ Front(q) = Front(rel)
    BY <1>2, <2>1
  <2>3. IsLower(Last(q)) /\ Last(q) \in Names
    BY <2>2, LowerPathParts, LastIsName
  <2>4. ByteRank[Last(q)] < ByteRank[Last(rel)]
    BY <2>2, SiblingsInOrder
  <2>5. Last(q).key < Last(rel).key
    BY <1>2, <2>3, <2>4, NamesAssumption
  <2> QED BY <1>3, <2>1, <2>5
<1>5. TableKept(old)
  BY DEF FilesKept
<1> HIDE DEF dirs, lowered, old
<1>6. TableKept(table)
  BY <1>1, <1>2, <1>3, <1>4, <1>5, AppendAbove
<1>7. \A k \in 1 .. Len(table) : table[k] = lowered \/ \E j \in 1 .. Len(old) : table[k] = old[j]
  BY <1>1, <1>3
<1> HIDE DEF table
<1>8. \A p : FilesIn(w, p) = IF p = dirs THEN table ELSE FilesIn(t, p)
  BY <1>1 DEF TreeWith
<1>9. FilesKept(w)
  BY <1>6, <1>8 DEF FilesKept
<1>10. ASSUME NEW p, NEW k \in 1 .. Len(FilesIn(w, p))
       PROVE  \E q \in paths \cup {rel} : Front(q) = p /\ Last(q) = FilesIn(w, p)[k].name
  <2>1. CASE p # dirs
    BY <1>8, <2>1 DEF FilledFrom
  <2>2. CASE p = dirs
    <3>1. FilesIn(w, p) = table
      BY <1>8, <2>2
    <3>2. CASE table[k] = lowered
      BY <1>2, <1>3, <2>2, <3>1, <3>2
    <3>3. CASE \E j \in 1 .. Len(old) : table[k] = old[j]
      <4>1. PICK j \in 1 .. Len(old) : table[k] = old[j]
        BY <3>3
      <4>2. \E q \in paths : Front(q) = dirs /\ Last(q) = old[j].name
        BY DEF FilledFrom, old
      <4> QED BY <2>2, <3>1, <4>1, <4>2
    <3> QED BY <1>7, <3>1, <3>2, <3>3
  <2> QED BY <2>1, <2>2
<1>11. FilledFrom(w, paths \cup {rel})
  BY <1>10 DEF FilledFrom
<1> QED BY <1>9, <1>11

LEMMA FilledFromMore ==
  ASSUME NEW t, NEW paths, NEW more, FilledFrom(t, paths), paths \subseteq more
  PROVE  FilledFrom(t, more)
BY DEF FilledFrom

\* What is done comes before what is next, in the folders of a tidy project.
LEMMA DoneComesBefore ==
  ASSUME project \in Projects, Tidy, NEW s \in 1 .. 4, NEW list, Remaining(s, list), list # <<>>
  PROVE  /\ Head(list) \in Seq(Names) \ {<<>>} /\ Head(list) = LowerPath(Head(list))
         /\ \A q \in Done(s, list) : Front(q) = Front(Head(list)) =>
              q \in Seq(Names) \ {<<>>} /\ q = LowerPath(q) /\ SourceOrder(q, Head(list))
<1> DEFINE path == Head(list)
<1>1. 1 \in 1 .. Built /\ s \in 1 .. Built
  BY DEF Built
<1>2. Visited(s) = PathsIn(SourceWalks[s]) /\ Visited(1) = PathsIn(SourceWalks[1])
  BY DEF Visited
<1>3. \A k \in {1, s} : \A p \in Visited(k) : p \in Seq(Names) \ {<<>>} /\ p = LowerPath(p)
  BY <1>1, <1>2, VisitedParts DEF Tidy
<1>4. /\ path \in Visited(s) /\ path = list[1] /\ 1 \in 1 .. Len(list)
  BY TailRemains DEF Remaining
<1> HIDE DEF path
<1>5. ASSUME NEW q \in Visited(s) \ Range(list) PROVE SourceOrder(q, path)
  BY <1>4 DEF Remaining, WalkBefore
<1>6. ASSUME s = 2, NEW q \in Visited(1) PROVE Front(q) # Front(path)
  <2> DEFINE F(walk) == {Front(p) : p \in PathsIn(walk)}
  <2>1. F(SourceWalks[1]) \cap F(SourceWalks[2]) = {}
    BY DEF Tidy
  <2>2. Front(q) \in F(SourceWalks[1]) /\ Front(path) \in F(SourceWalks[2])
    BY <1>2, <1>4, <1>6
  <2> HIDE DEF F
  <2> QED BY <2>1, <2>2
<1>7. \A q \in Done(s, list) : Front(q) = Front(path) => q \in Visited(s) \ Range(list)
  BY <1>6 DEF Done
<1> QED BY <1>3, <1>4, <1>5, <1>7 DEF path

LEMMA DoneGrows ==
  ASSUME NEW s \in 1 .. 4, NEW list, Remaining(s, list), list # <<>>
  PROVE  Done(s, list) \cup {Head(list)} \subseteq Done(s, Tail(list))
<1>1. /\ list \in Seq(Visited(s)) /\ Len(list) \in Nat /\ Len(list) >= 1
      /\ Head(list) = list[1] /\ Head(list) \in Visited(s)
      /\ Tail(list) \in Seq(Visited(s)) /\ Len(Tail(list)) = Len(list) - 1
      /\ \A i \in 1 .. Len(list) - 1 : Tail(list)[i] = list[i + 1]
  BY DEF Remaining
<1>2. ASSUME NEW i \in 1 .. Len(list) - 1 PROVE Tail(list)[i] # list[1] /\ Tail(list)[i] \in Range(list)
  <2>1. 1 \in 1 .. Len(list) /\ i + 1 \in 1 .. Len(list) /\ 1 < i + 1 /\ Tail(list)[i] = list[i + 1]
    BY <1>1
  <2>2. WalkBefore(s, list[1], list[i + 1])
    BY <2>1 DEF Remaining
  <2> QED BY <1>1, <2>1, <2>2 DEF WalkBefore, SourceOrder, Range
<1>3. \A x \in Range(Tail(list)) : x # Head(list) /\ x \in Range(list)
  BY <1>1, <1>2 DEF Range
<1> QED BY <1>1, <1>3 DEF Done

LEMMA TidyAddSource == BuildSound /\ Tidy /\ TidySound /\ AddSource => TidySound'
<1> SUFFICES ASSUME BuildSound, Tidy, TidySound, AddSource PROVE TidySound'
  OBVIOUS
<1> DEFINE walk == SourceWalks[stage]
           path == Head(todo)
           file == SourceFile(Last(path), project.files[walk.base][path], walk.storage)
<1>1. /\ stage \in 1 .. 4 /\ todo # <<>> /\ todo' = Tail(todo)
      /\ project' = project /\ stage' = stage /\ tocs' = tocs
      /\ root' \in PushInTree(root, path, file)
  BY DEF AddSource
<1>2. /\ project \in Projects /\ Remaining(stage, todo) /\ IsTree(root)
      /\ stage \in 1 .. Built /\ FilesKept(root) /\ FilledFrom(root, Done(stage, todo))
  BY <1>1 DEF BuildSound, WalkSound, TreesSound, GoodTree, TidySound, Failed, Built
<1>3. path \in DOMAIN project.files[walk.base]
  BY <1>1, <1>2, TailRemains, VisitedParts
<1>4. path \in Seq(Names) \ {<<>>} /\ project.files[walk.base][path] \in Data
  BY <1>1, <1>2, <1>3, WalkParts, ProjectParts
<1>5. file \in Files /\ file.name = Last(path)
  BY <1>1, <1>4, WalkParts, LastIsName, SourceFileTyped
<1>6. /\ path = LowerPath(path)
      /\ \A q \in Done(stage, todo) : Front(q) = Front(path) =>
           q \in Seq(Names) \ {<<>>} /\ q = LowerPath(q) /\ SourceOrder(q, path)
  BY <1>1, <1>2, DoneComesBefore
<1>7. Done(stage, todo) \cup {path} \subseteq Done(stage, Tail(todo))
  BY <1>1, <1>2, DoneGrows
<1> HIDE DEF walk, path, file
<1>8. FilesKept(root') /\ FilledFrom(root', Done(stage, todo) \cup {path})
  BY <1>1, <1>2, <1>4, <1>5, <1>6, PushKeeps
<1>9. FilledFrom(root', Done(stage, Tail(todo)))
  BY <1>7, <1>8, FilledFromMore
<1>10. \A s : Visited(s)' = Visited(s)
  BY <1>1, SameProject
<1>11. Done(stage, todo)' = Done(stage, Tail(todo))
  BY <1>1, <1>10 DEF Done
<1> QED BY <1>1, <1>8, <1>9, <1>11 DEF TidySound, ArchiveKept, FilesKept, FilledFrom

LEMMA TidyShareRoot == BuildSound /\ TidySound /\ ShareRoot => TidySound'
<1> SUFFICES ASSUME BuildSound, TidySound, ShareRoot PROVE TidySound'
  OBVIOUS
<1>1. /\ stage = 1 /\ todo = <<>> /\ project' = project /\ root' = root /\ tocs' = tocs
      /\ stage' = 2
  BY DEF ShareRoot, GoTo
<1>2. FilesKept(root) /\ FilledFrom(root, Done(1, <<>>)) /\ ArchiveKept(tocs)
  BY <1>1 DEF TidySound
<1>3. \A s : Visited(s)' = Visited(s)
  BY <1>1, SameProject
<1>4. Done(1, <<>>) \subseteq Done(stage, todo)'
  BY <1>1, <1>3 DEF Done
<1>5. FilledFrom(root, Done(stage, todo)')
  BY <1>2, <1>4, FilledFromMore
<1> QED BY <1>1, <1>2, <1>5 DEF TidySound, ArchiveKept, FilesKept, FilledFrom

LEMMA TidyCloseToc == BuildSound /\ TidySound /\ CloseToc => TidySound'
<1> SUFFICES ASSUME BuildSound, TidySound, CloseToc PROVE TidySound'
  OBVIOUS
<1> DEFINE alias == SourceWalks[stage].alias
           toc == [alias |-> alias, tree |-> root]
<1>1. /\ stage \in 2 .. 4 /\ project' = project /\ stage' = stage + 1
      /\ tocs' = WithToc(tocs, alias, root) /\ root' = EmptyTree
  BY DEF CloseToc, GoTo
<1>2. FilesKept(root) /\ ArchiveKept(tocs) /\ GoodTree(root) /\ IsArchive(tocs)
  BY <1>1 DEF TidySound, BuildSound, TreesSound, GoodTocs
<1>3. Kept(root)
  BY <1>2, KeptParts DEF GoodTree
<1>4. ArchiveKept(tocs')
  <2>1. CASE root = EmptyTree
    BY <1>1, <1>2, <2>1 DEF WithToc
  <2>2. CASE root # EmptyTree
    <3>1. tocs' = Append(tocs, toc)
      BY <1>1, <2>2 DEF WithToc
    <3>2. IsToc(toc) /\ toc.tree = root
      BY <1>1, <1>2, WalkParts, TocOf DEF GoodTree
    <3> HIDE DEF toc
    <3>3. Len(tocs) \in Nat /\ DOMAIN tocs = 1 .. Len(tocs)
      BY <1>2, TocParts
    <3>4. DOMAIN tocs' = 1 .. Len(tocs) + 1
      BY <1>2, <3>1, <3>2, TocAppended
    <3>5. \A i \in 1 .. Len(tocs) : tocs'[i] = tocs[i]
      BY <1>2, <3>1, <3>2, TocAppended
    <3>6. tocs'[Len(tocs) + 1] = toc
      BY <1>2, <3>1, <3>2, TocAppended
    <3> QED BY <1>2, <1>3, <3>2, <3>3, <3>4, <3>5, <3>6 DEF ArchiveKept
  <2> QED BY <2>1, <2>2
<1>5. FilesKept(EmptyTree) /\ \A paths : FilledFrom(EmptyTree, paths)
  BY EmptyTreeFiles DEF FilledFrom
<1> QED BY <1>1, <1>4, <1>5 DEF TidySound, ArchiveKept, FilesKept, FilledFrom

LEMMA KeptIsSorted == \A t : Kept(t) => TreeSorted(t)
BY DEF Kept, TreeSorted, TableKept

\* A burned file is inserted where it belongs.
LEMMA BurnedIsKept ==
  ASSUME NEW ts, IsArchive(ts), ArchiveKept(ts), NEW alias \in Aliases,
         NEW rel \in Seq(Names) \ {<<>>}, NEW d \in Data, NEW w \in PlaceBurned(ts, alias, rel, d)
  PROVE  ArchiveKept(w)
<1> DEFINE with == GetOrCreateToc(ts, alias)
           k    == TocIndex(with, alias)
           file == StoredFile(Last(rel), d)
<1>1. /\ k \in DOMAIN with
      /\ DOMAIN w = DOMAIN with
      /\ \A j \in DOMAIN with : j # k => w[j].tree = with[j].tree
      /\ w[k].tree \in InsertInTree(with[k].tree, rel, file)
  BY PlacedInToc
<1>2. file \in Files
  BY LastIsName, StoredFileTyped
<1>3. /\ IsArchive(with)
      /\ \A i \in 1 .. Len(ts) : with[i] = ts[i]
      /\ \A i \in DOMAIN with \ 1 .. Len(ts) : with[i] = [alias |-> alias, tree |-> EmptyTree]
  BY TocObtained
<1>4. DOMAIN ts = 1 .. Len(ts)
  BY TocParts
<1> HIDE DEF with, k, file
<1>5. ArchiveKept(with)
  BY <1>3, <1>4, EmptyTreeSound DEF ArchiveKept
<1>6. IsTree(with[k].tree) /\ Kept(with[k].tree) /\ TreeSorted(with[k].tree)
  BY <1>1, <1>3, <1>5, TocParts, KeptIsSorted DEF ArchiveKept
<1>7. Kept(w[k].tree)
  BY <1>1, <1>2, <1>6, InsertInTreeKeeps
<1> QED BY <1>1, <1>5, <1>7 DEF ArchiveKept

LEMMA TidyBurn == BuildSound /\ TidySound /\ Burn => TidySound'
<1> SUFFICES ASSUME BuildSound, TidySound, Burn PROVE TidySound'
  OBVIOUS
<1> DEFINE path  == Head(todo)
           bytes == Compiled[Assets[path]]
           alias == AliasFor(BurnerAt(stage).burner, path)
<1>1. /\ stage \in 5 .. 8 /\ stage \in 1 .. Built /\ todo # <<>> /\ project \in Projects
      /\ Remaining(stage, todo) /\ IsArchive(tocs) /\ ArchiveKept(tocs)
  BY DEF Burn, BuildSound, WalkSound, TreesSound, GoodTocs, TidySound, Failed, Built
<1>2. CASE Fail
  BY <1>1, <1>2 DEF Fail, TidySound, Failed, ArchiveKept
<1>3. CASE /\ bytes # Rejected
           /\ tocs' \in PlaceBurned(tocs, alias, BurnedPath(path), bytes)
           /\ stage' = stage
  <2>1. path \in Visited(stage)
    BY <1>1, TailRemains
  <2>2. path \in Seq(Names) \ {<<>>} /\ bytes \in Data /\ alias \in Aliases
    BY <1>1, <1>3, <2>1, BurnParts
  <2>3. BurnedPath(path) \in Seq(Names) \ {<<>>}
    BY <2>2, BurnedPathTyped
  <2> HIDE DEF path, bytes, alias
  <2>4. ArchiveKept(tocs')
    BY <1>1, <1>3, <2>2, <2>3, BurnedIsKept
  <2> QED BY <1>1, <1>3, <2>4 DEF TidySound, ArchiveKept
<1> QED BY <1>2, <1>3 DEF Burn

LEMMA TidyBurnTable == BuildSound /\ TidySound /\ BurnTable => TidySound'
<1> SUFFICES ASSUME BuildSound, TidySound, BurnTable PROVE TidySound'
  OBVIOUS
<1> DEFINE path  == Head(todo)
           alias == AliasFor("UCS", path)
<1>1. PICK table \in tables :
        \/ Fail
        \/ /\ Compiled[Assets[table]] # Rejected
           /\ tocs' \in PlaceBurned(tocs, alias, LocalePath[<<Last(path), Last(table)>>],
                                    Compiled[Assets[table]])
           /\ stage' = stage
  BY DEF BurnTable
<1>2. /\ stage = 8 /\ stage \in 1 .. Built /\ todo # <<>> /\ project \in Projects
      /\ Remaining(8, todo) /\ IsArchive(tocs) /\ ArchiveKept(tocs)
      /\ table \in TablesOf(path)
  BY <1>1 DEF BurnTable, BuildSound, WalkSound, TreesSound, GoodTocs, TidySound, Failed, Built
<1>3. CASE Fail
  BY <1>2, <1>3 DEF Fail, TidySound, Failed, ArchiveKept
<1>4. CASE ~ Fail
  <2> DEFINE bytes == Compiled[Assets[table]]
             rel   == LocalePath[<<Last(path), Last(table)>>]
  <2>1. path \in Visited(8) /\ BurnerAt(8).burner = "UCS"
    BY <1>2, TailRemains DEF BurnerAt, Burners
  <2>2. path \in DOMAIN Assets /\ alias \in Aliases
    BY <1>2, <2>1, BurnParts
  <2>3. rel \in Seq(Names) \ {<<>>} /\ bytes \in Data
    BY <1>1, <1>2, <1>4, <2>2, TableParts
  <2>4. tocs' \in PlaceBurned(tocs, alias, rel, bytes) /\ stage' = stage
    BY <1>1, <1>4
  <2> HIDE DEF path, alias, bytes, rel
  <2>5. ArchiveKept(tocs')
    BY <1>2, <2>2, <2>3, <2>4, BurnedIsKept
  <2> QED BY <1>2, <2>4, <2>5 DEF TidySound, ArchiveKept
<1> QED BY <1>3, <1>4

LEMMA TidyStep == BuildSound /\ (Tidy => TidySound) /\ [Next]_vars => (Tidy => TidySound)'
<1> SUFFICES ASSUME BuildSound, Tidy => TidySound, [Next]_vars, Tidy' PROVE TidySound'
  OBVIOUS
<1>1. project' = project
  BY DEF Next, vars, AddSource, ShareRoot, CloseToc, Burn, BurnTable, NextLocdb, NextBurner, Fail
<1>2. \A walk : PathsIn(walk)' = PathsIn(walk)
  BY <1>1 DEF PathsIn
<1>3. Tidy /\ TidySound
  BY <1>2 DEF Tidy
<1>4. CASE NextLocdb \/ NextBurner \/ UNCHANGED vars
  <2>1. root' = root /\ tocs' = tocs
    BY <1>4 DEF NextLocdb, NextBurner, vars
  <2>2. CASE stage \in 1 .. 4 /\ UNCHANGED vars
    <3>1. stage' = stage /\ todo' = todo /\ \A s : Visited(s)' = Visited(s)
      BY <1>1, <2>2, SameProject DEF vars
    <3> QED BY <1>3, <2>1, <3>1 DEF TidySound, ArchiveKept, FilesKept, FilledFrom, Done
  <2>3. CASE stage' \notin 1 .. 4
    BY <1>3, <2>1, <2>3 DEF TidySound, ArchiveKept
  <2>4. stage' \in 1 .. 4 => stage \in 1 .. 4 /\ UNCHANGED vars
    BY <1>4 DEF NextLocdb, NextBurner, IsBurnStage, GoTo, vars
  <2> QED BY <2>2, <2>3, <2>4
<1> QED BY <1>3, <1>4, TidyAddSource, TidyShareRoot, TidyCloseToc, TidyBurn, TidyBurnTable DEF Next

LEMMA TidyInit == Init => (Tidy => TidySound)
<1>1. FilesKept(EmptyTree) /\ \A paths : FilledFrom(EmptyTree, paths)
  BY EmptyTreeFiles DEF FilledFrom
<1>2. DOMAIN <<>> = {}
  OBVIOUS
<1> QED BY <1>1, <1>2 DEF Init, TidySound, ArchiveKept

(***************************************************************************)
(* Of a project whose names are lowercase and whose scripts share no       *)
(* folder with its prebuilt data files, every table of the archive is      *)
(* sorted and without doubles, although nothing sorts it: the walks push   *)
(* in order and the burners insert in place.                               *)
(***************************************************************************)
THEOREM TidyBuildsAreSearchable == Spec => []TidyBuildSearchable
<1>1. (Tidy => TidySound) => TidyBuildSearchable
  BY DEF TidySound, ArchiveKept, TidyBuildSearchable, Searchable
<1> QED BY <1>1, InitSound, BuildStepSound, TidyInit, TidyStep, PTL DEF Spec

-----------------------------------------------------------------------------
(***************************************************************************)
(* What a lookup answers, before and after a file is placed.               *)
(***************************************************************************)
TableAnswer(table, name) ==
  IF Position(table, name) = 0 THEN {} ELSE {table[Position(table, name)].data}

TreeAnswer(t, rel) == TableAnswer(FilesIn(t, Front(rel)), Last(rel))

TocsAnswer(ts, alias, rel) ==
  IF TocIndex(ts, alias) = 0 THEN {} ELSE TreeAnswer(ts[TocIndex(ts, alias)].tree, rel)

\* The name is at place k for the first time; it is nowhere.
FirstAt(table, name, k) ==
  /\ k \in 1 .. Len(table) /\ table[k].name = name
  /\ \A j \in 1 .. k - 1 : table[j].name # name

Nowhere(table, name) == \A j \in 1 .. Len(table) : table[j].name # name

LEMMA FirstAnswers ==
  ASSUME NEW table \in Seq(Files), NEW name, NEW k, FirstAt(table, name, k)
  PROVE  TableAnswer(table, name) = {table[k].data}
<1>1. /\ k \in 1 .. Len(table) /\ table[k].name = name /\ k # 0
      /\ \A j \in 1 .. k - 1 : table[j].name # name
  BY DEF FirstAt
<1>2. Position(table, name) = k
  BY <1>1, PositionIsFirst
<1> QED BY <1>1, <1>2 DEF TableAnswer

LEMMA NowhereAnswers ==
  ASSUME NEW table \in Seq(Files), NEW name, Nowhere(table, name)
  PROVE  TableAnswer(table, name) = {}
<1>1. Position(table, name) = 0
  <2> SUFFICES ASSUME Position(table, name) # 0 PROVE FALSE
    OBVIOUS
  <2>1. Position(table, name) \in 0 .. Len(table)
    BY PositionFound
  <2>2. table[Position(table, name)].name = name
    BY PositionFound
  <2>3. Position(table, name) \in 1 .. Len(table)
    BY <2>1
  <2> QED BY <2>2, <2>3 DEF Nowhere
<1> QED BY <1>1 DEF TableAnswer

LEMMA FirstOrNowhere ==
  ASSUME NEW table \in Seq(Files), NEW name
  PROVE  Nowhere(table, name) \/ \E k : FirstAt(table, name, k)
<1> DEFINE k == Position(table, name)
<1>1. k \in 0 .. Len(table)
  BY PositionFound
<1>2. CASE k = 0
  <2>1. \A j \in 1 .. Len(table) : table[j].name # name
    BY <1>2, PositionFound
  <2> QED BY <2>1 DEF Nowhere
<1>3. CASE k # 0
  <2>1. table[k].name = name
    BY <1>3, PositionFound
  <2>2. \A j \in 1 .. k - 1 : table[j].name # name
    BY <1>3, PositionIsFirst
  <2>3. k \in 1 .. Len(table)
    BY <1>1, <1>3
  <2>4. FirstAt(table, name, k)
    BY <2>1, <2>2, <2>3 DEF FirstAt
  <2> QED BY <2>4
<1> QED BY <1>2, <1>3

LEMMA EmptyAnswers == \A name : TableAnswer(<<>>, name) = {}
<1> SUFFICES ASSUME NEW name PROVE TableAnswer(<<>>, name) = {}
  OBVIOUS
<1>1. <<>> \in Seq(Files) /\ Nowhere(<<>>, name)
  BY DEF Nowhere
<1> QED BY <1>1, NowhereAnswers

\* A file pushed at the end is found if no other of its name is there.
LEMMA AppendAnswers ==
  ASSUME NEW table \in Seq(Files), NEW file \in Files, NEW name
  PROVE  TableAnswer(Append(table, file), name)
           = IF TableAnswer(table, name) # {} \/ name # file.name
             THEN TableAnswer(table, name) ELSE {file.data}
<1> DEFINE r == Append(table, file)
<1>1. /\ r \in Seq(Files) /\ Len(r) = Len(table) + 1 /\ Len(table) \in Nat
      /\ \A j \in 1 .. Len(table) : r[j] = table[j]
      /\ r[Len(table) + 1] = file
  OBVIOUS
<1> HIDE DEF r
<1>2. CASE \E k : FirstAt(table, name, k)
  <2>1. PICK k : FirstAt(table, name, k)
    BY <1>2
  <2>2. FirstAt(r, name, k) /\ r[k] = table[k]
    BY <1>1, <2>1 DEF FirstAt
  <2>3. TableAnswer(table, name) = {table[k].data}
    BY <2>1, FirstAnswers
  <2>4. TableAnswer(r, name) = {r[k].data}
    BY <1>1, <2>2, FirstAnswers
  <2> QED BY <2>2, <2>3, <2>4 DEF r
<1>3. CASE Nowhere(table, name)
  <2>1. TableAnswer(table, name) = {}
    BY <1>3, NowhereAnswers
  <2>2. CASE name = file.name
    <3>1. FirstAt(r, name, Len(table) + 1)
      BY <1>1, <1>3, <2>2 DEF FirstAt, Nowhere
    <3>2. TableAnswer(r, name) = {r[Len(table) + 1].data}
      BY <1>1, <3>1, FirstAnswers
    <3> QED BY <1>1, <2>1, <2>2, <3>2 DEF r
  <2>3. CASE name # file.name
    <3>1. Nowhere(r, name)
      BY <1>1, <1>3, <2>3 DEF Nowhere
    <3>2. TableAnswer(r, name) = {}
      BY <1>1, <3>1, NowhereAnswers
    <3> QED BY <2>1, <2>3, <3>2 DEF r
  <2> QED BY <2>2, <2>3
<1> QED BY <1>2, <1>3, FirstOrNowhere

\* One table with an entry in place of another.
Replaced(table, r, i, entry) ==
  /\ i \in 1 .. Len(table) /\ table[i].name = entry.name
  /\ Len(r) = Len(table) /\ r[i] = entry
  /\ \A j \in 1 .. Len(table) : j # i => r[j] = table[j]

LEMMA InsertOrReplaceForms ==
  ASSUME NEW table \in Seq(Files), NEW entry \in Files, NEW r \in InsertOrReplace(table, entry)
  PROVE  /\ r \in Seq(Files)
         /\ \/ FirstAt(table, entry.name, Position(table, entry.name))
               /\ Replaced(table, r, Position(table, entry.name), entry)
            \/ Nowhere(table, entry.name) /\ \E i : Inserted(table, r, i, entry)
<1> DEFINE i == Position(table, entry.name)
<1>1. i \in 0 .. Len(table)
  BY PositionFound
<1>2. CASE i # 0
  <2>1. r = [table EXCEPT ![i] = entry]
    BY <1>2 DEF InsertOrReplace
  <2>2. table[i].name = entry.name
    BY <1>2, PositionFound
  <2>3. \A j \in 1 .. i - 1 : table[j].name # entry.name
    BY <1>2, PositionIsFirst
  <2>4. FirstAt(table, entry.name, i)
    BY <1>1, <1>2, <2>2, <2>3 DEF FirstAt
  <2> HIDE DEF i
  <2>5. r \in Seq(Files) /\ Replaced(table, r, i, entry)
    BY <1>1, <1>2, <2>1, <2>2 DEF Replaced
  <2> QED BY <2>4, <2>5 DEF i
<1>3. CASE i = 0
  <2>1. PICK at \in PartitionPoints(table, entry.name.key) : r = InsertAt(table, at + 1, entry)
    BY <1>3 DEF InsertOrReplace
  <2>2. at + 1 \in 1 .. Len(table) + 1
    BY DEF PartitionPoints, Splits
  <2>3. \A j \in 1 .. Len(table) : table[j].name # entry.name
    BY <1>3, PositionFound
  <2> DEFINE n == at + 1
  <2>4. r = InsertAt(table, n, entry) /\ n \in 1 .. Len(table) + 1
    BY <2>1, <2>2
  <2> HIDE DEF n, i
  <2>5. InsertAt(table, n, entry) \in Seq(Files)
    BY <2>4, InsertedThere
  <2>8. Inserted(table, r, n, entry)
    BY <2>4, InsertedThere
  <2>9. Nowhere(table, entry.name)
    BY <2>3 DEF Nowhere
  <2> QED BY <2>4, <2>5, <2>8, <2>9
<1> QED BY <1>2, <1>3

\* An inserted file is found, and the others as they were.
LEMMA InsertAnswers ==
  ASSUME NEW table \in Seq(Files), NEW entry \in Files, NEW r \in InsertOrReplace(table, entry),
         NEW name
  PROVE  TableAnswer(r, name)
           = IF name = entry.name THEN {entry.data} ELSE TableAnswer(table, name)
<1>1. r \in Seq(Files) /\ Len(table) \in Nat
  BY InsertOrReplaceForms
<1>2. CASE \E i : FirstAt(table, entry.name, i) /\ Replaced(table, r, i, entry)
  <2>1. PICK i : FirstAt(table, entry.name, i) /\ Replaced(table, r, i, entry)
    BY <1>2
  <2>2. Len(r) = Len(table) /\ r[i] = entry /\ \A j \in 1 .. Len(table) : r[j].name = table[j].name
    BY <2>1 DEF Replaced
  <2>3. \A k : FirstAt(table, name, k) => FirstAt(r, name, k)
    BY <2>2 DEF FirstAt
  <2>4. CASE name = entry.name
    <3>1. TableAnswer(r, name) = {r[i].data}
      BY <1>1, <2>1, <2>3, <2>4, FirstAnswers
    <3> QED BY <2>2, <2>4, <3>1
  <2>5. CASE name # entry.name /\ \E k : FirstAt(table, name, k)
    <3>1. PICK k : FirstAt(table, name, k)
      BY <2>5
    <3>2. r[k] = table[k]
      BY <2>1, <2>5, <3>1 DEF FirstAt, Replaced
    <3>3. TableAnswer(table, name) = {table[k].data}
      BY <3>1, FirstAnswers
    <3>4. TableAnswer(r, name) = {r[k].data}
      BY <1>1, <2>3, <3>1, FirstAnswers
    <3> QED BY <2>5, <3>2, <3>3, <3>4
  <2>6. CASE name # entry.name /\ Nowhere(table, name)
    <3>1. Nowhere(r, name)
      BY <2>2, <2>6 DEF Nowhere
    <3>2. TableAnswer(r, name) = {}
      BY <1>1, <3>1, NowhereAnswers
    <3>3. TableAnswer(table, name) = {}
      BY <2>6, NowhereAnswers
    <3> QED BY <2>6, <3>2, <3>3
  <2> QED BY <2>4, <2>5, <2>6, FirstOrNowhere
<1>3. CASE Nowhere(table, entry.name) /\ \E i : Inserted(table, r, i, entry)
  <2>1. PICK i : Inserted(table, r, i, entry)
    BY <1>3
  <2>2. /\ i \in 1 .. Len(table) + 1 /\ Len(r) = Len(table) + 1 /\ r[i] = entry
        /\ \A j \in 1 .. Len(table) : j < i => r[j] = table[j]
        /\ \A j \in 1 .. Len(table) : j >= i => r[j + 1] = table[j]
    BY <1>1, <2>1 DEF Inserted
  <2>3. \A j \in 1 .. Len(r) : \/ j < i /\ j \in 1 .. Len(table) /\ r[j] = table[j]
                               \/ j = i
                               \/ j > i /\ j - 1 \in 1 .. Len(table) /\ r[j] = table[j - 1]
    BY <1>1, <2>1, <2>2 DEF Inserted
  <2>4. CASE name = entry.name
    <3>1. FirstAt(r, name, i)
      BY <1>1, <1>3, <2>2, <2>4 DEF FirstAt, Nowhere
    <3>2. TableAnswer(r, name) = {r[i].data}
      BY <1>1, <3>1, FirstAnswers
    <3> QED BY <2>2, <2>4, <3>2
  <2>5. CASE name # entry.name /\ \E k : FirstAt(table, name, k)
    <3>1. PICK k : FirstAt(table, name, k)
      BY <2>5
    <3>2. k \in 1 .. Len(table) /\ table[k].name = name /\ \A j \in 1 .. k - 1 : table[j].name # name
      BY <3>1 DEF FirstAt
    <3>3. TableAnswer(table, name) = {table[k].data}
      BY <3>1, FirstAnswers
    <3>4. CASE k < i
      <4>1. FirstAt(r, name, k) /\ r[k] = table[k]
        BY <1>1, <2>2, <3>2, <3>4 DEF FirstAt
      <4>2. TableAnswer(r, name) = {r[k].data}
        BY <1>1, <4>1, FirstAnswers
      <4> QED BY <2>5, <3>3, <4>1, <4>2
    <3>5. CASE k >= i
      <4>1. k + 1 \in 1 .. Len(r) /\ r[k + 1] = table[k]
        BY <1>1, <2>2, <3>2, <3>5
      <4>2. ASSUME NEW j \in 1 .. k PROVE r[j].name # name
        <5>1. j \in 1 .. Len(r) /\ (j < k => j \in 1 .. k - 1) /\ (j > 1 => j - 1 \in 1 .. k - 1)
          BY <1>1, <2>2, <3>2
        <5>2. CASE j < i
          <6>1. r[j] = table[j] /\ j \in 1 .. k - 1
            BY <1>1, <2>2, <2>3, <3>2, <3>5, <5>1, <5>2
          <6> QED BY <3>2, <6>1
        <5>3. CASE j = i
          BY <2>2, <2>5, <5>3
        <5>4. CASE j > i
          <6>1. r[j] = table[j - 1] /\ j - 1 \in 1 .. k - 1
            BY <2>2, <2>3, <5>1, <5>4
          <6> QED BY <3>2, <6>1
        <5> QED BY <2>2, <5>2, <5>3, <5>4
      <4>3. FirstAt(r, name, k + 1)
        BY <3>2, <4>1, <4>2 DEF FirstAt
      <4>4. TableAnswer(r, name) = {r[k + 1].data}
        BY <1>1, <4>3, FirstAnswers
      <4> QED BY <2>5, <3>3, <4>1, <4>4
    <3> QED BY <2>2, <3>2, <3>4, <3>5
  <2>6. CASE name # entry.name /\ Nowhere(table, name)
    <3>1. Nowhere(r, name)
      BY <2>2, <2>3, <2>6 DEF Nowhere
    <3>2. TableAnswer(r, name) = {}
      BY <1>1, <3>1, NowhereAnswers
    <3>3. TableAnswer(table, name) = {}
      BY <2>6, NowhereAnswers
    <3> QED BY <2>6, <3>2, <3>3
  <2> QED BY <2>4, <2>5, <2>6, FirstOrNowhere
<1> QED BY <1>2, <1>3, InsertOrReplaceForms

\* What pushing and inserting a file make of the answers of a tree.
LEMMA PushAnswers ==
  ASSUME NEW t, IsTree(t), NEW rel \in Seq(Names) \ {<<>>}, NEW file \in Files,
         file.name = Last(rel), NEW w \in PushInTree(t, rel, file),
         NEW other \in Seq(Names) \ {<<>>}
  PROVE  TreeAnswer(w, other)
           = IF TreeAnswer(t, other) # {} \/ other # LowerPath(rel)
             THEN TreeAnswer(t, other) ELSE {file.data}
<1> DEFINE dirs    == Dirs(rel)
           lowered == [file EXCEPT !.name = Lower(@)]
           old     == FilesIn(t, dirs)
<1>1. old \in Seq(Files) /\ TreeWith(t, w, dirs, Append(old, lowered))
  BY PushPlaces
<1>2. lowered \in Files /\ lowered.name = Lower(Last(rel)) /\ lowered.data = file.data
  BY LoweredFile
<1>3. other = LowerPath(rel) <=> Front(other) = dirs /\ Last(other) = Lower(Last(rel))
  BY LoweredPathIs
<1> HIDE DEF dirs, lowered, old
<1>4. FilesIn(w, Front(other)) = IF Front(other) = dirs THEN Append(old, lowered)
                                 ELSE FilesIn(t, Front(other))
  BY <1>1 DEF TreeWith
<1>5. CASE Front(other) = dirs
  <2>1. TableAnswer(Append(old, lowered), Last(other))
          = IF TableAnswer(old, Last(other)) # {} \/ Last(other) # lowered.name
            THEN TableAnswer(old, Last(other)) ELSE {lowered.data}
    BY <1>1, <1>2, AppendAnswers
  <2>2. TreeAnswer(t, other) = TableAnswer(old, Last(other))
    BY <1>5 DEF TreeAnswer, old
  <2>3. TreeAnswer(w, other) = TableAnswer(Append(old, lowered), Last(other))
    BY <1>4, <1>5 DEF TreeAnswer
  <2> QED BY <1>2, <1>3, <1>5, <2>1, <2>2, <2>3
<1>6. CASE Front(other) # dirs
  BY <1>3, <1>4, <1>6 DEF TreeAnswer
<1> QED BY <1>5, <1>6

LEMMA InsertTreeAnswers ==
  ASSUME NEW t, IsTree(t), NEW rel \in Seq(Names) \ {<<>>}, NEW file \in Files,
         file.name = Last(rel), NEW w \in InsertInTree(t, rel, file),
         NEW other \in Seq(Names) \ {<<>>}
  PROVE  TreeAnswer(w, other)
           = IF other = LowerPath(rel) THEN {file.data} ELSE TreeAnswer(t, other)
<1> DEFINE dirs    == Dirs(rel)
           lowered == [file EXCEPT !.name = Lower(@)]
           old     == FilesIn(t, dirs)
<1>1. old \in Seq(Files)
  BY InsertPlaces
<1>2. lowered \in Files /\ lowered.name = Lower(Last(rel)) /\ lowered.data = file.data
  BY LoweredFile
<1>3. other = LowerPath(rel) <=> Front(other) = dirs /\ Last(other) = Lower(Last(rel))
  BY LoweredPathIs
<1>4. PICK table \in InsertOrReplace(old, lowered) : TreeWith(t, w, dirs, table)
  BY InsertPlaces
<1> HIDE DEF dirs, lowered, old
<1>5. FilesIn(w, Front(other)) = IF Front(other) = dirs THEN table
                                 ELSE FilesIn(t, Front(other))
  BY <1>4 DEF TreeWith
<1>6. CASE Front(other) = dirs
  <2>1. TableAnswer(table, Last(other))
          = IF Last(other) = lowered.name THEN {lowered.data} ELSE TableAnswer(old, Last(other))
    BY <1>1, <1>2, <1>4, InsertAnswers
  <2>2. TreeAnswer(t, other) = TableAnswer(old, Last(other))
    BY <1>6 DEF TreeAnswer, old
  <2>3. TreeAnswer(w, other) = TableAnswer(table, Last(other))
    BY <1>5, <1>6 DEF TreeAnswer
  <2> QED BY <1>2, <1>3, <1>6, <2>1, <2>2, <2>3
<1>7. CASE Front(other) # dirs
  BY <1>3, <1>5, <1>7 DEF TreeAnswer
<1> QED BY <1>6, <1>7

LEMMA EmptyTreeAnswers == \A rel : TreeAnswer(EmptyTree, rel) = {}
BY EmptyTreeFiles, EmptyAnswers DEF TreeAnswer

\* What the archive answers of a TOC, and of none.
LEMMA TocAnswers ==
  ASSUME NEW ts, IsArchive(ts), \A i, j \in DOMAIN ts : ts[i].alias = ts[j].alias => i = j,
         NEW rel
  PROVE  /\ \A i \in DOMAIN ts : TocsAnswer(ts, ts[i].alias, rel) = TreeAnswer(ts[i].tree, rel)
         /\ \A alias : (\A i \in DOMAIN ts : ts[i].alias # alias) => TocsAnswer(ts, alias, rel) = {}
<1>1. ts \in Seq(Range(ts)) /\ DOMAIN ts = 1 .. Len(ts)
  BY TocParts
<1>2. ASSUME NEW i \in DOMAIN ts
      PROVE  TocsAnswer(ts, ts[i].alias, rel) = TreeAnswer(ts[i].tree, rel)
  <2> DEFINE k == TocIndex(ts, ts[i].alias)
  <2>1. k # 0
    BY <1>1, TocIndexFound
  <2>2. k \in 1 .. Len(ts) /\ ts[k].alias = ts[i].alias
    BY <1>1, <2>1, TocIndexNames
  <2>3. k = i
    <3> HIDE DEF k
    <3> QED BY <1>1, <2>2
  <2> QED BY <2>1, <2>3 DEF TocsAnswer
<1>3. ASSUME NEW alias, \A i \in DOMAIN ts : ts[i].alias # alias
      PROVE  TocsAnswer(ts, alias, rel) = {}
  <2>1. TocIndex(ts, alias) = 0
    <3> SUFFICES ASSUME TocIndex(ts, alias) # 0 PROVE FALSE
      OBVIOUS
    <3>1. TocIndex(ts, alias) \in 1 .. Len(ts) /\ ts[TocIndex(ts, alias)].alias = alias
      BY <1>1, TocIndexNames
    <3> QED BY <1>1, <1>3, <3>1
  <2> QED BY <2>1 DEF TocsAnswer
<1> QED BY <1>2, <1>3

LEMMA BurnAnswers ==
  ASSUME NEW ts, GoodTocs(ts), NEW alias \in Aliases, NEW rel \in Seq(Names) \ {<<>>},
         NEW d \in Data, NEW w \in PlaceBurned(ts, alias, rel, d),
         NEW a, NEW other \in Seq(Names) \ {<<>>}
  PROVE  TocsAnswer(w, a, other)
           = IF a = alias /\ other = LowerPath(rel) THEN {d} ELSE TocsAnswer(ts, a, other)
<1> DEFINE with == GetOrCreateToc(ts, alias)
           k    == TocIndex(with, alias)
           file == StoredFile(Last(rel), d)
<1>1. /\ IsArchive(ts) /\ file \in Files /\ file.name = Last(rel) /\ file.data = d
      /\ \A i, j \in DOMAIN ts : ts[i].alias = ts[j].alias => i = j
      /\ DOMAIN ts = 1 .. Len(ts)
  BY LastIsName, StoredFileTyped, TocParts DEF GoodTocs, StoredFile
<1>2. /\ k \in DOMAIN with /\ DOMAIN w = DOMAIN with
      /\ \A j \in DOMAIN with : w[j].alias = with[j].alias
      /\ \A j \in DOMAIN with : j # k => w[j].tree = with[j].tree
      /\ w[k].tree \in InsertInTree(with[k].tree, rel, file)
  BY <1>1, PlacedInToc
<1>3. /\ IsArchive(with)
      /\ 1 .. Len(ts) \subseteq DOMAIN with
      /\ \A i \in 1 .. Len(ts) : with[i] = ts[i]
      /\ \A i \in DOMAIN with \ 1 .. Len(ts) :
           with[i] = [alias |-> alias, tree |-> EmptyTree] /\ k = i
      /\ with[k].alias = alias
  BY <1>1, TocObtained
<1>4. IsArchive(w) /\ \A i, j \in DOMAIN w : w[i].alias = w[j].alias => i = j
  BY BurnedIsGood DEF GoodTocs
<1> HIDE DEF with, k, file
<1>5. w[k].alias = alias
  BY <1>2, <1>3
<1>6. CASE a = alias
  <2>1. TocsAnswer(w, a, other) = TreeAnswer(w[k].tree, other)
    BY <1>2, <1>4, <1>5, <1>6, TocAnswers
  <2>2. IsTree(with[k].tree)
    BY <1>2, <1>3, TocParts
  <2>3. TreeAnswer(w[k].tree, other)
          = IF other = LowerPath(rel) THEN {d} ELSE TreeAnswer(with[k].tree, other)
    <3> DEFINE u == w[k].tree
               v == with[k].tree
    <3>1. IsTree(v) /\ u \in InsertInTree(v, rel, file)
      BY <1>2, <2>2
    <3> HIDE DEF u, v
    <3>2. TreeAnswer(u, other) = IF other = LowerPath(rel) THEN {file.data} ELSE TreeAnswer(v, other)
      BY <1>1, <3>1, InsertTreeAnswers
    <3> QED BY <1>1, <3>2 DEF u, v
  <2>4. TreeAnswer(with[k].tree, other) = TocsAnswer(ts, a, other)
    <3>1. CASE k \in 1 .. Len(ts)
      <4>1. with[k] = ts[k] /\ k \in DOMAIN ts /\ ts[k].alias = a
        BY <1>1, <1>3, <1>6, <3>1
      <4>2. TocsAnswer(ts, ts[k].alias, other) = TreeAnswer(ts[k].tree, other)
        BY <1>1, <4>1, TocAnswers
      <4> QED BY <4>1, <4>2
    <3>2. CASE k \notin 1 .. Len(ts)
      <4>1. with[k].tree = EmptyTree
        BY <1>2, <1>3, <3>2
      <4>2. \A i \in DOMAIN ts : ts[i].alias # a
        <5> SUFFICES ASSUME NEW i \in DOMAIN ts, ts[i].alias = a PROVE FALSE
          OBVIOUS
        <5>1. i \in DOMAIN w /\ w[i].alias = w[k].alias /\ k \in DOMAIN w
          BY <1>1, <1>2, <1>3, <1>5, <1>6
        <5>2. i = k
          BY <1>4, <5>1
        <5> QED BY <1>1, <3>2, <5>2
      <4>3. TocsAnswer(ts, a, other) = {}
        BY <1>1, <4>2, TocAnswers
      <4> QED BY <4>1, <4>3, EmptyTreeAnswers
    <3> QED BY <3>1, <3>2
  <2> QED BY <1>6, <2>1, <2>3, <2>4
<1>7. CASE a # alias
  <2>1. CASE \E i \in DOMAIN ts : ts[i].alias = a
    <3>1. PICK i \in DOMAIN ts : ts[i].alias = a
      BY <2>1
    <3>2. i \in DOMAIN w /\ i # k /\ w[i].alias = a /\ w[i].tree = ts[i].tree
      BY <1>1, <1>2, <1>3, <1>7, <3>1
    <3>3. TocsAnswer(w, a, other) = TreeAnswer(w[i].tree, other)
      BY <1>4, <3>2, TocAnswers
    <3>4. TocsAnswer(ts, a, other) = TreeAnswer(ts[i].tree, other)
      BY <1>1, <3>1, TocAnswers
    <3> QED BY <1>7, <3>2, <3>3, <3>4
  <2>2. CASE \A i \in DOMAIN ts : ts[i].alias # a
    <3>1. \A i \in DOMAIN w : w[i].alias # a
      BY <1>1, <1>2, <1>3, <1>7, <2>2
    <3>2. TocsAnswer(w, a, other) = {}
      BY <1>4, <3>1, TocAnswers
    <3>3. TocsAnswer(ts, a, other) = {}
      BY <1>1, <2>2, TocAnswers
    <3> QED BY <1>7, <3>2, <3>3
  <2> QED BY <2>1, <2>2
<1> QED BY <1>6, <1>7

-----------------------------------------------------------------------------
(***************************************************************************)
(* What has been pushed and burned so far, and what of it a lookup must    *)
(* answer: the last that was burned, or else the first that was pushed.    *)
(***************************************************************************)
PushOf(s, path) ==
  [alias |-> SourceWalks[s].alias, rel |-> LowerPath(path), path |-> path, walk |-> s]

BurnOf(s, path, table) ==
  [alias |-> AliasFor(BurnerAt(s).burner, path), path |-> path, table |-> table, walk |-> s,
   rel |-> LowerPath(IF s = 8 THEN LocalePath[<<Last(path), Last(table)>>] ELSE BurnedPath(path))]

Pushed(s, list) ==
  {p \in Pushes : p.walk < s \/ (p.walk = s /\ p.path \notin Range(list))}

Burned(s, list, left) ==
  {b \in Burns :
     \/ b.walk < s
     \/ b.walk = s /\ b.path \notin Range(list)
     \/ b.walk = s /\ s = 8 /\ list # <<>> /\ b.path = Head(list) /\ b.table \notin left}

Current(s, t, ts, alias, rel) ==
  IF s \in 1 .. 4 /\ alias = SourceWalks[s].alias
  THEN TreeAnswer(t, rel) ELSE TocsAnswer(ts, alias, rel)

Chosen(pushed, burned, alias, rel, answer) ==
  LET pushes == {p \in pushed : p.alias = alias /\ p.rel = rel}
      burns  == {b \in burned : b.alias = alias /\ b.rel = rel}
  IN  IF burns # {}
      THEN \E b \in burns : answer = {BurnedData(b)} /\ \A c \in burns : ~ BurnedBefore(b, c)
      ELSE IF pushes # {}
      THEN \E p \in pushes : answer = {PushedData(p)} /\ \A q \in pushes : ~ PushedBefore(q, p)
      ELSE answer = {}

Paths == Seq(Names) \ {<<>>}

AnswersSound ==
  stage # Failed =>
    \A alias : \A rel \in Paths :
      Chosen(Pushed(stage, todo), Burned(stage, todo, tables), alias, rel,
             Current(stage, root, tocs, alias, rel))

LEMMA PushParts ==
  /\ \A p \in Pushes : p.walk \in 1 .. 4 /\ p.path \in Visited(p.walk) /\ p = PushOf(p.walk, p.path)
  /\ \A s \in 1 .. 4 : \A path \in Visited(s) : PushOf(s, path) \in Pushes
<1>1. \A s \in 1 .. 4 : PushedBy(s) = {PushOf(s, path) : path \in Visited(s)}
  BY DEF PushedBy, PushOf, Visited
<1>2. \A s, path : PushOf(s, path).walk = s /\ PushOf(s, path).path = path
  BY DEF PushOf
<1> QED BY <1>1, <1>2 DEF Pushes

LEMMA BurntParts ==
  /\ \A b \in Burns : /\ b.walk \in 5 .. 8 /\ b.path \in Visited(b.walk)
                      /\ b = BurnOf(b.walk, b.path, b.table)
                      /\ IF b.walk = 8 THEN b.table \in TablesOf(b.path) ELSE b.table = b.path
  /\ \A s \in 5 .. 7 : \A path \in Visited(s) : BurnOf(s, path, path) \in Burns
  /\ \A path \in Visited(8) : \A table \in TablesOf(path) : BurnOf(8, path, table) \in Burns
<1>1. \A s, path, table : /\ BurnOf(s, path, table).walk = s /\ BurnOf(s, path, table).path = path
                          /\ BurnOf(s, path, table).table = table
  BY DEF BurnOf
<1>2. \A s \in 5 .. 8 : Visited(s) = Selected(BurnerAt(s))
  BY DEF Visited, IsBurnStage
<1>3. BurnerAt(8).burner = "UCS"
  BY DEF BurnerAt, Burners
<1>4. ASSUME NEW s \in 5 .. 7 PROVE BurnedBy(s) = {BurnOf(s, path, path) : path \in Visited(s)}
  <2> DEFINE record(p) ==
               [alias |-> AliasFor(BurnerAt(s).burner, p), path |-> p, table |-> p, walk |-> s,
                rel |-> LowerPath(BurnedPath(p))]
  <2>1. s # 8 /\ s \in 5 .. 8
    OBVIOUS
  <2>2. \A p : BurnOf(s, p, p) = record(p)
    BY <2>1 DEF BurnOf
  <2>3. BurnedBy(s) = {record(p) : p \in Visited(s)}
    BY <1>2, <2>1 DEF BurnedBy
  <2> HIDE DEF record
  <2> QED BY <2>2, <2>3
<1>5. BurnedBy(8) = UNION {{BurnOf(8, path, table) : table \in TablesOf(path)} : path \in Visited(8)}
  BY <1>2, <1>3 DEF BurnedBy, BurnOf
<1>6. ASSUME NEW b \in Burns
      PROVE  /\ b.walk \in 5 .. 8 /\ b.path \in Visited(b.walk)
             /\ b = BurnOf(b.walk, b.path, b.table)
             /\ IF b.walk = 8 THEN b.table \in TablesOf(b.path) ELSE b.table = b.path
  <2>1. PICK s \in 5 .. 8 : b \in BurnedBy(s)
    BY DEF Burns
  <2>2. CASE s = 8
    <3>1. PICK path \in Visited(8) : \E table \in TablesOf(path) : b = BurnOf(8, path, table)
      BY <1>5, <2>1, <2>2
    <3> QED BY <1>1, <3>1
  <2>3. CASE s # 8
    <3>1. s \in 5 .. 7
      BY <2>3
    <3>2. PICK path \in Visited(s) : b = BurnOf(s, path, path)
      BY <1>4, <2>1, <3>1
    <3> QED BY <1>1, <3>1, <3>2
  <2> QED BY <2>2, <2>3
<1>7. \A s \in 5 .. 7 : \A path \in Visited(s) : BurnOf(s, path, path) \in Burns
  BY <1>4 DEF Burns
<1>8. \A path \in Visited(8) : \A table \in TablesOf(path) : BurnOf(8, path, table) \in Burns
  BY <1>5 DEF Burns
<1> QED BY <1>6, <1>7, <1>8

\* Neither of the orders goes round.
LEMMA NotBothBefore ==
  ASSUME project \in Projects, NEW s \in 1 .. Built, NEW p \in Visited(s), NEW q \in Visited(s),
         WalkBefore(s, p, q)
  PROVE  ~ WalkBefore(s, q, p)
<1> DEFINE K == Visited(s)
           R == IF s \in 1 .. 4 THEN SourcePairs(K) ELSE BurnPairs(K)
<1>1. Apart(K)
  BY VisitedParts
<1>2. \A x, y \in K : WalkBefore(s, x, y) <=> <<x, y>> \in R
  BY DEF WalkBefore, SourcePairs, BurnPairs
<1> HIDE DEF K
<1>3. StrictOrder(K, R)
  BY <1>1, WalkOrders
<1> HIDE DEF R
<1>4. p \in K /\ q \in K
  BY DEF K
<1> QED BY <1>2, <1>3, <1>4 DEF StrictOrder

\* What the walk comes to next was not pushed, or burned, before anything yet.
LEMMA NextPushIsLast ==
  ASSUME project \in Projects, NEW s \in 1 .. 4, NEW list, Remaining(s, list), list # <<>>
  PROVE  \A q \in Pushed(s, list) \cup {PushOf(s, Head(list))} :
           ~ PushedBefore(PushOf(s, Head(list)), q)
<1> DEFINE h == Head(list)
           p == PushOf(s, h)
<1>1. h \in Visited(s) /\ h = list[1] /\ 1 \in 1 .. Len(list)
  BY TailRemains DEF Remaining
<1>2. p.walk = s /\ p.path = h /\ s \in 1 .. Built
  BY DEF PushOf, Built
<1> HIDE DEF h, p
<1>3. ~ PushedBefore(p, p)
  BY <1>2 DEF PushedBefore, SourceOrder
<1>4. ASSUME NEW q \in Pushed(s, list) PROVE ~ PushedBefore(p, q)
  <2>1. q.walk \in 1 .. 4 /\ q.path \in Visited(q.walk)
    BY PushParts DEF Pushed
  <2>2. CASE q.walk < s
    BY <1>2, <2>1, <2>2 DEF PushedBefore
  <2>3. CASE ~ q.walk < s
    <3>1. q.walk = s /\ q.path \in Visited(s) \ Range(list)
      BY <2>1, <2>3 DEF Pushed
    <3>2. WalkBefore(s, q.path, h)
      BY <1>1, <3>1 DEF Remaining
    <3>3. ~ WalkBefore(s, h, q.path)
      BY <1>1, <1>2, <3>1, <3>2, NotBothBefore
    <3> QED BY <1>2, <3>1, <3>3 DEF PushedBefore, WalkBefore
  <2> QED BY <2>2, <2>3
<1> QED BY <1>3, <1>4 DEF h, p

LEMMA NextBurnIsLast ==
  ASSUME project \in Projects, NEW s \in 5 .. 8, NEW list, Remaining(s, list), list # <<>>,
         NEW left, NEW table
  PROVE  \A c \in Burned(s, list, left) \cup {BurnOf(s, Head(list), table)} :
           ~ BurnedBefore(BurnOf(s, Head(list), table), c)
<1> DEFINE h == Head(list)
           b == BurnOf(s, h, table)
<1>1. h \in Visited(s) /\ h = list[1] /\ 1 \in 1 .. Len(list)
  BY TailRemains DEF Remaining
<1>2. b.walk = s /\ b.path = h /\ s \in 1 .. Built /\ s \notin 1 .. 4
  BY DEF BurnOf, Built
<1> HIDE DEF h, b
<1>3. \A c : c.walk = s /\ c.path = h => ~ BurnedBefore(b, c)
  BY <1>2 DEF BurnedBefore, BurnOrder
<1>4. ASSUME NEW c \in Burned(s, list, left) PROVE ~ BurnedBefore(b, c)
  <2>1. c.walk \in 5 .. 8 /\ c.path \in Visited(c.walk)
    BY BurntParts DEF Burned
  <2>2. CASE c.walk < s
    BY <1>2, <2>1, <2>2 DEF BurnedBefore
  <2>3. CASE ~ c.walk < s /\ c.path # h
    <3>1. c.walk = s /\ c.path \in Visited(s) \ Range(list)
      BY <2>1, <2>3 DEF Burned, h
    <3>2. WalkBefore(s, c.path, h)
      BY <1>1, <3>1 DEF Remaining
    <3>3. ~ WalkBefore(s, h, c.path)
      BY <1>1, <1>2, <3>1, <3>2, NotBothBefore
    <3> QED BY <1>2, <3>1, <3>3 DEF BurnedBefore, WalkBefore
  <2>4. CASE ~ c.walk < s /\ c.path = h
    <3>1. c.walk = s
      BY <2>1, <2>4 DEF Burned
    <3> QED BY <1>3, <2>4, <3>1
  <2> QED BY <2>2, <2>3, <2>4
<1> QED BY <1>2, <1>3, <1>4 DEF h, b

\* What one more of them changes.
LEMMA ChosenWithPush ==
  ASSUME NEW pushed, NEW burned, NEW p, NEW alias, NEW rel, NEW answer,
         Chosen(pushed, burned, alias, rel, answer),
         \A q \in pushed \cup {p} : ~ PushedBefore(p, q)
  PROVE  Chosen(pushed \cup {p}, burned, alias, rel,
                IF answer # {} \/ ~ (alias = p.alias /\ rel = p.rel)
                THEN answer ELSE {PushedData(p)})
<1> DEFINE pushes == {q \in pushed : q.alias = alias /\ q.rel = rel}
           burns  == {b \in burned : b.alias = alias /\ b.rel = rel}
           more   == {q \in pushed \cup {p} : q.alias = alias /\ q.rel = rel}
           new    == IF answer # {} \/ ~ (alias = p.alias /\ rel = p.rel)
                     THEN answer ELSE {PushedData(p)}
<1>1. CASE burns # {}
  <2>1. answer # {}
    BY <1>1 DEF Chosen
  <2> QED BY <1>1, <2>1 DEF Chosen
<1>2. CASE burns = {} /\ pushes # {}
  <2>1. PICK q \in pushes : answer = {PushedData(q)} /\ \A r \in pushes : ~ PushedBefore(r, q)
    BY <1>2 DEF Chosen
  <2>2. new = answer /\ q \in more /\ \A r \in more : ~ PushedBefore(r, q)
    BY <2>1
  <2> HIDE DEF new
  <2> QED BY <1>2, <2>1, <2>2 DEF Chosen, new
<1>3. CASE burns = {} /\ pushes = {} /\ alias = p.alias /\ rel = p.rel
  <2>1. answer = {}
    BY <1>3 DEF Chosen
  <2>2. more = {p} /\ new = {PushedData(p)} /\ ~ PushedBefore(p, p)
    BY <1>3, <2>1
  <2> QED BY <1>3, <2>2 DEF Chosen
<1>4. CASE burns = {} /\ pushes = {} /\ ~ (alias = p.alias /\ rel = p.rel)
  <2>1. answer = {}
    BY <1>4 DEF Chosen
  <2>2. more = {} /\ new = answer
    BY <1>4, <2>1
  <2> QED BY <1>4, <2>1, <2>2 DEF Chosen
<1> QED BY <1>1, <1>2, <1>3, <1>4

LEMMA ChosenWithBurn ==
  ASSUME NEW pushed, NEW burned, NEW b, NEW alias, NEW rel, NEW answer,
         Chosen(pushed, burned, alias, rel, answer),
         \A c \in burned \cup {b} : ~ BurnedBefore(b, c)
  PROVE  Chosen(pushed, burned \cup {b}, alias, rel,
                IF alias = b.alias /\ rel = b.rel THEN {BurnedData(b)} ELSE answer)
<1> DEFINE burns  == {c \in burned : c.alias = alias /\ c.rel = rel}
           more   == {c \in burned \cup {b} : c.alias = alias /\ c.rel = rel}
<1>1. CASE alias = b.alias /\ rel = b.rel
  <2>1. b \in more /\ \A c \in more : ~ BurnedBefore(b, c)
    BY <1>1
  <2> QED BY <1>1, <2>1 DEF Chosen
<1>2. CASE ~ (alias = b.alias /\ rel = b.rel)
  <2>1. more = burns
    BY <1>2
  <2> QED BY <1>2, <2>1 DEF Chosen
<1> QED BY <1>1, <1>2

(***************************************************************************)
(* How what has been done grows.                                           *)
(***************************************************************************)
LEMMA TailRange ==
  ASSUME NEW s, NEW list, Remaining(s, list), list # <<>>
  PROVE  /\ Range(list) = Range(Tail(list)) \cup {Head(list)}
         /\ Head(list) \notin Range(Tail(list))
<1>1. /\ Len(list) \in Nat /\ Len(list) >= 1 /\ Head(list) = list[1]
      /\ DOMAIN list = 1 .. Len(list) /\ DOMAIN Tail(list) = 1 .. Len(list) - 1
      /\ \A i \in 1 .. Len(list) - 1 : Tail(list)[i] = list[i + 1]
  BY DEF Remaining
<1>2. ASSUME NEW i \in 1 .. Len(list) - 1 PROVE Tail(list)[i] # list[1] /\ Tail(list)[i] \in Range(list)
  <2>1. 1 \in 1 .. Len(list) /\ i + 1 \in 1 .. Len(list) /\ 1 < i + 1 /\ Tail(list)[i] = list[i + 1]
    BY <1>1
  <2>2. WalkBefore(s, list[1], list[i + 1])
    BY <2>1 DEF Remaining
  <2>3. list[1] # list[i + 1]
    BY <2>2 DEF WalkBefore, SourceOrder, BurnOrder
  <2>4. Tail(list)[i] \in Range(list)
    BY <1>1, <2>1 DEF Range
  <2> QED BY <2>1, <2>3, <2>4
<1>3. ASSUME NEW i \in 1 .. Len(list) PROVE list[i] = list[1] \/ list[i] \in Range(Tail(list))
  <2>1. i = 1 \/ (i - 1 \in 1 .. Len(list) - 1 /\ Tail(list)[i - 1] = list[i])
    BY <1>1
  <2> QED BY <1>1, <2>1 DEF Range
<1>4. list[1] \in Range(list)
  BY <1>1 DEF Range
<1>5. \A x \in Range(Tail(list)) : x # list[1] /\ x \in Range(list)
  BY <1>1, <1>2 DEF Range
<1>6. \A x \in Range(list) : x = list[1] \/ x \in Range(Tail(list))
  BY <1>1, <1>3 DEF Range
<1> QED BY <1>1, <1>4, <1>5, <1>6

LEMMA PushedMore ==
  ASSUME NEW s \in 1 .. 4, NEW list, Remaining(s, list), list # <<>>
  PROVE  Pushed(s, Tail(list)) = Pushed(s, list) \cup {PushOf(s, Head(list))}
<1> DEFINE h == Head(list)
           p == PushOf(s, h)
<1>1. h \in Visited(s) /\ Range(list) = Range(Tail(list)) \cup {h} /\ h \notin Range(Tail(list))
  BY TailRemains, TailRange
<1>2. p \in Pushes /\ p.walk = s /\ p.path = h
  BY <1>1, PushParts DEF PushOf
<1>3. \A q \in Pushes : q.walk = s /\ q.path = h => q = p
  BY PushParts
<1> HIDE DEF h, p
<1>4. \A q : q \in Pushed(s, Tail(list)) <=> q \in Pushed(s, list) \cup {p}
  BY <1>1, <1>2, <1>3 DEF Pushed
<1> QED BY <1>4 DEF h, p

LEMMA BurnedMore ==
  ASSUME NEW s \in 5 .. 7, NEW list, Remaining(s, list), list # <<>>, NEW left
  PROVE  Burned(s, Tail(list), left) = Burned(s, list, left) \cup {BurnOf(s, Head(list), Head(list))}
<1> DEFINE h == Head(list)
           b == BurnOf(s, h, h)
<1>1. h \in Visited(s) /\ Range(list) = Range(Tail(list)) \cup {h} /\ h \notin Range(Tail(list))
  BY TailRemains, TailRange
<1>2. b \in Burns /\ b.walk = s /\ b.path = h /\ s # 8
  BY <1>1, BurntParts DEF BurnOf
<1>3. \A c \in Burns : c.walk = s /\ c.path = h => c = b
  BY <1>2, BurntParts
<1> HIDE DEF h, b
<1>4. \A c : c \in Burned(s, Tail(list), left) <=> c \in Burned(s, list, left) \cup {b}
  BY <1>1, <1>2, <1>3 DEF Burned
<1> QED BY <1>4 DEF h, b

LEMMA BurnedTableMore ==
  ASSUME NEW list, Remaining(8, list), list # <<>>, NEW left, NEW table \in TablesOf(Head(list))
  PROVE  Burned(8, list, left \ {table})
           = Burned(8, list, left) \cup {BurnOf(8, Head(list), table)}
<1> DEFINE h == Head(list)
           b == BurnOf(8, h, table)
<1>1. h \in Visited(8)
  BY TailRemains
<1>2. b \in Burns /\ b.walk = 8 /\ b.path = h /\ b.table = table
  BY <1>1, BurntParts DEF BurnOf
<1>3. \A c \in Burns : c.walk = 8 /\ c.path = h /\ c.table = table => c = b
  BY BurntParts
<1> HIDE DEF h, b
<1>4. \A c : c \in Burned(8, list, left \ {table}) <=> c \in Burned(8, list, left) \cup {b}
  BY <1>1, <1>2, <1>3 DEF Burned, h
<1> QED BY <1>4 DEF h, b

LEMMA BurnedLocdb ==
  ASSUME NEW list, Remaining(8, list), list # <<>>
  PROVE  Burned(8, Tail(list), TablesAt(8, Tail(list))) = Burned(8, list, {})
<1> DEFINE h == Head(list)
           left == TablesAt(8, Tail(list))
<1>1. Range(list) = Range(Tail(list)) \cup {h} /\ h \notin Range(Tail(list))
  BY TailRange
<1>2. \A c \in Burns : c.walk = 8 => c.table \in TablesOf(c.path)
  BY BurntParts
<1>3. \A c \in Burns : c.walk = 8 /\ Tail(list) # <<>> /\ c.path = Head(Tail(list)) => c.table \in left
  BY <1>2 DEF TablesAt
<1> HIDE DEF h, left
<1>4. \A c \in Burns : c \in Burned(8, Tail(list), left) <=> c \in Burned(8, list, {})
  BY <1>1, <1>3 DEF Burned, h
<1>5. \A c : c \in Burned(8, Tail(list), left) <=> c \in Burned(8, list, {})
  BY <1>4 DEF Burned
<1> QED BY <1>5 DEF left

LEMMA NextStageSame ==
  ASSUME project \in Projects, NEW s \in 1 .. 8, NEW left
  PROVE  /\ Pushed(s + 1, TodoAt(s + 1)) = Pushed(s, <<>>)
         /\ Burned(s + 1, TodoAt(s + 1), TablesAt(s + 1, TodoAt(s + 1))) = Burned(s, <<>>, left)
<1> DEFINE list == TodoAt(s + 1)
           next == TablesAt(s + 1, list)
<1>1. s + 1 \in 1 .. Built
  BY DEF Built
<1>2. Range(list) = Visited(s + 1) /\ Range(<<>>) = {}
  BY <1>1, TodoAtRemains DEF Range
<1>3. \A p \in Pushes : p.walk \in Nat /\ p.path \in Visited(p.walk)
  BY PushParts
<1>4. \A b \in Burns : /\ b.walk \in Nat /\ b.path \in Visited(b.walk)
                       /\ b.walk = 8 => b.table \in TablesOf(b.path)
  BY BurntParts
<1>5. \A b \in Burns : b.walk = s + 1 /\ s + 1 = 8 /\ list # <<>> /\ b.path = Head(list) => b.table \in next
  BY <1>4 DEF TablesAt
<1> HIDE DEF list, next
<1>6. \A p \in Pushes : p \in Pushed(s + 1, list) <=> p \in Pushed(s, <<>>)
  BY <1>2, <1>3 DEF Pushed
<1>7. \A p : p \in Pushed(s + 1, list) <=> p \in Pushed(s, <<>>)
  BY <1>6 DEF Pushed
<1>8. \A b \in Burns : b \in Burned(s + 1, list, next) <=> b \in Burned(s, <<>>, left)
  BY <1>2, <1>4, <1>5 DEF Burned
<1>9. \A b : b \in Burned(s + 1, list, next) <=> b \in Burned(s, <<>>, left)
  BY <1>8 DEF Burned
<1> QED BY <1>7, <1>9 DEF list, next

\* The invariant of the next state, said of this one.
LEMMA AnswersNext ==
  ASSUME project' = project, NEW s, NEW list, NEW left, NEW t, NEW ts,
         stage' = s, todo' = list, tables' = left, root' = t, tocs' = ts,
         \A alias : \A rel \in Paths :
           Chosen(Pushed(s, list), Burned(s, list, left), alias, rel, Current(s, t, ts, alias, rel))
  PROVE  AnswersSound'
<1>1. \A walk : PathsIn(walk)' = PathsIn(walk)
  BY DEF PathsIn
<1>2. \A p : PushedData(p)' = PushedData(p)
  BY DEF PushedData
<1>3. Assets' = Assets
  BY DEF Assets
<1>4. \A b : BurnedData(b)' = BurnedData(b)
  BY <1>3 DEF BurnedData
<1>5. \A burner, path : AliasFor(burner, path)' = AliasFor(burner, path)
  BY DEF AliasFor
<1>6. \A burner : Selected(burner)' = Selected(burner)
  BY <1>3 DEF Selected
<1>7. \A locdb : TablesOf(locdb)' = TablesOf(locdb)
  BY SameProject
<1>8. Pushes' = Pushes
  <2>1. \A k : PushedBy(k)' = PushedBy(k)
    BY <1>1 DEF PushedBy
  <2> QED BY <2>1 DEF Pushes
<1>9. Burns' = Burns
  <2> DEFINE Made(l) ==
               {[alias |-> AliasFor("UCS", l), path |-> l, table |-> p, walk |-> 8,
                 rel |-> LowerPath(LocalePath[<<Last(l), Last(p)>>])] : p \in TablesOf(l)}
             Locdbs == Selected(BurnerAt(8))
  <2>1. \A l : Made(l)' = Made(l)
    BY <1>5, <1>7
  <2>2. Locdbs' = Locdbs
    BY <1>6 DEF BurnerAt
  <2>3. BurnedBy(8) = UNION {Made(l) : l \in Locdbs} /\ BurnedBy(8)' = UNION {Made(l)' : l \in Locdbs'}
    BY DEF BurnedBy
  <2> HIDE DEF Made, Locdbs
  <2>4. BurnedBy(8)' = BurnedBy(8)
    BY <2>1, <2>2, <2>3
  <2>5. ASSUME NEW k \in 5 .. 7 PROVE BurnedBy(k)' = BurnedBy(k)
    <3>1. k # 8
      OBVIOUS
    <3> QED BY <1>5, <1>6, <3>1 DEF BurnedBy, BurnerAt
  <2>6. \A k \in 5 .. 8 : BurnedBy(k)' = BurnedBy(k)
    BY <2>4, <2>5
  <2> QED BY <2>6 DEF Burns
<1>10. Pushed(stage, todo)' = Pushed(s, list)
  BY <1>8 DEF Pushed
<1>11. Burned(stage, todo, tables)' = Burned(s, list, left)
  BY <1>9 DEF Burned
<1>12. \A pushed, burned, alias, rel, answer :
         Chosen(pushed, burned, alias, rel, answer) => Chosen(pushed, burned, alias, rel, answer)'
  BY <1>2, <1>4 DEF Chosen
<1> QED BY <1>10, <1>11, <1>12 DEF AnswersSound

LEMMA NothingBurned ==
  ASSUME NEW s \in 1 .. 4, NEW list, NEW left
  PROVE  Burned(s, list, left) = {}
<1>1. \A b \in Burns : b.walk \in 5 .. 8
  BY BurntParts
<1> QED BY <1>1 DEF Burned

LEMMA AllPushed ==
  ASSUME NEW s \in 5 .. Built, NEW list
  PROVE  Pushed(s, list) = Pushes
<1>1. \A p \in Pushes : p.walk \in 1 .. 4
  BY PushParts
<1> QED BY <1>1 DEF Pushed, Built

LEMMA AnswersAddSource == BuildSound /\ AnswersSound /\ AddSource => AnswersSound'
<1> SUFFICES ASSUME BuildSound, AnswersSound, AddSource PROVE AnswersSound'
  OBVIOUS
<1> DEFINE walk == SourceWalks[stage]
           path == Head(todo)
           file == SourceFile(Last(path), project.files[walk.base][path], walk.storage)
           p    == PushOf(stage, path)
           list == Tail(todo)
<1>1. /\ stage \in 1 .. 4 /\ todo # <<>> /\ todo' = list
      /\ project' = project /\ stage' = stage /\ tocs' = tocs /\ tables' = tables
      /\ root' \in PushInTree(root, path, file)
  BY DEF AddSource
<1>2. /\ project \in Projects /\ Remaining(stage, todo) /\ IsTree(root)
      /\ stage \in 1 .. Built /\ stage # Failed
  BY <1>1 DEF BuildSound, WalkSound, TreesSound, GoodTree, Failed, Built
<1>3. path \in DOMAIN project.files[walk.base]
  BY <1>1, <1>2, TailRemains, VisitedParts
<1>4. path \in Seq(Names) \ {<<>>} /\ project.files[walk.base][path] \in Data
  BY <1>1, <1>2, <1>3, WalkParts, ProjectParts
<1>5. file \in Files /\ file.name = Last(path) /\ file.data = project.files[walk.base][path]
  BY <1>1, <1>4, WalkParts, LastIsName, SourceFileTyped
<1>6. p.alias = walk.alias /\ p.rel = LowerPath(path) /\ PushedData(p) = file.data
  BY <1>5 DEF PushOf, PushedData
<1>7. Pushed(stage, list) = Pushed(stage, todo) \cup {p}
  BY <1>1, <1>2, PushedMore
<1>8. \A q \in Pushed(stage, todo) \cup {p} : ~ PushedBefore(p, q)
  BY <1>1, <1>2, NextPushIsLast
<1>9. Burned(stage, list, tables) = Burned(stage, todo, tables)
  BY <1>1, NothingBurned
<1> HIDE DEF path, file, p, list
<1>10. ASSUME NEW alias, NEW rel \in Paths
       PROVE  Chosen(Pushed(stage, list), Burned(stage, list, tables), alias, rel,
                     Current(stage, root', tocs, alias, rel))
  <2> DEFINE answer == Current(stage, root, tocs, alias, rel)
             next   == IF answer # {} \/ ~ (alias = p.alias /\ rel = p.rel)
                       THEN answer ELSE {PushedData(p)}
  <2>1. Chosen(Pushed(stage, todo), Burned(stage, todo, tables), alias, rel, answer)
    BY <1>2, <1>10 DEF AnswersSound
  <2>2. Current(stage, root', tocs, alias, rel) = next
    <3>1. CASE alias = walk.alias
      <4>1. TreeAnswer(root', rel) = IF TreeAnswer(root, rel) # {} \/ rel # LowerPath(path)
                                     THEN TreeAnswer(root, rel) ELSE {file.data}
        BY <1>1, <1>2, <1>4, <1>5, <1>10, PushAnswers DEF Paths
      <4>2. answer = TreeAnswer(root, rel) /\ Current(stage, root', tocs, alias, rel) = TreeAnswer(root', rel)
        BY <1>1, <3>1 DEF Current
      <4> HIDE DEF answer
      <4> QED BY <1>6, <3>1, <4>1, <4>2
    <3>2. CASE alias # walk.alias
      <4>1. Current(stage, root', tocs, alias, rel) = answer
        BY <3>2 DEF Current
      <4> HIDE DEF answer
      <4> QED BY <1>6, <3>2, <4>1
    <3> QED BY <3>1, <3>2
  <2> HIDE DEF answer
  <2>3. Chosen(Pushed(stage, todo) \cup {p}, Burned(stage, todo, tables), alias, rel, next)
    BY <1>8, <2>1, ChosenWithPush
  <2> HIDE DEF next
  <2> QED BY <1>7, <1>9, <2>2, <2>3
<1> HIDE DEF walk
<1> QED BY <1>1, <1>10, AnswersNext

LEMMA AnswersShareRoot == BuildSound /\ AnswersSound /\ ShareRoot => AnswersSound'
<1> SUFFICES ASSUME BuildSound, AnswersSound, ShareRoot PROVE AnswersSound'
  OBVIOUS
<1> DEFINE list == TodoAt(2)
           left == TablesAt(2, list)
<1>1. /\ stage = 1 /\ todo = <<>> /\ project' = project /\ root' = root /\ tocs' = tocs
      /\ stage' = 2 /\ todo' = list /\ tables' = left /\ stage # Failed
  BY DEF ShareRoot, GoTo, Failed
<1>2. project \in Projects
  BY DEF BuildSound, WalkSound
<1>3. Pushed(1 + 1, TodoAt(1 + 1)) = Pushed(1, <<>>)
      /\ Burned(1 + 1, TodoAt(1 + 1), TablesAt(1 + 1, TodoAt(1 + 1))) = Burned(1, <<>>, tables)
  BY <1>2, NextStageSame
<1>4. 1 + 1 = 2
  OBVIOUS
<1>5. Pushed(2, list) = Pushed(1, <<>>) /\ Burned(2, list, left) = Burned(1, <<>>, tables)
  BY <1>3, <1>4
<1>6. \A alias, rel : Current(2, root, tocs, alias, rel) = Current(1, root, tocs, alias, rel)
  BY DEF Current, SourceWalks
<1> HIDE DEF list, left
<1>7. \A alias : \A rel \in Paths :
        Chosen(Pushed(2, list), Burned(2, list, left), alias, rel, Current(2, root, tocs, alias, rel))
  BY <1>1, <1>5, <1>6 DEF AnswersSound
<1> QED BY <1>1, <1>7, AnswersNext

LEMMA ClosedAnswers ==
  ASSUME NEW ts, GoodTocs(ts), NEW t, GoodTree(t), t = EmptyTree \/ HoldsFiles(t, <<>>),
         NEW alias \in Aliases, \A i \in DOMAIN ts : ts[i].alias # alias,
         NEW a, NEW rel
  PROVE  TocsAnswer(WithToc(ts, alias, t), a, rel)
           = IF a = alias THEN TreeAnswer(t, rel) ELSE TocsAnswer(ts, a, rel)
<1> DEFINE toc == [alias |-> alias, tree |-> t]
           v   == WithToc(ts, alias, t)
<1>1. IsArchive(ts) /\ \A i, j \in DOMAIN ts : ts[i].alias = ts[j].alias => i = j
  BY DEF GoodTocs
<1>2. CASE t = EmptyTree
  <2>1. v = ts
    BY <1>2 DEF WithToc
  <2>2. TocsAnswer(ts, alias, rel) = {}
    BY <1>1, TocAnswers
  <2> QED BY <1>2, <2>1, <2>2, EmptyTreeAnswers
<1>3. CASE t # EmptyTree
  <2>1. v = Append(ts, toc) /\ toc.alias = alias /\ toc.tree = t
    BY <1>3 DEF WithToc
  <2>2. IsToc(toc)
    BY TocOf DEF GoodTree
  <2>3. IsArchive(v) /\ \A i, j \in DOMAIN v : v[i].alias = v[j].alias => i = j
    BY ClosedIsGood DEF GoodTocs
  <2>4. Len(ts) \in Nat /\ DOMAIN ts = 1 .. Len(ts)
    BY <1>1, TocParts
  <2> HIDE DEF v, toc
  <2>5. DOMAIN v = 1 .. Len(ts) + 1
    BY <1>1, <2>1, <2>2, TocAppended
  <2>6. \A i \in 1 .. Len(ts) : v[i] = ts[i]
    BY <1>1, <2>1, <2>2, TocAppended
  <2>7. v[Len(ts) + 1] = toc
    BY <1>1, <2>1, <2>2, TocAppended
  <2>8. CASE a = alias
    <3>1. Len(ts) + 1 \in DOMAIN v
      BY <2>4, <2>5
    <3>2. TocsAnswer(v, v[Len(ts) + 1].alias, rel) = TreeAnswer(v[Len(ts) + 1].tree, rel)
      BY <2>3, <3>1, TocAnswers
    <3> QED BY <2>1, <2>7, <2>8, <3>2 DEF v
  <2>9. CASE a # alias /\ \E i \in DOMAIN ts : ts[i].alias = a
    <3>1. PICK i \in DOMAIN ts : ts[i].alias = a
      BY <2>9
    <3>2. i \in DOMAIN v /\ v[i] = ts[i]
      BY <2>4, <2>5, <2>6
    <3>3. TocsAnswer(v, v[i].alias, rel) = TreeAnswer(v[i].tree, rel)
      BY <2>3, <3>2, TocAnswers
    <3>4. TocsAnswer(ts, ts[i].alias, rel) = TreeAnswer(ts[i].tree, rel)
      BY <1>1, TocAnswers
    <3> QED BY <2>9, <3>1, <3>2, <3>3, <3>4 DEF v
  <2>10. CASE a # alias /\ \A i \in DOMAIN ts : ts[i].alias # a
    <3>1. \A i \in DOMAIN v : i = Len(ts) + 1 \/ i \in DOMAIN ts
      BY <2>4, <2>5
    <3>2. \A i \in DOMAIN v : v[i].alias # a
      BY <2>1, <2>4, <2>6, <2>7, <2>10, <3>1
    <3>3. TocsAnswer(v, a, rel) = {}
      BY <2>3, <3>2, TocAnswers
    <3>4. TocsAnswer(ts, a, rel) = {}
      BY <1>1, <2>10, TocAnswers
    <3> QED BY <2>10, <3>3, <3>4 DEF v
  <2> QED BY <2>8, <2>9, <2>10
<1> QED BY <1>2, <1>3

\* The TOC at hand is new, and so is the next one.
LEMMA AliasIsNew ==
  ASSUME NEW s \in 2 .. 4
  PROVE  /\ SourceWalks[s].alias \notin AliasesClosed(s)
         /\ s + 1 \in 1 .. 4 => /\ SourceWalks[s + 1].alias \notin AliasesClosed(s)
                                /\ SourceWalks[s + 1].alias # SourceWalks[s].alias
<1>1. CASE s = 2
  <2>1. AliasesClosed(2) = {}
    BY DEF AliasesClosed
  <2> QED BY <1>1, <2>1 DEF SourceWalks
<1>2. CASE s = 3
  <2>1. AliasesClosed(3) = {"data"}
    BY DEF AliasesClosed, SourceWalks
  <2> QED BY <1>2, <2>1 DEF SourceWalks
<1>3. CASE s = 4
  <2>1. 2 .. 3 = {2, 3}
    OBVIOUS
  <2>2. AliasesClosed(4) = {"data", "info"}
    BY <2>1 DEF AliasesClosed, SourceWalks
  <2> QED BY <1>3, <2>2 DEF SourceWalks
<1> QED BY <1>1, <1>2, <1>3

LEMMA AnswersCloseToc == BuildSound /\ AnswersSound /\ CloseToc => AnswersSound'
<1> SUFFICES ASSUME BuildSound, AnswersSound, CloseToc PROVE AnswersSound'
  OBVIOUS
<1> DEFINE s    == stage + 1
           list == TodoAt(s)
           left == TablesAt(s, list)
           A    == SourceWalks[stage].alias
           ts   == WithToc(tocs, A, root)
<1>1. /\ stage \in 2 .. 4 /\ todo = <<>> /\ project' = project /\ root' = EmptyTree /\ tocs' = ts
      /\ stage' = s /\ todo' = list /\ tables' = left /\ stage # Failed
  BY DEF CloseToc, GoTo, Failed
<1>2. /\ project \in Projects /\ GoodTocs(tocs) /\ GoodTree(root)
      /\ root = EmptyTree \/ HoldsFiles(root, <<>>)
      /\ \A i \in DOMAIN tocs : tocs[i].alias \in AliasesClosed(stage)
  BY <1>1 DEF BuildSound, WalkSound, TreesSound
<1>3. Pushed(s, list) = Pushed(stage, <<>>) /\ Burned(s, list, left) = Burned(stage, <<>>, tables)
  BY <1>1, <1>2, NextStageSame
<1>4. A \in Aliases /\ \A i \in DOMAIN tocs : tocs[i].alias # A
  BY <1>1, <1>2, WalkParts, AliasIsNew
<1>5. ASSUME NEW alias, NEW rel
      PROVE  Current(s, EmptyTree, ts, alias, rel) = Current(stage, root, tocs, alias, rel)
  <2>1. TocsAnswer(ts, alias, rel) = IF alias = A THEN TreeAnswer(root, rel) ELSE TocsAnswer(tocs, alias, rel)
    <3> HIDE DEF A
    <3> QED BY <1>2, <1>4, ClosedAnswers
  <2>2. CASE s \in 1 .. 4 /\ alias = SourceWalks[s].alias
    <3>1. alias # A /\ \A i \in DOMAIN tocs : tocs[i].alias # alias
      BY <1>1, <1>2, <2>2, AliasIsNew
    <3>2. TocsAnswer(tocs, alias, rel) = {}
      BY <1>2, <3>1, TocAnswers DEF GoodTocs
    <3>3. Current(stage, root, tocs, alias, rel) = {}
      BY <3>1, <3>2 DEF Current
    <3>4. Current(s, EmptyTree, ts, alias, rel) = TreeAnswer(EmptyTree, rel)
      BY <2>2 DEF Current
    <3> QED BY <3>3, <3>4, EmptyTreeAnswers
  <2>3. CASE ~ (s \in 1 .. 4 /\ alias = SourceWalks[s].alias)
    <3>1. Current(s, EmptyTree, ts, alias, rel) = TocsAnswer(ts, alias, rel)
      BY <2>3 DEF Current
    <3> QED BY <1>1, <2>1, <3>1 DEF Current
  <2> QED BY <2>2, <2>3
<1> HIDE DEF list, left, ts, A, s
<1>6. \A alias : \A rel \in Paths :
        Chosen(Pushed(s, list), Burned(s, list, left), alias, rel, Current(s, EmptyTree, ts, alias, rel))
  BY <1>1, <1>3, <1>5 DEF AnswersSound
<1> QED BY <1>1, <1>6, AnswersNext

\* A burned file is placed.
LEMMA AnswersPlaced ==
  ASSUME GoodTocs(tocs), NEW s \in 5 .. 8, NEW pushed, NEW burned, NEW b, NEW rel \in Paths,
         b.alias \in Aliases, b.rel = LowerPath(rel), BurnedData(b) \in Data,
         NEW ts \in PlaceBurned(tocs, b.alias, rel, BurnedData(b)),
         \A c \in burned \cup {b} : ~ BurnedBefore(b, c),
         \A alias : \A other \in Paths :
           Chosen(pushed, burned, alias, other, Current(s, root, tocs, alias, other))
  PROVE  \A alias : \A other \in Paths :
           Chosen(pushed, burned \cup {b}, alias, other, Current(s, root, ts, alias, other))
<1> SUFFICES ASSUME NEW alias, NEW other \in Paths
             PROVE  Chosen(pushed, burned \cup {b}, alias, other, Current(s, root, ts, alias, other))
  OBVIOUS
<1> DEFINE answer == Current(s, root, tocs, alias, other)
<1>1. Chosen(pushed, burned, alias, other, answer)
  OBVIOUS
<1>2. /\ answer = TocsAnswer(tocs, alias, other)
      /\ Current(s, root, ts, alias, other) = TocsAnswer(ts, alias, other)
  BY DEF Current
<1>3. TocsAnswer(ts, alias, other)
        = IF alias = b.alias /\ other = LowerPath(rel) THEN {BurnedData(b)}
          ELSE TocsAnswer(tocs, alias, other)
  BY BurnAnswers DEF Paths
<1>4. Current(s, root, ts, alias, other)
        = IF alias = b.alias /\ other = b.rel THEN {BurnedData(b)} ELSE answer
  BY <1>2, <1>3
<1> HIDE DEF answer
<1>5. Chosen(pushed, burned \cup {b}, alias, other,
             IF alias = b.alias /\ other = b.rel THEN {BurnedData(b)} ELSE answer)
  BY <1>1, ChosenWithBurn
<1> QED BY <1>4, <1>5

LEMMA AnswersBurn == BuildSound /\ AnswersSound /\ Burn => AnswersSound'
<1> SUFFICES ASSUME BuildSound, AnswersSound, Burn PROVE AnswersSound'
  OBVIOUS
<1> DEFINE path  == Head(todo)
           bytes == Compiled[Assets[path]]
           alias == AliasFor(BurnerAt(stage).burner, path)
           b     == BurnOf(stage, path, path)
           list  == Tail(todo)
<1>1. /\ stage \in 5 .. 7 /\ stage \in 5 .. 8 /\ stage \in 5 .. Built /\ stage # 8
      /\ stage # Failed /\ todo # <<>> /\ project \in Projects /\ Remaining(stage, todo)
      /\ GoodTocs(tocs)
  BY DEF Burn, BuildSound, WalkSound, TreesSound, Failed, Built
<1>2. CASE Fail
  BY <1>2 DEF Fail, AnswersSound
<1>3. CASE /\ bytes # Rejected
           /\ tocs' \in PlaceBurned(tocs, alias, BurnedPath(path), bytes)
           /\ todo' = Tail(todo)
           /\ UNCHANGED <<project, stage, tables, root>>
  <2>1. /\ project' = project /\ stage' = stage /\ tables' = tables /\ root' = root
        /\ todo' = list /\ bytes # Rejected
        /\ tocs' \in PlaceBurned(tocs, alias, BurnedPath(path), bytes)
    BY <1>3
  <2>2. path \in Visited(stage)
    BY <1>1, TailRemains
  <2>3. path \in Paths /\ bytes \in Data /\ alias \in Aliases
    BY <1>1, <2>1, <2>2, BurnParts DEF Paths
  <2>4. BurnedPath(path) \in Paths
    BY <2>3, BurnedPathTyped DEF Paths
  <2>5. b.alias = alias /\ b.rel = LowerPath(BurnedPath(path)) /\ b.table = path
    BY <1>1 DEF BurnOf
  <2>6. BurnedData(b) = bytes
    BY <2>5 DEF BurnedData
  <2>7. \A c \in Burned(stage, todo, tables) \cup {b} : ~ BurnedBefore(b, c)
    BY <1>1, NextBurnIsLast
  <2>8. /\ Pushed(stage, list) = Pushed(stage, todo)
        /\ Burned(stage, list, tables) = Burned(stage, todo, tables) \cup {b}
    BY <1>1, AllPushed, BurnedMore
  <2>9. \A a : \A rel \in Paths :
          Chosen(Pushed(stage, todo), Burned(stage, todo, tables), a, rel,
                 Current(stage, root, tocs, a, rel))
    BY <1>1 DEF AnswersSound
  <2>10. tocs' \in PlaceBurned(tocs, b.alias, BurnedPath(path), BurnedData(b))
    BY <2>1, <2>5, <2>6
  <2> HIDE DEF path, bytes, alias, b, list
  <2>11. \A a : \A rel \in Paths :
           Chosen(Pushed(stage, todo), Burned(stage, todo, tables) \cup {b}, a, rel,
                  Current(stage, root, tocs', a, rel))
    BY <1>1, <2>3, <2>4, <2>5, <2>6, <2>7, <2>9, <2>10, AnswersPlaced
  <2>12. \A a : \A rel \in Paths :
           Chosen(Pushed(stage, list), Burned(stage, list, tables), a, rel,
                  Current(stage, root, tocs', a, rel))
    BY <2>8, <2>11
  <2> QED BY <2>1, <2>12, AnswersNext
<1> QED BY <1>2, <1>3 DEF Burn

LEMMA AnswersBurnTable == BuildSound /\ AnswersSound /\ BurnTable => AnswersSound'
<1> SUFFICES ASSUME BuildSound, AnswersSound, BurnTable PROVE AnswersSound'
  OBVIOUS
<1> DEFINE path  == Head(todo)
           alias == AliasFor("UCS", path)
           bytes(table) == Compiled[Assets[table]]
           rel(table) == LocalePath[<<Last(path), Last(table)>>]
<1>1. stage = 8 /\ stage # Failed /\ WalkSound /\ TreesSound
  BY DEF BurnTable, BuildSound, Failed
<1>2. CASE Fail
  BY <1>2 DEF Fail, AnswersSound
<1>3. CASE \E table \in tables :
             /\ bytes(table) # Rejected
             /\ tocs' \in PlaceBurned(tocs, alias, rel(table), bytes(table))
             /\ tables' = tables \ {table}
             /\ UNCHANGED <<project, stage, todo, root>>
  <2>1. PICK table \in tables :
          /\ bytes(table) # Rejected
          /\ tocs' \in PlaceBurned(tocs, alias, rel(table), bytes(table))
          /\ tables' = tables \ {table}
          /\ UNCHANGED <<project, stage, todo, root>>
    BY <1>3
  <2> DEFINE b    == BurnOf(8, path, table)
             left == tables \ {table}
  <2>2. /\ project' = project /\ stage' = 8 /\ todo' = todo /\ root' = root /\ tables' = left
    BY <1>1, <2>1
  <2>3. /\ project \in Projects /\ todo # <<>> /\ tables \subseteq TablesOf(Head(todo))
        /\ Remaining(8, todo) /\ GoodTocs(tocs)
    BY <1>1, <2>1 DEF WalkSound, TreesSound
  <2>4. path \in Visited(8)
    BY <2>3, TailRemains
  <2>5. BurnerAt(8).burner = "UCS"
    BY DEF BurnerAt, Burners
  <2>6. path \in DOMAIN Assets /\ alias \in Aliases
    BY <2>3, <2>4, <2>5, BurnParts
  <2>7. table \in TablesOf(path)
    BY <2>3
  <2>8. rel(table) \in Paths /\ bytes(table) \in Data
    BY <2>1, <2>3, <2>6, <2>7, TableParts DEF Paths
  <2>9. b.alias = alias /\ b.rel = LowerPath(rel(table)) /\ b.table = table
    BY <2>5 DEF BurnOf
  <2>10. BurnedData(b) = bytes(table)
    BY <2>9 DEF BurnedData
  <2>11. \A c \in Burned(8, todo, tables) \cup {b} : ~ BurnedBefore(b, c)
    <3>1. 8 \in 5 .. 8
      OBVIOUS
    <3> QED BY <2>3, <3>1, NextBurnIsLast
  <2>12. Burned(8, todo, left) = Burned(8, todo, tables) \cup {b}
    BY <2>3, <2>7, BurnedTableMore
  <2>13. \A a : \A other \in Paths :
           Chosen(Pushed(8, todo), Burned(8, todo, tables), a, other,
                  Current(8, root, tocs, a, other))
    BY <1>1 DEF AnswersSound
  <2>14. tocs' \in PlaceBurned(tocs, b.alias, rel(table), BurnedData(b))
    BY <2>1, <2>9, <2>10
  <2> DEFINE under == rel(table)
  <2> HIDE DEF path, bytes, alias, rel, b, left, under
  <2>15. /\ under \in Paths /\ b.alias \in Aliases /\ BurnedData(b) \in Data
        /\ b.rel = LowerPath(under) /\ tocs' \in PlaceBurned(tocs, b.alias, under, BurnedData(b))
        /\ 8 \in 5 .. 8
    BY <2>6, <2>8, <2>9, <2>10, <2>14 DEF under
  <2>16. \A a : \A other \in Paths :
           Chosen(Pushed(8, todo), Burned(8, todo, tables) \cup {b}, a, other,
                  Current(8, root, tocs', a, other))
    BY <2>3, <2>11, <2>13, <2>15, AnswersPlaced
  <2>17. \A a : \A other \in Paths :
           Chosen(Pushed(8, todo), Burned(8, todo, left), a, other,
                  Current(8, root, tocs', a, other))
    BY <2>12, <2>16
  <2> QED BY <2>2, <2>17, AnswersNext
<1> QED BY <1>2, <1>3 DEF BurnTable

LEMMA AnswersNextLocdb == BuildSound /\ AnswersSound /\ NextLocdb => AnswersSound'
<1> SUFFICES ASSUME BuildSound, AnswersSound, NextLocdb PROVE AnswersSound'
  OBVIOUS
<1> DEFINE list == Tail(todo)
           left == TablesAt(8, list)
<1>1. /\ stage = 8 /\ todo # <<>> /\ tables = {} /\ todo' = list /\ tables' = left
      /\ project' = project /\ stage' = 8 /\ root' = root /\ tocs' = tocs /\ stage # Failed
  BY DEF NextLocdb, Failed
<1>2. Remaining(8, todo)
  BY <1>1 DEF BuildSound, WalkSound
<1>3. Burned(8, list, left) = Burned(8, todo, {}) /\ Pushed(8, list) = Pushed(8, todo)
  <2>1. 8 \in 5 .. Built
    BY DEF Built
  <2> QED BY <1>1, <1>2, <2>1, BurnedLocdb, AllPushed
<1> HIDE DEF list, left
<1>4. \A alias : \A rel \in Paths :
        Chosen(Pushed(8, list), Burned(8, list, left), alias, rel, Current(8, root, tocs, alias, rel))
  BY <1>1, <1>3 DEF AnswersSound
<1> QED BY <1>1, <1>4, AnswersNext

LEMMA AnswersNextBurner == BuildSound /\ AnswersSound /\ NextBurner => AnswersSound'
<1> SUFFICES ASSUME BuildSound, AnswersSound, NextBurner PROVE AnswersSound'
  OBVIOUS
<1> DEFINE s    == stage + 1
           list == TodoAt(s)
           left == TablesAt(s, list)
<1>1. /\ stage \in 5 .. 8 /\ stage \in 1 .. 8 /\ todo = <<>> /\ project' = project
      /\ root' = root /\ tocs' = tocs /\ stage' = s /\ todo' = list /\ tables' = left
      /\ stage # Failed
  BY DEF NextBurner, GoTo, IsBurnStage, Failed
<1>2. project \in Projects
  BY DEF BuildSound, WalkSound
<1>3. Pushed(s, list) = Pushed(stage, <<>>) /\ Burned(s, list, left) = Burned(stage, <<>>, tables)
  BY <1>1, <1>2, NextStageSame
<1>4. \A alias, rel : Current(s, root, tocs, alias, rel) = Current(stage, root, tocs, alias, rel)
  BY <1>1 DEF Current
<1> HIDE DEF list, left, s
<1>5. \A alias : \A rel \in Paths :
        Chosen(Pushed(s, list), Burned(s, list, left), alias, rel, Current(s, root, tocs, alias, rel))
  BY <1>1, <1>3, <1>4 DEF AnswersSound
<1> QED BY <1>1, <1>5, AnswersNext

LEMMA AnswersInit == Init => AnswersSound
<1> SUFFICES ASSUME Init, NEW alias, NEW rel \in Paths
             PROVE  Chosen(Pushed(1, todo), Burned(1, todo, {}), alias, rel,
                           Current(1, EmptyTree, <<>>, alias, rel))
  BY DEF Init, AnswersSound
<1>1. todo = TodoAt(1) /\ project \in Projects
  BY DEF Init
<1>2. Range(todo) = Visited(1)
  <2>1. 1 \in 1 .. Built
    BY DEF Built
  <2> QED BY <1>1, <2>1, TodoAtRemains
<1>3. \A p \in Pushes : p.walk \in 1 .. 4 /\ p.path \in Visited(p.walk)
  BY PushParts
<1>4. Pushed(1, todo) = {}
  BY <1>2, <1>3 DEF Pushed
<1>5. Burned(1, todo, {}) = {}
  BY NothingBurned
<1>6. TocsAnswer(<<>>, alias, rel) = {}
  <2>1. IsArchive(<<>>) /\ DOMAIN <<>> = {}
    BY DEF IsArchive
  <2> QED BY <2>1, TocAnswers
<1>7. Current(1, EmptyTree, <<>>, alias, rel) = {}
  BY <1>6, EmptyTreeAnswers DEF Current
<1> QED BY <1>4, <1>5, <1>7 DEF Chosen

LEMMA AnswersStep == BuildSound /\ AnswersSound /\ [Next]_vars => AnswersSound'
<1> SUFFICES ASSUME BuildSound, AnswersSound, [Next]_vars PROVE AnswersSound'
  OBVIOUS
<1>1. CASE UNCHANGED vars
  <2>1. /\ project' = project /\ stage' = stage /\ todo' = todo /\ tables' = tables
        /\ root' = root /\ tocs' = tocs
    BY <1>1 DEF vars
  <2>2. CASE stage = Failed
    BY <2>1, <2>2 DEF AnswersSound
  <2>3. CASE stage # Failed
    <3>1. \A alias : \A rel \in Paths :
            Chosen(Pushed(stage, todo), Burned(stage, todo, tables), alias, rel,
                   Current(stage, root, tocs, alias, rel))
      BY <2>3 DEF AnswersSound
    <3> QED BY <2>1, <3>1, AnswersNext
  <2> QED BY <2>2, <2>3
<1> QED BY <1>1, AnswersAddSource, AnswersShareRoot, AnswersCloseToc, AnswersBurn,
           AnswersBurnTable, AnswersNextLocdb, AnswersNextBurner DEF Next

-----------------------------------------------------------------------------
(***************************************************************************)
(* What the finished archive answers is what the project declares.         *)
(***************************************************************************)
LEMMA AnswersOfTocs == \A alias, rel : AnswerIn(alias, rel) = TocsAnswer(tocs, alias, rel)
<1>1. \A toc, rel : Answer(toc, rel) = TreeAnswer(toc.tree, rel)
  BY EmptyAnswers DEF Answer, TreeAnswer, FilesIn, TableAnswer
<1> QED BY <1>1 DEF AnswerIn, TocsAnswer

LEMMA ChosenIsDeclared ==
  ASSUME NEW alias, NEW rel, NEW answer, Chosen(Pushes, Burns, alias, rel, answer)
  PROVE  /\ answer # {} => Cardinality(answer) = 1 /\ answer \subseteq Declared(alias, rel)
         /\ \A m \in Pushes \cup Burns : m.alias = alias /\ m.rel = rel => answer # {}
<1> DEFINE pushes == {p \in Pushes : p.alias = alias /\ p.rel = rel}
           burns  == {b \in Burns : b.alias = alias /\ b.rel = rel}
<1>1. CASE burns # {}
  <2>1. PICK b \in burns : answer = {BurnedData(b)} /\ \A c \in burns : ~ BurnedBefore(b, c)
    BY <1>1 DEF Chosen
  <2>2. Declared(alias, rel)
          = {BurnedData(c) : c \in {c \in burns : \A e \in burns : ~ BurnedBefore(c, e)}}
    BY <1>1 DEF Declared
  <2> HIDE DEF burns
  <2>3. BurnedData(b) \in Declared(alias, rel)
    BY <2>1, <2>2
  <2> QED BY <2>1, <2>3, FS_Singleton
<1>2. CASE burns = {} /\ pushes # {}
  <2>1. PICK p \in pushes : answer = {PushedData(p)} /\ \A q \in pushes : ~ PushedBefore(q, p)
    BY <1>2 DEF Chosen
  <2>2. Declared(alias, rel)
          = {PushedData(e) : e \in {e \in pushes : \A q \in pushes : ~ PushedBefore(q, e)}}
    BY <1>2 DEF Declared
  <2> HIDE DEF pushes
  <2>3. PushedData(p) \in Declared(alias, rel)
    BY <2>1, <2>2
  <2> QED BY <2>1, <2>3, FS_Singleton
<1>3. CASE burns = {} /\ pushes = {}
  <2>1. answer = {}
    BY <1>3 DEF Chosen
  <2>2. \A m \in Pushes \cup Burns : ~ (m.alias = alias /\ m.rel = rel)
    BY <1>3
  <2> QED BY <2>1, <2>2
<1> QED BY <1>1, <1>2, <1>3

LEMMA BuiltChosen ==
  ASSUME AnswersSound, stage = Built
  PROVE  \A alias : \A rel \in Paths : Chosen(Pushes, Burns, alias, rel, AnswerIn(alias, rel))
<1>1. stage # Failed /\ stage \in 5 .. Built
  BY DEF Failed, Built
<1>2. Pushed(stage, todo) = Pushes
  BY <1>1, AllPushed
<1>3. \A b \in Burns : b.walk < stage
  BY BurntParts DEF Built
<1>4. Burned(stage, todo, tables) = Burns
  BY <1>3 DEF Burned
<1>5. \A alias, rel : Current(stage, root, tocs, alias, rel) = AnswerIn(alias, rel)
  BY AnswersOfTocs DEF Current, Built
<1> QED BY <1>1, <1>2, <1>4, <1>5 DEF AnswersSound

\* Whatever is pushed or burned goes under a path.
LEMMA DeclaredPaths ==
  ASSUME project \in Projects
  PROVE  \A m \in Pushes \cup Burns : m.rel \in Paths
<1>1. ASSUME NEW m \in Pushes PROVE m.rel \in Paths
  <2>1. /\ m.walk \in 1 .. 4 /\ m.walk \in 1 .. Built
        /\ m.path \in Visited(m.walk) /\ m = PushOf(m.walk, m.path)
    BY PushParts DEF Built
  <2>2. m.path \in Paths
    BY <2>1, VisitedParts DEF Paths
  <2>3. m.rel = LowerPath(m.path)
    BY <2>1 DEF PushOf
  <2> QED BY <2>2, <2>3, LoweredPathIs DEF Paths
<1>2. ASSUME NEW m \in Burns PROVE m.rel \in Paths
  <2> DEFINE under == IF m.walk = 8 THEN LocalePath[<<Last(m.path), Last(m.table)>>]
                      ELSE BurnedPath(m.path)
  <2>1. /\ m.walk \in 5 .. 8 /\ m.path \in Visited(m.walk)
        /\ m.walk = 8 => m.table \in TablesOf(m.path)
        /\ m = BurnOf(m.walk, m.path, m.table)
    BY BurntParts
  <2>2. m.path \in DOMAIN Assets /\ m.path \in Paths
    BY <2>1, BurnParts DEF Paths
  <2>3. under \in Paths
    BY <2>1, <2>2, TableParts, BurnedPathTyped DEF Paths
  <2>4. m.rel = LowerPath(under)
    BY <2>1 DEF BurnOf
  <2> HIDE DEF under
  <2> QED BY <2>3, <2>4, LoweredPathIs DEF Paths
<1> QED BY <1>1, <1>2

\* A member can be looked up.
LEMMA MembersAnswer ==
  ASSUME GoodTocs(tocs)
  PROVE  \A m \in Members : m.rel \in Paths /\ AnswerIn(m.alias, m.rel) # {}
<1> SUFFICES ASSUME NEW m \in Members PROVE m.rel \in Paths /\ AnswerIn(m.alias, m.rel) # {}
  OBVIOUS
<1>1. IsArchive(tocs) /\ \A i, j \in DOMAIN tocs : tocs[i].alias = tocs[j].alias => i = j
  BY DEF GoodTocs
<1>2. PICK i \in DOMAIN tocs : \E p \in DOMAIN tocs[i].tree : \E k \in DOMAIN tocs[i].tree[p].files :
        m = [alias |-> tocs[i].alias, rel |-> Append(p, tocs[i].tree[p].files[k].name)]
  BY <1>1, TocParts DEF Members, Range
<1>3. PICK p \in DOMAIN tocs[i].tree : \E k \in DOMAIN tocs[i].tree[p].files :
        m = [alias |-> tocs[i].alias, rel |-> Append(p, tocs[i].tree[p].files[k].name)]
  BY <1>2
<1>4. PICK k \in DOMAIN tocs[i].tree[p].files :
        m = [alias |-> tocs[i].alias, rel |-> Append(p, tocs[i].tree[p].files[k].name)]
  BY <1>3
<1> DEFINE t == tocs[i].tree
           table == t[p].files
           name == table[k].name
<1>5. IsTree(t)
  BY <1>1, <1>4, TocParts
<1>6. p \in Seq(Names) /\ table \in Seq(Files)
  BY <1>4, <1>5 DEF IsTree, Folders
<1>7. k \in 1 .. Len(table) /\ table[k] \in Files
  BY <1>4, <1>6
<1>8. name \in Names
  BY <1>7 DEF Files
<1>9. m.alias = tocs[i].alias /\ m.rel = Append(p, name)
  BY <1>4
<1>10. /\ m.rel \in Paths /\ Front(m.rel) = p /\ Last(m.rel) = name
  <2> HIDE DEF name
  <2> QED BY <1>6, <1>8, <1>9, FrontOfAppend DEF Paths
<1>11. AnswerIn(m.alias, m.rel) = TreeAnswer(t, m.rel)
  <2>1. TocsAnswer(tocs, tocs[i].alias, m.rel) = TreeAnswer(tocs[i].tree, m.rel)
    BY <1>1, TocAnswers
  <2>2. AnswerIn(m.alias, m.rel) = TocsAnswer(tocs, m.alias, m.rel)
    BY AnswersOfTocs
  <2> QED BY <1>9, <2>1, <2>2
<1>12. TreeAnswer(t, m.rel) = TableAnswer(table, name)
  BY <1>4, <1>10 DEF TreeAnswer, FilesIn
<1>13. TableAnswer(table, name) # {}
  <2> HIDE DEF t, table
  <2>1. Position(table, name) # 0
    BY <1>6, <1>7, PositionFound
  <2> QED BY <2>1 DEF TableAnswer
<1> QED BY <1>10, <1>11, <1>12, <1>13

(***************************************************************************)
(* The built archive holds what the project declares, each member once,    *)
(* and nothing else: a burned source overrides a pushed file, the last of  *)
(* several burned ones counts, and the first of several pushed ones.       *)
(***************************************************************************)
THEOREM BuildsAsDeclared == Spec => []BuiltAsDeclared
<1>1. BuildSound /\ AnswersSound => BuiltAsDeclared
  <2> SUFFICES ASSUME BuildSound, AnswersSound, stage = Built
               PROVE  /\ \A m \in Members : Declared(m.alias, m.rel) # {}
                      /\ \A m \in Members \cup Pushes \cup Burns :
                           /\ Cardinality(AnswerIn(m.alias, m.rel)) = 1
                           /\ AnswerIn(m.alias, m.rel) \subseteq Declared(m.alias, m.rel)
    BY DEF BuiltAsDeclared
  <2>1. project \in Projects /\ GoodTocs(tocs)
    BY DEF BuildSound, WalkSound, TreesSound
  <2>2. \A m \in Members : m.rel \in Paths /\ AnswerIn(m.alias, m.rel) # {}
    BY <2>1, MembersAnswer
  <2>3. \A m \in Pushes \cup Burns : m.rel \in Paths
    BY <2>1, DeclaredPaths
  <2>4. \A alias : \A rel \in Paths : Chosen(Pushes, Burns, alias, rel, AnswerIn(alias, rel))
    BY BuiltChosen
  <2>5. \A m \in Pushes \cup Burns : AnswerIn(m.alias, m.rel) # {}
    BY <2>3, <2>4, ChosenIsDeclared
  <2>6. ASSUME NEW m \in Members \cup Pushes \cup Burns
        PROVE  /\ Cardinality(AnswerIn(m.alias, m.rel)) = 1
               /\ AnswerIn(m.alias, m.rel) \subseteq Declared(m.alias, m.rel)
    <3>1. m.rel \in Paths /\ AnswerIn(m.alias, m.rel) # {}
      BY <2>2, <2>3, <2>5
    <3>2. Chosen(Pushes, Burns, m.alias, m.rel, AnswerIn(m.alias, m.rel))
      BY <2>4, <3>1
    <3> QED BY <3>1, <3>2, ChosenIsDeclared
  <2>7. \A m \in Members : Declared(m.alias, m.rel) # {}
    <3> SUFFICES ASSUME NEW m \in Members PROVE Declared(m.alias, m.rel) # {}
      OBVIOUS
    <3>1. AnswerIn(m.alias, m.rel) # {} /\ AnswerIn(m.alias, m.rel) \subseteq Declared(m.alias, m.rel)
      BY <2>2, <2>6
    <3> QED BY <3>1
  <2> QED BY <2>6, <2>7
<1> QED BY <1>1, InitSound, BuildStepSound, AnswersInit, AnswersStep, PTL DEF Spec

=============================================================================
