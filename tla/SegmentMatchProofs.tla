------------------------- MODULE SegmentMatchProofs -------------------------
(***************************************************************************)
(* The loop of seg_match answers right, for patterns and segments of every *)
(* length.  What a match is, Ends says position by position; the proof     *)
(* reasons about whole matches instead, the cuts: functions that say how   *)
(* far in the segment each prefix of the pattern reaches.  Going back to   *)
(* the last star alone is enough, because every cut reaches the end of     *)
(* that star no earlier than the loop does.                                *)
(***************************************************************************)
EXTENDS SegmentMatch, FiniteSetTheorems, WellFoundedInduction, TLAPS

(***************************************************************************)
(* Every nonempty set of naturals has a least element.  The library's      *)
(* induction theorems cannot be instantiated here, so it is drawn from the *)
(* well-foundedness of strict inclusion among the intervals 0..m.          *)
(***************************************************************************)
LEMMA LeastNatural ==
  ASSUME NEW S, S \subseteq Nat, S # {}
  PROVE  \E n \in S : \A m \in S : n <= m
<1>1. PICK b \in S : TRUE
  OBVIOUS
<1> DEFINE T == {0 .. m : m \in {x \in S : x <= b}}
           R == StrictSubsetOrdering(0 .. b)
<1>2. IsFiniteSet(0 .. b)
  BY FS_Interval
<1>3. IsWellFoundedOn(R, SUBSET (0 .. b))
  BY <1>2, FS_StrictSubsetOrderingWellFounded, FS_FiniteSubsetsOfFinite
<1>4. T \subseteq SUBSET (0 .. b) /\ T # {}
  BY <1>1
<1>5. PICK X \in T : \A Y \in T : <<Y, X>> \notin R
  <2> HIDE DEF T, R
  <2> QED BY <1>3, <1>4, WFMin
<1>6. PICK n \in S : n <= b /\ X = 0 .. n
  BY <1>5
<1>7. ASSUME NEW m \in S, m < n
      PROVE  FALSE
  <2>1. 0 .. m \in T
    BY <1>6, <1>7
  <2>2. 0 .. m \subseteq 0 .. n /\ 0 .. m # 0 .. n
    <3>1. n \in 0 .. n /\ n \notin 0 .. m
      BY <1>7
    <3> QED BY <1>7, <3>1
  <2>3. <<0 .. m, 0 .. n>> \in R
    BY <2>1, <2>2, <1>4, <1>5, <1>6 DEF StrictSubsetOrdering
  <2> QED BY <1>5, <1>6, <2>1, <2>3
<1> QED BY <1>7

-----------------------------------------------------------------------------
Chars == Letters \cup {Star, Any}

-----------------------------------------------------------------------------
(* The recursive function Ends *)

\* The ends of one more character of the pattern, given those before it.
EndsAfter(p, s, m, before) ==
  IF p[m] = Star
  THEN {n \in 0 .. Len(s) : \E k \in before : k <= n}
  ELSE {n \in 1 .. Len(s) : n - 1 \in before /\ (p[m] = Any \/ Fold[p[m]] = Fold[s[n]])}

IsEnds(p, s, i, h) ==
  h = [m \in 0 .. i |-> IF m = 0 THEN {0} ELSE EndsAfter(p, s, m, h[m - 1])]

LEMMA EndsExist ==
  ASSUME NEW p, NEW s, NEW i \in Nat
  PROVE  \E h : IsEnds(p, s, i, h)
<1> DEFINE Lacking == {n \in Nat : ~ \E h : IsEnds(p, s, n, h)}
<1> SUFFICES ASSUME Lacking # {} PROVE FALSE
  OBVIOUS
<1>1. PICK n \in Lacking : \A m \in Lacking : n <= m
  BY LeastNatural
<1>2. n # 0
  <2>1. IsEnds(p, s, 0, [m \in 0 .. 0 |-> {0}])
    BY DEF IsEnds
  <2> QED BY <2>1
<1>3. PICK h : IsEnds(p, s, n - 1, h)
  <2>1. n - 1 \in Nat /\ n - 1 \notin Lacking
    BY <1>1, <1>2
  <2> QED BY <2>1
<1> DEFINE g == [m \in 0 .. n |-> IF m = n THEN EndsAfter(p, s, n, h[n - 1]) ELSE h[m]]
<1>4. IsEnds(p, s, n, g)
  <2>1. \A m \in 0 .. n - 1 : g[m] = h[m]
    BY <1>1
  <2>2. \A m \in 0 .. n - 1 : h[m] = IF m = 0 THEN {0} ELSE EndsAfter(p, s, m, h[m - 1])
    BY <1>3 DEF IsEnds
  <2>3. ASSUME NEW m \in 0 .. n
        PROVE  g[m] = IF m = 0 THEN {0} ELSE EndsAfter(p, s, m, g[m - 1])
    <3>1. CASE m = n
      <4>1. g[m] = EndsAfter(p, s, n, h[n - 1])
        BY <3>1
      <4>2. g[n - 1] = h[n - 1]
        BY <2>1, <1>1, <1>2
      <4> QED BY <4>1, <4>2, <3>1, <1>2
    <3>2. CASE m # n
      <4>1. m \in 0 .. n - 1
        BY <3>2, <1>1
      <4>2. m # 0 => g[m - 1] = h[m - 1]
        BY <4>1, <2>1, <1>1
      <4> HIDE DEF g
      <4> QED BY <4>1, <4>2, <2>1, <2>2
    <3> QED BY <3>1, <3>2
  <2> QED BY <2>3 DEF IsEnds
<1> HIDE DEF g
<1> QED BY <1>1, <1>4

LEMMA EndsUnfold ==
  ASSUME NEW p, NEW s, Len(p) \in Nat
  PROVE  IsEnds(p, s, Len(p), Ends(p, s))
<1>1. \E h : IsEnds(p, s, Len(p), h)
  BY EndsExist
<1> QED BY <1>1 DEF Ends, IsEnds, EndsAfter

\* Ends, one character of the pattern at a time.
LEMMA EndsRule ==
  ASSUME NEW p \in Seq(Chars), NEW s \in Seq(Letters)
  PROVE  /\ Ends(p, s)[0] = {0}
         /\ \A m \in 1 .. Len(p) : \A n : n \in Ends(p, s)[m] <=>
              /\ n \in 0 .. Len(s)
              /\ IF p[m] = Star THEN \E k \in Ends(p, s)[m - 1] : k <= n
                 ELSE /\ n > 0 /\ n - 1 \in Ends(p, s)[m - 1]
                      /\ TakesOne(p[m], s[n])
<1> DEFINE e == Ends(p, s)
<1>1. Len(p) \in Nat /\ Len(s) \in Nat
  OBVIOUS
<1>2. IsEnds(p, s, Len(p), e)
  BY <1>1, EndsUnfold
<1> HIDE DEF e
<1>3. e[0] = {0}
  BY <1>1, <1>2 DEF IsEnds
<1>4. ASSUME NEW m \in 1 .. Len(p)
      PROVE  e[m] = EndsAfter(p, s, m, e[m - 1])
  <2> DEFINE F(x) == IF x = 0 THEN {0} ELSE EndsAfter(p, s, x, e[x - 1])
  <2>1. m \in 0 .. Len(p) /\ m # 0
    BY <1>1
  <2>2. e = [x \in 0 .. Len(p) |-> F(x)]
    BY <1>2 DEF IsEnds
  <2>3. e[m] = F(m)
    <3> HIDE DEF F
    <3> QED BY <2>1, <2>2, Zenon
  <2> QED BY <2>1, <2>3
<1>5. ASSUME NEW m \in 1 .. Len(p), NEW n
      PROVE  n \in e[m] <=>
              /\ n \in 0 .. Len(s)
              /\ IF p[m] = Star THEN \E k \in e[m - 1] : k <= n
                 ELSE n > 0 /\ n - 1 \in e[m - 1] /\ TakesOne(p[m], s[n])
  <2>1. CASE p[m] = Star
    BY <1>4, <2>1 DEF EndsAfter
  <2>2. CASE p[m] # Star
    <3>1. e[m] = {x \in 1 .. Len(s) : x - 1 \in e[m - 1] /\ TakesOne(p[m], s[x])}
      BY <1>4, <2>2 DEF EndsAfter, TakesOne
    <3>2. \A x : x \in 1 .. Len(s) <=> (x \in 0 .. Len(s) /\ x > 0)
      BY <1>1
    <3> QED BY <3>1, <3>2, <2>2
  <2> QED BY <2>1, <2>2
<1> QED BY <1>3, <1>5 DEF e

-----------------------------------------------------------------------------
(* Cuts *)

\* f[m] is how far the first m characters of the pattern reach, for m up to i.
Cuts(p, s, i) ==
  {f \in [0 .. i -> 0 .. Len(s)] :
     /\ f[0] = 0
     /\ \A m \in 1 .. i : IF p[m] = Star THEN f[m - 1] <= f[m]
                          ELSE f[m] = f[m - 1] + 1 /\ TakesOne(p[m], s[f[m]])}

WholeCuts == {f \in Cuts(pattern, segment, Len(pattern)) : f[Len(pattern)] = Len(segment)}

LEMMA CutExists ==
  ASSUME NEW p \in Seq(Chars), NEW s \in Seq(Letters), NEW i \in 0 .. Len(p), NEW n \in Ends(p, s)[i]
  PROVE  \E f \in Cuts(p, s, i) : f[i] = n
<1> DEFINE e == Ends(p, s)
           Cut(l) == \A k \in e[l] : \E f \in Cuts(p, s, l) : f[l] = k
           Lacking == {l \in 0 .. Len(p) : ~ Cut(l)}
<1>1. Len(p) \in Nat /\ Len(s) \in Nat
  OBVIOUS
<1>2. /\ e[0] = {0}
      /\ \A m \in 1 .. Len(p) : \A k : k \in e[m] <=>
              /\ k \in 0 .. Len(s)
              /\ IF p[m] = Star THEN \E l \in e[m - 1] : l <= k
                 ELSE k > 0 /\ k - 1 \in e[m - 1] /\ TakesOne(p[m], s[k])
  BY EndsRule
<1> HIDE DEF e
<1> SUFFICES ASSUME Lacking # {} PROVE FALSE
  BY DEF e
<1>3. PICK l \in Lacking : \A m \in Lacking : l <= m
  <2>1. Lacking \subseteq Nat
    BY <1>1
  <2> QED BY <2>1, LeastNatural
<1>4. l # 0
  <2>1. [m \in 0 .. 0 |-> 0] \in Cuts(p, s, 0)
    BY <1>1 DEF Cuts
  <2> QED BY <1>2, <2>1
<1>5. Cut(l - 1)
  BY <1>1, <1>3, <1>4
<1>6. ASSUME NEW k \in e[l]
      PROVE  \E f \in Cuts(p, s, l) : f[l] = k
  <2>1. PICK b \in e[l - 1] : IF p[l] = Star THEN b <= k ELSE k = b + 1 /\ TakesOne(p[l], s[k])
    <3>1. l \in 1 .. Len(p) /\ k \in e[l]
      BY <1>3, <1>4, <1>6
    <3>2. CASE p[l] = Star
      BY <1>2, <3>1, <3>2
    <3>3. CASE p[l] # Star
      <4>1. k \in 0 .. Len(s) /\ k > 0 /\ k - 1 \in e[l - 1] /\ TakesOne(p[l], s[k])
        BY <1>2, <3>1, <3>3
      <4>2. k = (k - 1) + 1
        BY <4>1, <1>1
      <4> QED BY <3>3, <4>1, <4>2
    <3> QED BY <3>2, <3>3
  <2>2. PICK f \in Cuts(p, s, l - 1) : f[l - 1] = b
    BY <1>5, <2>1
  <2>3. k \in 0 .. Len(s)
    BY <1>2, <1>3, <1>4
  <2> DEFINE g == [m \in 0 .. l |-> IF m = l THEN k ELSE f[m]]
  <2>4. /\ f \in [0 .. l - 1 -> 0 .. Len(s)] /\ f[0] = 0
        /\ \A m \in 1 .. l - 1 : IF p[m] = Star THEN f[m - 1] <= f[m]
                                 ELSE f[m] = f[m - 1] + 1 /\ TakesOne(p[m], s[f[m]])
    BY <2>2 DEF Cuts
  <2>5. l \in Nat /\ l - 1 \in 0 .. l /\ l - 1 # l /\ \A m \in 1 .. l - 1 : m # l /\ m \in 0 .. l /\ m - 1 # l /\ m - 1 \in 0 .. l
    BY <1>3, <1>4, <1>1
  <2>6. g \in [0 .. l -> 0 .. Len(s)]
    BY <2>3, <2>4, <2>5
  <2>7. g[0] = 0 /\ g[l] = k /\ g[l - 1] = b
    BY <2>2, <2>4, <2>5, <1>4
  <2>8. \A m \in 1 .. l - 1 : g[m] = f[m] /\ g[m - 1] = f[m - 1]
    BY <2>5
  <2>9. ASSUME NEW m \in 1 .. l
        PROVE  IF p[m] = Star THEN g[m - 1] <= g[m] ELSE g[m] = g[m - 1] + 1 /\ TakesOne(p[m], s[g[m]])
    <3> HIDE DEF g
    <3>1. CASE m = l
      BY <3>1, <2>1, <2>7
    <3>2. CASE m \in 1 .. l - 1
      BY <3>2, <2>4, <2>8
    <3> QED BY <3>1, <3>2, <2>5
  <2>10. g \in Cuts(p, s, l)
    <3> HIDE DEF g
    <3> QED BY <2>6, <2>7, <2>9 DEF Cuts
  <2> QED BY <2>7, <2>10
<1> QED BY <1>3, <1>6

\* A cut reaches further with every character but a star, and never back.
LEMMA CutRises ==
  ASSUME NEW p \in Seq(Chars), NEW s \in Seq(Letters), NEW f \in Cuts(p, s, Len(p)),
         NEW a \in 0 .. Len(p), NEW b \in a .. Len(p)
  PROVE  /\ f[a] <= f[b]
         /\ (\A k \in a + 1 .. b : p[k] # Star) => f[b] = f[a] + (b - a)
<1>1. Len(p) \in Nat /\ Len(s) \in Nat
  OBVIOUS
<1>2. \A x \in 0 .. Len(p) : f[x] \in Nat
  <2>1. f \in [0 .. Len(p) -> 0 .. Len(s)]
    BY DEF Cuts
  <2> QED BY <1>1, <2>1
<1>2a. \A m \in 1 .. Len(p) : IF p[m] = Star THEN f[m - 1] <= f[m] ELSE f[m] = f[m - 1] + 1
  BY DEF Cuts
<1> DEFINE Rises(c) == /\ f[a] <= f[c]
                       /\ (\A k \in a + 1 .. c : p[k] # Star) => f[c] = f[a] + (c - a)
           Lacking == {c \in a .. Len(p) : ~ Rises(c)}
<1> SUFFICES ASSUME Lacking # {} PROVE FALSE
  OBVIOUS
<1>3. PICK c \in Lacking : \A m \in Lacking : c <= m
  <2>1. Lacking \subseteq Nat
    BY <1>1
  <2> QED BY <2>1, LeastNatural
<1>4. c # a
  <2>1. Rises(a)
    <3>1. f[a] \in Nat /\ a \in Nat
      BY <1>1, <1>2
    <3> QED BY <3>1
  <2> QED BY <2>1, <1>3
<1>5. c - 1 \in a .. Len(p) /\ c \in 1 .. Len(p) /\ c - 1 \in 0 .. Len(p) /\ c \in 0 .. Len(p)
  BY <1>1, <1>3, <1>4
<1>6. Rises(c - 1)
  BY <1>1, <1>3, <1>5
<1>7. f[c] \in Nat /\ f[c - 1] \in Nat /\ f[a] \in Nat
  BY <1>2, <1>5
<1>8. f[a] <= f[c]
  <2>1. f[c - 1] <= f[c]
    <3>1. CASE p[c] = Star
      BY <1>2a, <1>5, <3>1
    <3>2. CASE p[c] # Star
      <4>1. f[c] = f[c - 1] + 1
        BY <1>2a, <1>5, <3>2
      <4> QED BY <4>1, <1>7
    <3> QED BY <3>1, <3>2
  <2> QED BY <2>1, <1>6, <1>7
<1>9. ASSUME \A k \in a + 1 .. c : p[k] # Star
      PROVE  f[c] = f[a] + (c - a)
  <2>1. p[c] # Star /\ \A k \in a + 1 .. c - 1 : p[k] # Star
    BY <1>9, <1>5, <1>3, <1>4
  <2>2. f[c] = f[c - 1] + 1
    BY <2>1, <1>2a, <1>5
  <2>3. f[c - 1] = f[a] + ((c - 1) - a)
    BY <2>1, <1>6
  <2> QED BY <2>2, <2>3, <1>5, <1>7
<1> QED BY <1>3, <1>8, <1>9

\* Stars at the end of a pattern match nothing more.
LEMMA StarsStay ==
  ASSUME NEW p \in Seq(Chars), NEW s \in Seq(Letters), NEW a \in 0 .. Len(p), NEW n \in Ends(p, s)[a],
         n \in 0 .. Len(s), \A k \in a + 1 .. Len(p) : p[k] = Star
  PROVE  n \in Ends(p, s)[Len(p)]
<1> DEFINE e == Ends(p, s)
           Lacking == {c \in a .. Len(p) : n \notin e[c]}
<1>1. Len(p) \in Nat /\ Len(s) \in Nat
  OBVIOUS
<1>2. ASSUME NEW m \in 1 .. Len(p), p[m] = Star, n \in e[m - 1]
      PROVE  n \in e[m]
  <2>1. n <= n
    BY <1>1
  <2>2. \E k \in e[m - 1] : k <= n
    BY <1>2, <2>1
  <2> QED BY <1>2, <2>2, EndsRule
<1> HIDE DEF e
<1> SUFFICES ASSUME Lacking # {} PROVE FALSE
  BY <1>1 DEF e
<1>3. PICK c \in Lacking : \A m \in Lacking : c <= m
  <2>1. Lacking \subseteq Nat
    BY <1>1
  <2> QED BY <2>1, LeastNatural
<1>4. c # a
  BY <1>3 DEF e
<1>5. c - 1 \in a .. Len(p) /\ c - 1 \notin Lacking /\ c \in 1 .. Len(p) /\ c \in a + 1 .. Len(p)
  BY <1>1, <1>3, <1>4
<1> QED BY <1>2, <1>3, <1>5

-----------------------------------------------------------------------------
(* The loop *)

\* Since the last star, or since the start where there is none, the loop has
\* taken one character of each string at a time; and no match needs that star
\* to have taken less than it has.
LoopInv ==
  /\ pattern \in Seq(Chars) /\ segment \in Seq(Letters)
  /\ TypeOK
  /\ BehindMatches
  /\ star = None => pi = si /\ \A k \in 1 .. pi : pattern[k] # Star
  /\ star # None => /\ pi - (star + 1) = si - mark
                    /\ \A k \in star + 2 .. pi : pattern[k] # Star
                    /\ \A f \in WholeCuts : mark <= f[star + 1]
  /\ AnswersRight

LEMMA StringsTyped ==
  ASSUME NEW chars, NEW max \in Nat, NEW s \in Strings(chars, max)
  PROVE  s \in Seq(chars)
BY DEF Strings

LEMMA LoopStarts == Init => LoopInv
<1> SUFFICES ASSUME Init PROVE LoopInv
  OBVIOUS
<1>1. pattern \in Seq(Chars) /\ segment \in Seq(Letters)
  BY StringsTyped, LettersAssumption DEF Init, Chars
<1>2. Len(pattern) \in Nat /\ Len(segment) \in Nat
  BY <1>1
<1>3. TypeOK
  BY <1>2 DEF Init, TypeOK, None
<1>4. Ends(pattern, segment)[0] = {0}
  BY <1>1, EndsRule
<1>5. BehindMatches
  BY <1>4 DEF Init, BehindMatches, Matched, None
<1>6. AnswersRight
  BY DEF Init, AnswersRight
<1> QED BY <1>1, <1>3, <1>5, <1>6 DEF Init, LoopInv, None

\* Every match has come at least as far as the loop, and exactly as far where
\* the last star, if there is one, takes what the loop has given it.
LEMMA CutsReach ==
  ASSUME LoopInv, NEW f \in WholeCuts
  PROVE  /\ f[pi] \in Nat /\ si <= f[pi]
         /\ star = None => f[pi] = si
         /\ star # None => f[star + 1] \in Nat /\ f[pi] - f[star + 1] = si - mark
<1>1. /\ pattern \in Seq(Chars) /\ segment \in Seq(Letters)
      /\ Len(pattern) \in Nat /\ Len(segment) \in Nat
      /\ pi \in 0 .. Len(pattern) /\ si \in 0 .. Len(segment) /\ mark \in 0 .. si
      /\ star \in {None} \cup 0 .. pi - 1
  BY DEF LoopInv, TypeOK
<1>2. /\ f \in Cuts(pattern, segment, Len(pattern))
      /\ f \in [0 .. Len(pattern) -> 0 .. Len(segment)] /\ f[0] = 0
  BY DEF WholeCuts, Cuts
<1>3. f[pi] \in Nat
  BY <1>1, <1>2
<1>4. CASE star = None
  <2>1. f[pi] = f[0] + (pi - 0)
    <3>1. \A k \in 0 + 1 .. pi : pattern[k] # Star
      BY <1>1, <1>4 DEF LoopInv
    <3>2. 0 \in 0 .. Len(pattern) /\ pi \in 0 .. Len(pattern)
      BY <1>1
    <3> QED BY <3>1, <3>2, <1>1, <1>2, CutRises
  <2>2. f[pi] = si
    BY <2>1, <1>1, <1>2, <1>4 DEF LoopInv
  <2> QED BY <2>2, <1>1, <1>3, <1>4
<1>5. CASE star # None
  <2>1. star \in Nat /\ star + 1 \in 0 .. Len(pattern) /\ pi \in star + 1 .. Len(pattern)
    BY <1>1, <1>5 DEF None
  <2>2. f[star + 1] \in Nat
    BY <1>1, <1>2, <2>1
  <2>3. \A k \in (star + 1) + 1 .. pi : pattern[k] # Star
    BY <2>1, <1>5, <1>1 DEF LoopInv
  <2>4. f[pi] = f[star + 1] + (pi - (star + 1))
    BY <2>1, <2>3, <1>1, <1>2, CutRises
  <2>5. pi - (star + 1) = si - mark /\ mark <= f[star + 1]
    BY <1>5 DEF LoopInv
  <2> QED BY <2>1, <2>2, <2>4, <2>5, <1>1, <1>3, <1>5
<1> QED BY <1>4, <1>5

\* Where the loop is stuck no match passes.
LEMMA StuckCuts ==
  ASSUME LoopInv, Running, Stuck, NEW f \in WholeCuts
  PROVE  f[pi] # si
<1>1. /\ pattern \in Seq(Chars) /\ segment \in Seq(Letters)
      /\ Len(pattern) \in Nat /\ Len(segment) \in Nat
      /\ pi \in 0 .. Len(pattern) /\ si \in 0 .. Len(segment) /\ si < Len(segment)
  BY DEF LoopInv, TypeOK, Running
<1>2. /\ f[Len(pattern)] = Len(segment)
      /\ \A m \in 1 .. Len(pattern) :
           IF pattern[m] = Star THEN f[m - 1] <= f[m]
           ELSE f[m] = f[m - 1] + 1 /\ TakesOne(pattern[m], segment[f[m]])
  BY DEF WholeCuts, Cuts
<1>3. CASE pi = Len(pattern)
  BY <1>1, <1>2, <1>3
<1>4. CASE pi < Len(pattern)
  <2>1. pattern[pi + 1] # Star /\ ~ TakesOne(pattern[pi + 1], segment[si + 1])
    BY <1>4 DEF Stuck, MeetsStar, Advances
  <2>2. pi + 1 \in 1 .. Len(pattern) /\ (pi + 1) - 1 = pi
    BY <1>1, <1>4
  <2>3. f[pi + 1] = f[pi] + 1 /\ TakesOne(pattern[pi + 1], segment[f[pi + 1]])
    BY <1>2, <2>1, <2>2
  <2> QED BY <2>1, <2>3
<1> QED BY <1>1, <1>3, <1>4

LEMMA MatchedHasCut ==
  ASSUME LoopInv, Matched(Len(pattern), Len(segment))
  PROVE  WholeCuts # {}
<1>1. /\ pattern \in Seq(Chars) /\ segment \in Seq(Letters) /\ Len(pattern) \in 0 .. Len(pattern)
      /\ Len(segment) \in Ends(pattern, segment)[Len(pattern)]
  BY DEF LoopInv, Matched
<1> QED BY <1>1, CutExists DEF WholeCuts

-----------------------------------------------------------------------------
(* The steps *)

LEMMA AdvanceKeeps ==
  ASSUME LoopInv, Advance
  PROVE  LoopInv'
<1>1. /\ pattern \in Seq(Chars) /\ segment \in Seq(Letters)
      /\ Len(pattern) \in Nat /\ Len(segment) \in Nat
      /\ pi \in 0 .. Len(pattern) /\ si \in 0 .. Len(segment) /\ mark \in 0 .. si
      /\ star \in {None} \cup 0 .. pi - 1
      /\ si < Len(segment) /\ pi < Len(pattern) /\ TakesOne(pattern[pi + 1], segment[si + 1])
      /\ pi' = pi + 1 /\ si' = si + 1
      /\ UNCHANGED <<pattern, segment, star, mark, answer>> /\ answer = "open"
  BY DEF LoopInv, TypeOK, Advance, Running, Advances
<1>2. TypeOK'
  BY <1>1 DEF TypeOK, None
<1>3. pattern[pi + 1] # Star
  <2>1. segment[si + 1] \in Letters
    BY <1>1
  <2>2. Fold[segment[si + 1]] # Star /\ Fold[Star] = Star /\ Star # Any
    BY <2>1, LettersAssumption DEF Star, Any
  <2> QED BY <1>1, <2>2 DEF TakesOne
<1>4. si + 1 \in Ends(pattern, segment)[pi + 1]
  <2>1. pi + 1 \in 1 .. Len(pattern) /\ (pi + 1) - 1 = pi /\ (si + 1) - 1 = si
        /\ si + 1 \in 0 .. Len(segment) /\ si + 1 > 0
    BY <1>1
  <2>2. si \in Ends(pattern, segment)[pi]
    BY DEF LoopInv, BehindMatches, Matched
  <2> QED BY <1>1, <1>3, <2>1, <2>2, EndsRule
<1>5. BehindMatches'
  BY <1>1, <1>4 DEF LoopInv, BehindMatches, Matched
<1>6. star = None => pi + 1 = si + 1 /\ \A k \in 1 .. pi + 1 : pattern[k] # Star
  <2>1. \A k \in 1 .. pi + 1 : k \in 1 .. pi \/ k = pi + 1
    BY <1>1
  <2> QED BY <2>1, <1>1, <1>3 DEF LoopInv
<1>7. star # None => /\ (pi + 1) - (star + 1) = (si + 1) - mark
                     /\ \A k \in star + 2 .. pi + 1 : pattern[k] # Star
                     /\ \A f \in WholeCuts : mark <= f[star + 1]
  <2>1. star # None => \A k \in star + 2 .. pi + 1 : k \in star + 2 .. pi \/ k = pi + 1
    BY <1>1
  <2>2. star # None => star \in Nat
    BY <1>1
  <2> QED BY <2>1, <2>2, <1>1, <1>3 DEF LoopInv
<1>8. WholeCuts' = WholeCuts
  BY <1>1 DEF WholeCuts
<1> QED BY <1>1, <1>2, <1>5, <1>6, <1>7, <1>8 DEF LoopInv, AnswersRight

LEMMA TakeStarKeeps ==
  ASSUME LoopInv, TakeStar
  PROVE  LoopInv'
<1>1. /\ pattern \in Seq(Chars) /\ segment \in Seq(Letters)
      /\ Len(pattern) \in Nat /\ Len(segment) \in Nat
      /\ pi \in 0 .. Len(pattern) /\ si \in 0 .. Len(segment)
      /\ pi < Len(pattern) /\ pattern[pi + 1] = Star
      /\ pi' = pi + 1 /\ star' = pi /\ mark' = si
      /\ UNCHANGED <<pattern, segment, si, answer>> /\ answer = "open"
  BY DEF LoopInv, TypeOK, TakeStar, Running, MeetsStar
<1>2. TypeOK'
  BY <1>1 DEF TypeOK
<1>3. si \in Ends(pattern, segment)[pi + 1]
  <2>1. pi + 1 \in 1 .. Len(pattern) /\ (pi + 1) - 1 = pi /\ si <= si
    BY <1>1
  <2>2. si \in Ends(pattern, segment)[pi]
    BY DEF LoopInv, BehindMatches, Matched
  <2> QED BY <1>1, <2>1, <2>2, EndsRule
<1>4. BehindMatches'
  BY <1>1, <1>3 DEF BehindMatches, Matched
<1>5. star' # None
  BY <1>1 DEF None
<1>6. ASSUME NEW f \in WholeCuts
      PROVE  si <= f[pi + 1]
  <2>1. f[pi] \in Nat /\ si <= f[pi]
    BY CutsReach
  <2>2. f \in [0 .. Len(pattern) -> 0 .. Len(segment)] /\ f[(pi + 1) - 1] <= f[pi + 1]
    <3>1. pi + 1 \in 1 .. Len(pattern)
      BY <1>1
    <3> QED BY <1>1, <3>1 DEF WholeCuts, Cuts
  <2>3. f[pi + 1] \in Nat /\ (pi + 1) - 1 = pi
    BY <1>1, <2>2
  <2> QED BY <2>1, <2>2, <2>3, <1>1
<1>7. WholeCuts' = WholeCuts
  BY <1>1 DEF WholeCuts
<1>8. (pi + 1) - (pi + 1) = si - si /\ \A k \in pi + 2 .. pi + 1 : pattern[k] # Star
  BY <1>1
<1> QED BY <1>1, <1>2, <1>4, <1>5, <1>6, <1>7, <1>8 DEF LoopInv, AnswersRight

LEMMA BacktrackKeeps ==
  ASSUME LoopInv, Backtrack
  PROVE  LoopInv'
<1>1. /\ pattern \in Seq(Chars) /\ segment \in Seq(Letters)
      /\ Len(pattern) \in Nat /\ Len(segment) \in Nat
      /\ pi \in 0 .. Len(pattern) /\ si \in 0 .. Len(segment) /\ mark \in 0 .. si
      /\ star \in 0 .. pi - 1 /\ star # None
      /\ Running /\ Stuck /\ si < Len(segment)
      /\ pi' = star + 1 /\ si' = mark + 1 /\ mark' = mark + 1
      /\ UNCHANGED <<pattern, segment, star, answer>> /\ answer = "open"
  BY DEF LoopInv, TypeOK, Backtrack, Backtracked, Running
<1>2. TypeOK'
  BY <1>1 DEF TypeOK
<1>3. mark + 1 \in Ends(pattern, segment)[star + 1]
  <2>1. star + 1 \in 1 .. Len(pattern) /\ mark + 1 \in 0 .. Len(segment)
    BY <1>1
  <2>2. mark \in Ends(pattern, segment)[star + 1] /\ pattern[star + 1] = Star
    BY <1>1 DEF LoopInv, BehindMatches, Matched
  <2>3. PICK k \in Ends(pattern, segment)[(star + 1) - 1] : k <= mark
    BY <1>1, <2>1, <2>2, EndsRule
  <2>4. k \in Int
    <3>1. (star + 1) - 1 = 0 => k = 0
      BY <1>1, <2>3, EndsRule
    <3>2. (star + 1) - 1 # 0 => k \in 0 .. Len(segment)
      <4>1. (star + 1) - 1 # 0 => (star + 1) - 1 \in 1 .. Len(pattern)
        BY <1>1
      <4> QED BY <1>1, <2>3, <4>1, EndsRule
    <3> QED BY <3>1, <3>2, <1>1
  <2>5. k <= mark + 1
    BY <2>3, <2>4, <1>1
  <2> QED BY <1>1, <2>1, <2>2, <2>3, <2>5, EndsRule
<1>4. BehindMatches'
  BY <1>1, <1>3 DEF LoopInv, BehindMatches, Matched
<1>5. ASSUME NEW f \in WholeCuts
      PROVE  mark + 1 <= f[star + 1]
  <2>1. f[pi] # si
    BY <1>1, StuckCuts
  <2>2. f[pi] \in Nat /\ f[star + 1] \in Nat /\ f[pi] - f[star + 1] = si - mark
    BY <1>1, CutsReach
  <2>3. mark <= f[star + 1]
    BY <1>1 DEF LoopInv
  <2> QED BY <2>1, <2>2, <2>3, <1>1
<1>6. WholeCuts' = WholeCuts
  BY <1>1 DEF WholeCuts
<1>7. (star + 1) - (star + 1) = (mark + 1) - (mark + 1)
      /\ \A k \in star + 2 .. star + 1 : pattern[k] # Star
  BY <1>1
<1> QED BY <1>1, <1>2, <1>4, <1>5, <1>6, <1>7 DEF LoopInv, AnswersRight

LEMMA GiveUpKeeps ==
  ASSUME LoopInv, GiveUp
  PROVE  LoopInv'
<1>1. /\ Running /\ Stuck /\ star = None /\ answer' = "no"
      /\ UNCHANGED <<pattern, segment, pi, si, star, mark>>
  BY DEF GiveUp
<1>2. WholeCuts = {}
  <2> SUFFICES ASSUME NEW f \in WholeCuts PROVE FALSE
    OBVIOUS
  <2> QED BY <1>1, CutsReach, StuckCuts
<1>3. ~ Matched(Len(pattern), Len(segment))
  BY <1>2, MatchedHasCut
<1>4. AnswersRight'
  BY <1>1, <1>3 DEF AnswersRight, Matched
<1> QED BY <1>1, <1>4 DEF LoopInv, TypeOK, BehindMatches, Matched, WholeCuts

LEMMA ConcludeKeeps ==
  ASSUME LoopInv, Conclude
  PROVE  LoopInv'
<1>1. /\ pattern \in Seq(Chars) /\ segment \in Seq(Letters)
      /\ Len(pattern) \in Nat /\ Len(segment) \in Nat
      /\ pi \in 0 .. Len(pattern) /\ si = Len(segment)
      /\ answer' = (IF OnlyStarsLeft THEN "yes" ELSE "no")
      /\ UNCHANGED <<pattern, segment, pi, si, star, mark>>
  BY DEF LoopInv, TypeOK, Conclude
<1>2. ASSUME OnlyStarsLeft
      PROVE  Matched(Len(pattern), Len(segment))
  <2>1. si \in Ends(pattern, segment)[pi] /\ si \in 0 .. Len(segment)
    BY <1>1 DEF LoopInv, BehindMatches, Matched
  <2> QED BY <1>1, <1>2, <2>1, StarsStay DEF OnlyStarsLeft, Matched
<1>3. ASSUME ~ OnlyStarsLeft, NEW f \in WholeCuts
      PROVE  FALSE
  <2>1. PICK m \in pi + 1 .. Len(pattern) : pattern[m] # Star
    BY <1>3 DEF OnlyStarsLeft
  <2>2. /\ m \in 1 .. Len(pattern) /\ m - 1 \in pi .. Len(pattern) /\ m \in 0 .. Len(pattern)
        /\ m - 1 \in 0 .. Len(pattern)
    BY <1>1
  <2>3. /\ f \in Cuts(pattern, segment, Len(pattern))
        /\ f \in [0 .. Len(pattern) -> 0 .. Len(segment)] /\ f[m] = f[m - 1] + 1
    BY <2>1, <2>2 DEF WholeCuts, Cuts
  <2>4. f[pi] <= f[m - 1]
    BY <1>1, <2>2, <2>3, CutRises
  <2>5. f[pi] \in Nat /\ si <= f[pi]
    BY CutsReach
  <2>6. f[m] \in 0 .. Len(segment) /\ f[m - 1] \in 0 .. Len(segment)
    BY <2>2, <2>3
  <2> QED BY <1>1, <2>3, <2>4, <2>5, <2>6
<1>4. ~ OnlyStarsLeft => ~ Matched(Len(pattern), Len(segment))
  BY <1>3, MatchedHasCut
<1>5. AnswersRight'
  BY <1>1, <1>2, <1>4 DEF AnswersRight, Matched
<1>6. TypeOK' /\ BehindMatches' /\ WholeCuts' = WholeCuts
  BY <1>1 DEF LoopInv, TypeOK, BehindMatches, Matched, WholeCuts
<1> QED BY <1>1, <1>5, <1>6 DEF LoopInv

LEMMA LoopInvariant == Spec => []LoopInv
<1>1. LoopInv /\ [Next]_vars => LoopInv'
  <2> SUFFICES ASSUME LoopInv, [Next]_vars PROVE LoopInv'
    OBVIOUS
  <2>1. CASE Advance BY <2>1, AdvanceKeeps
  <2>2. CASE TakeStar BY <2>2, TakeStarKeeps
  <2>3. CASE Backtrack BY <2>3, BacktrackKeeps
  <2>4. CASE GiveUp BY <2>4, GiveUpKeeps
  <2>5. CASE Conclude BY <2>5, ConcludeKeeps
  <2>6. CASE UNCHANGED vars
    BY <2>6 DEF vars, LoopInv, TypeOK, BehindMatches, Matched, WholeCuts, AnswersRight
  <2> QED BY <2>1, <2>2, <2>3, <2>4, <2>5, <2>6 DEF Next
<1> QED BY <1>1, LoopStarts, PTL DEF Spec

-----------------------------------------------------------------------------
(* Theorems *)

\* No index of the loop leaves its string, and the place it goes back to lies
\* behind it (build.rs, seg_match), for every pattern and segment.
THEOREM IndicesStayInside == Spec => []TypeOK
<1>1. LoopInv => TypeOK
  BY DEF LoopInv
<1> QED BY <1>1, LoopInvariant, PTL

\* Going back is sound: what is behind the loop always matches, and so does
\* what is behind the last star (build.rs, seg_match).
THEOREM BehindAlwaysMatches == Spec => []BehindMatches
<1>1. LoopInv => BehindMatches
  BY DEF LoopInv
<1> QED BY <1>1, LoopInvariant, PTL

\* The loop answers what the pattern means, although it only ever goes back to
\* the last star (build.rs, seg_match), whatever the lengths of the two.
THEOREM LoopAnswersRight == Spec => []AnswersRight
<1>1. LoopInv => AnswersRight
  BY DEF LoopInv
<1> QED BY <1>1, LoopInvariant, PTL

=============================================================================
