-------------------------- MODULE ExtractionProofs --------------------------
(***************************************************************************)
(* What Extraction promises, for any archives and directory, any commands  *)
(* in any order, each ended, failed or killed, and either kind of file     *)
(* system: extraction overwrites nothing (ExtractionsOverwriteNothing),    *)
(* nothing is written out of place (CommandsStayInPlace), unpack leaves    *)
(* the project file, the last member of each place and its derivatives     *)
(* (UnpackLeavesTheLast), and extract leaves of each path the member       *)
(* extract-member finds under its first spelling (SuccessAgreesWithLookup).*)
(*                                                                         *)
(* UnderWay says what the command under way is about.  UnpackGoesOn and    *)
(* ExtractGoesOn say how far the loops of unpack and of extract have come: *)
(* what has been visited is what the list had before what is left of it,   *)
(* and of that the files are in place.                                     *)
(***************************************************************************)
EXTENDS Extraction, ArchiveTreeProofs

FilesKept ==
  /\ DOMAIN disk \subseteq DOMAIN disk'
  /\ \A at \in DOMAIN disk : disk[at] = disk'[at]

\* A write to a path that is not taken adds a file.
LEMMA PutKeeps ==
  ASSUME NEW path, NEW content, ~ Taken(path), disk' = Put(path, content)
  PROVE  FilesKept
<1>1. Spot(path) \notin DOMAIN disk
  BY DEF Taken
<1>2. disk' = [at \in DOMAIN disk \cup {Spot(path)} |->
                 IF at = Spot(path) THEN content ELSE disk[at]]
  BY DEF Put
<1> QED BY <1>1, <1>2 DEF FilesKept

LEMMA SameDiskKeeps == UNCHANGED disk => FilesKept
  BY DEF FilesKept

\* What extract-member and extract are about to write is never there: the check
\* is made of the very path, in the spelling the file system reads it in.
LEMMA WritesAreNew ==
  ASSUME phase \in {"extract", "member"}, NEW w \in Writes
  PROVE  ~ Taken(w.to)
<1>1. CASE phase = "member"
  <2>1. w \in MemberWrites(request)
    BY <1>1 DEF Writes
  <2>2. PICK file \in {f \in FindMember(archive, request.member) :
                         Decodes(f) /\ ~ Taken(request.output)} :
          w = [to |-> request.output, data |-> file.data]
    BY <2>1 DEF MemberWrites
  <2> QED BY <2>2
<1>2. CASE phase = "extract"
  <2> DEFINE s == Head(todo)
  <2>1. w \in ExtractWrites(s)
    BY <1>2 DEF Writes
  <2>2. /\ ~ Skipped(s) /\ ~ Refused(s)
        /\ w = [to |-> PathOf(s), data |-> FileOf(s).data]
    BY <2>1 DEF ExtractWrites
  <2>3. ~ Taken(PathOf(s))
    BY <2>2 DEF Refused
  <2> QED BY <2>2, <2>3
<1> QED BY <1>1, <1>2

LEMMA ExtractMemberKeeps ==
  ASSUME ExtractMember
  PROVE  FilesKept
<1>1. CASE UNCHANGED disk
  BY <1>1, SameDiskKeeps
<1>2. CASE \E w \in Writes : disk' = Put(w.to, w.data)
  BY <1>2, WritesAreNew, PutKeeps DEF ExtractMember
<1> QED BY <1>1, <1>2 DEF ExtractMember, EndAs

LEMMA ExtractNextKeeps ==
  ASSUME ExtractNext
  PROVE  FilesKept
<1> DEFINE s == Head(todo)
<1>1. CASE UNCHANGED disk
  BY <1>1, SameDiskKeeps
<1>2. CASE Writes # {} /\ disk' = Put(PathOf(s), FileOf(s).data)
  <2>1. Writes = ExtractWrites(s)
    BY DEF ExtractNext, Writes
  <2>2. ~ Skipped(s) /\ ~ Refused(s)
    BY <1>2, <2>1 DEF ExtractWrites
  <2>3. ~ Taken(PathOf(s))
    BY <2>2 DEF Refused
  <2> QED BY <1>2, <2>3, PutKeeps
<1> QED BY <1>1, <1>2 DEF ExtractNext, EndAs

\* A command killed while it writes leaves a torn file where there was none.
LEMMA DieKeeps ==
  ASSUME phase \in {"extract", "member"}, Die
  PROVE  FilesKept
<1>1. CASE UNCHANGED disk
  BY <1>1, SameDiskKeeps
<1>2. CASE \E w \in Writes : disk' = Put(w.to, Torn)
  BY <1>2, WritesAreNew, PutKeeps
<1> QED BY <1>1, <1>2 DEF Die

\* extract and extract-member never touch a file that is there, whichever
\* command left it, and whether they end, fail or are killed.
THEOREM ExtractionsOverwriteNothing == Spec => ExtractionsKeepFiles
<1> DEFINE A == phase \in {"extract", "member"} =>
                  /\ DOMAIN disk \subseteq DOMAIN disk'
                  /\ \A at \in DOMAIN disk : disk[at] = disk'[at]
<1>1. [Next]_vars => [A]_vars
  <2> SUFFICES ASSUME Next, phase \in {"extract", "member"}
               PROVE  FilesKept
    BY DEF FilesKept
  <2>1. CASE \E r \in Requests : Begin(r)
    BY <2>1, SameDiskKeeps DEF Begin
  <2>2. CASE ExtractMember
    BY <2>2, ExtractMemberKeeps
  <2>3. CASE ExtractNext
    BY <2>3, ExtractNextKeeps
  <2>4. CASE ExtractEnd
    BY <2>4, SameDiskKeeps DEF ExtractEnd, EndAs
  <2>5. CASE UnpackNext \/ NextPass \/ Derive \/ WriteMod
    BY <2>5 DEF UnpackNext, NextPass, Derive, WriteMod
  <2>6. CASE Die
    BY <2>6, DieKeeps
  <2> QED BY <2>1, <2>2, <2>3, <2>4, <2>5, <2>6 DEF Next
<1> QED BY <1>1, PTL DEF Spec, ExtractionsKeepFiles

-----------------------------------------------------------------------------
(* The members of an archive, and their order. *)

LEMMA ImageFinite ==
  ASSUME NEW f, IsFiniteSet(DOMAIN f)
  PROVE  IsFiniteSet({f[x] : x \in DOMAIN f})
<1> DEFINE S == DOMAIN f
           T == {f[x] : x \in S}
           g == [x \in S |-> f[x]]
<1>1. g \in Surjection(S, T)
  BY DEF Surjection
<1> HIDE DEF S, T, g
<1>2. IsFiniteSet(T)
  BY <1>1, FS_Surjection DEF S
<1> QED BY <1>2 DEF S, T

LEMMA TocIs ==
  ASSUME NEW ts, IsArchive(ts)
  PROVE  /\ Len(ts) \in Nat /\ DOMAIN ts = 1 .. Len(ts)
         /\ \A i \in DOMAIN ts : i \in Nat /\ IsTree(ts[i].tree)
BY DEF IsArchive, IsToc

LEMMA SlotParts ==
  ASSUME NEW ts, IsArchive(ts), NEW s \in Slots(ts)
  PROVE  /\ s = <<s[1], s[2], s[3]>>
         /\ s[1] \in DOMAIN ts /\ s[1] \in Nat /\ IsTree(ts[s[1]].tree)
         /\ s[2] \in DOMAIN ts[s[1]].tree /\ s[2] \in Seq(Names)
         /\ s[3] \in DOMAIN ts[s[1]].tree[s[2]].files /\ s[3] \in Nat
         /\ ts[s[1]].tree[s[2]].files[s[3]] \in Files
<1>1. PICK i \in DOMAIN ts : s \in UNION {{<<i, p, k>> : k \in DOMAIN ts[i].tree[p].files} :
                                            p \in DOMAIN ts[i].tree}
  BY DEF Slots
<1>2. PICK p \in DOMAIN ts[i].tree : s \in {<<i, p, k>> : k \in DOMAIN ts[i].tree[p].files}
  BY <1>1
<1>3. PICK k \in DOMAIN ts[i].tree[p].files : s = <<i, p, k>>
  BY <1>2
<1>4. i \in Nat /\ IsTree(ts[i].tree)
  BY TocIs
<1>5. p \in Seq(Names) /\ ts[i].tree[p].files \in Seq(Files)
  BY <1>4, FolderParts
<1>6. k \in Nat /\ ts[i].tree[p].files[k] \in Files
  BY <1>5
<1> QED BY <1>3, <1>4, <1>5, <1>6

LEMMA SlotIs ==
  ASSUME NEW ts, NEW i \in DOMAIN ts, NEW p \in DOMAIN ts[i].tree,
         NEW k \in DOMAIN ts[i].tree[p].files
  PROVE  <<i, p, k>> \in Slots(ts)
<1> DEFINE below(q) == {<<i, q, l>> : l \in DOMAIN ts[i].tree[q].files}
           within == UNION {below(q) : q \in DOMAIN ts[i].tree}
<1>1. <<i, p, k>> \in below(p)
  OBVIOUS
<1>2. <<i, p, k>> \in within
  BY <1>1
<1> QED BY <1>2 DEF Slots

LEMMA SlotsFinite ==
  ASSUME NEW ts \in Archives
  PROVE  IsArchive(ts) /\ IsFiniteSet(Slots(ts))
<1>1. IsArchive(ts) /\ \A i \in DOMAIN ts : IsFiniteSet(DOMAIN ts[i].tree)
  BY ArchivesAssumption
<1>2. Len(ts) \in Nat /\ DOMAIN ts = 1 .. Len(ts) /\ \A i \in DOMAIN ts : IsTree(ts[i].tree)
  BY <1>1, TocIs
<1> DEFINE below(i, p) == {<<i, p, k>> : k \in DOMAIN ts[i].tree[p].files}
           belowOf(i)  == [p \in DOMAIN ts[i].tree |-> below(i, p)]
           within == [i \in DOMAIN ts |-> UNION {below(i, p) : p \in DOMAIN ts[i].tree}]
<1>3. ASSUME NEW i \in DOMAIN ts, NEW p \in DOMAIN ts[i].tree PROVE IsFiniteSet(below(i, p))
  <2> DEFINE f == [k \in DOMAIN ts[i].tree[p].files |-> <<i, p, k>>]
  <2>1. ts[i].tree[p].files \in Seq(Files)
    BY <1>2, FolderParts
  <2>2. DOMAIN f = 1 .. Len(ts[i].tree[p].files) /\ Len(ts[i].tree[p].files) \in Nat
    BY <2>1
  <2>3. IsFiniteSet(DOMAIN f)
    BY <2>2, FS_Interval
  <2>4. below(i, p) = {f[k] : k \in DOMAIN f}
    OBVIOUS
  <2> HIDE DEF f
  <2>5. IsFiniteSet({f[k] : k \in DOMAIN f})
    BY <2>3, ImageFinite
  <2> QED BY <2>4, <2>5
<1>4. ASSUME NEW i \in DOMAIN ts PROVE IsFiniteSet(within[i])
  <2> DEFINE g == belowOf(i)
             W == {g[p] : p \in DOMAIN g}
  <2>1. DOMAIN g = DOMAIN ts[i].tree /\ \A p \in DOMAIN g : g[p] = below(i, p)
    OBVIOUS
  <2>2. within[i] = UNION W
    <3>1. W = {below(i, p) : p \in DOMAIN ts[i].tree}
      <4> HIDE DEF g, below
      <4> QED BY <2>1
    <3>2. within[i] = UNION {below(i, p) : p \in DOMAIN ts[i].tree}
      OBVIOUS
    <3> QED BY <3>1, <3>2
  <2>3. \A p \in DOMAIN g : IsFiniteSet(g[p])
    BY <1>3, <2>1
  <2> HIDE DEF g, within
  <2>4. IsFiniteSet(DOMAIN g)
    BY <1>1, <2>1
  <2>5. IsFiniteSet(W)
    BY <2>4, ImageFinite
  <2>6. \A T \in W : IsFiniteSet(T)
    BY <2>3
  <2> HIDE DEF W
  <2> QED BY <2>2, <2>5, <2>6, FS_UNION
<1>5. DOMAIN within = DOMAIN ts /\ Slots(ts) = UNION {within[i] : i \in DOMAIN within}
  BY DEF Slots
<1> HIDE DEF within
<1> DEFINE W == {within[i] : i \in DOMAIN within}
<1>6. IsFiniteSet(DOMAIN within)
  BY <1>2, <1>5, FS_Interval
<1>7. IsFiniteSet(W)
  BY <1>6, ImageFinite
<1>8. \A T \in W : IsFiniteSet(T)
  BY <1>4, <1>5
<1> HIDE DEF W
<1>9. IsFiniteSet(UNION W)
  BY <1>7, <1>8, FS_UNION
<1> QED BY <1>1, <1>5, <1>9 DEF W

\* What comes before what in the order of files().
Precedes(ts, r, s) ==
  \/ r[1] < s[1]
  \/ r[1] = s[1] /\ DepthFirst(ts[r[1]].tree, r[2], s[2])
  \/ r[1] = s[1] /\ r[2] = s[2] /\ r[3] < s[3]

LEMMA TableOrderIs ==
  ASSUME NEW ts, NEW r \in Slots(ts), NEW s \in Slots(ts)
  PROVE  <<r, s>> \in TableOrder(ts) <=> Precedes(ts, r, s)
BY DEF TableOrder, Precedes

LEMMA TableOrderIsStrict ==
  ASSUME NEW ts, IsArchive(ts), NEW S \in SUBSET Slots(ts)
  PROVE  StrictOrder(S, TableOrder(ts))
<1>1. \A s \in S : /\ s \in Slots(ts) /\ s = <<s[1], s[2], s[3]>> /\ s[1] \in Nat /\ s[3] \in Nat
                   /\ IsTree(ts[s[1]].tree) /\ s[2] \in DOMAIN ts[s[1]].tree
  BY SlotParts
<1>2. \A r, s \in S : <<r, s>> \in TableOrder(ts) <=> Precedes(ts, r, s)
  BY TableOrderIs
<1>3. ASSUME NEW s \in S PROVE ~ Precedes(ts, s, s)
  BY <1>1, DepthFirstOrders DEF Precedes
<1>4. ASSUME NEW r \in S, NEW s \in S, r # s PROVE Precedes(ts, r, s) \/ Precedes(ts, s, r)
  <2>1. r[1] # s[1] \/ r[2] # s[2] \/ r[3] # s[3]
    BY <1>1, <1>4
  <2>2. r[1] = s[1] /\ r[2] # s[2] =>
          DepthFirst(ts[r[1]].tree, r[2], s[2]) \/ DepthFirst(ts[r[1]].tree, s[2], r[2])
    BY <1>1, DepthFirstOrders
  <2>3. r[1] \in Nat /\ s[1] \in Nat /\ r[3] \in Nat /\ s[3] \in Nat
    BY <1>1
  <2> QED BY <2>1, <2>2, <2>3 DEF Precedes
<1>5. ASSUME NEW q \in S, NEW r \in S, NEW s \in S, Precedes(ts, q, r), Precedes(ts, r, s)
      PROVE  Precedes(ts, q, s)
  <2>1. q[1] = r[1] /\ r[1] = s[1] /\ DepthFirst(ts[q[1]].tree, q[2], r[2])
          /\ DepthFirst(ts[r[1]].tree, r[2], s[2]) => DepthFirst(ts[q[1]].tree, q[2], s[2])
    BY <1>1, DepthFirstOrders
  <2>2. /\ q[1] \in Nat /\ r[1] \in Nat /\ s[1] \in Nat
        /\ q[3] \in Nat /\ r[3] \in Nat /\ s[3] \in Nat
    BY <1>1
  <2> QED BY <1>5, <2>1, <2>2 DEF Precedes
<1> QED BY <1>2, <1>3, <1>4, <1>5 DEF StrictOrder

LEMMA MembersInOrder ==
  ASSUME archive \in Archives, NEW S \in SUBSET Slots(archive)
  PROVE  /\ Members(S) \in Seq(S) /\ Len(Members(S)) \in Nat
         /\ DOMAIN Members(S) = 1 .. Len(Members(S))
         /\ \A s \in S : \E k \in DOMAIN Members(S) : Members(S)[k] = s
         /\ \A k, l \in DOMAIN Members(S) :
              k < l => Precedes(archive, Members(S)[k], Members(S)[l])
<1> DEFINE m == Members(S)
           C == Cardinality(S)
           R == TableOrder(archive)
<1>1. IsArchive(archive) /\ IsFiniteSet(Slots(archive))
  BY SlotsFinite
<1>2. IsFiniteSet(S) /\ StrictOrder(S, R)
  BY <1>1, FS_Subset, TableOrderIsStrict
<1>3. m = Enumerate(S, R)
  BY DEF Members
<1> HIDE DEF m, R
<1>4. /\ C \in Nat /\ m \in [1 .. C -> S]
      /\ \A s \in S : \E k \in 1 .. C : m[k] = s
      /\ \A k, l \in 1 .. C : k < l => <<m[k], m[l]>> \in R
  BY <1>2, <1>3, EnumerateInOrder
<1> HIDE DEF C
<1>5. m \in Seq(S) /\ DOMAIN m = 1 .. C /\ Len(m) = C
  BY <1>4, SeqDef, LenProperties
<1>6. \A k, l \in 1 .. C : k < l => Precedes(archive, m[k], m[l])
  <2> SUFFICES ASSUME NEW k \in 1 .. C, NEW l \in 1 .. C, k < l PROVE Precedes(archive, m[k], m[l])
    OBVIOUS
  <2>1. m[k] \in Slots(archive) /\ m[l] \in Slots(archive)
    BY <1>4
  <2>2. <<m[k], m[l]>> \in R
    BY <1>4
  <2> QED BY <2>1, <2>2, TableOrderIs DEF R
<1> QED BY <1>4, <1>5, <1>6 DEF m

-----------------------------------------------------------------------------
(* What no step changes. *)

LEMMA SameArchive ==
  ASSUME archive' = archive, folds' = folds
  PROVE  /\ \A path : Spot(path)' = Spot(path)
         /\ \A s : FileOf(s)' = FileOf(s) /\ PathOf(s)' = PathOf(s)
         /\ \A S : Members(S)' = Members(S)
         /\ \A r : Chosen(r)' = Chosen(r)
         /\ Written' = Written
         /\ \A n : Sources(n)' = Sources(n)
         /\ Outputs' = Outputs
         /\ ModPath' = ModPath
<1>1. \A path : Spot(path)' = Spot(path)
  BY DEF Spot
<1>2. \A s : FileOf(s)' = FileOf(s)
  BY DEF FileOf
<1>3. \A s : PathOf(s)' = PathOf(s)
  BY <1>2 DEF PathOf
<1>4. \A S : Members(S)' = Members(S)
  BY DEF Members
<1>5. \A r : Chosen(r)' = Chosen(r)
  BY <1>3 DEF Chosen
<1>6. Written' = Written
  BY <1>3, <1>4 DEF Written
<1>7. \A n : Sources(n)' = Sources(n)
  BY <1>6 DEF Sources
<1>8. Outputs' = Outputs
  BY <1>1, <1>7 DEF Outputs
<1>9. ModPath' = ModPath
  BY <1>6 DEF ModPath, ModName, LocDbs
<1> QED BY <1>1, <1>2, <1>3, <1>4, <1>5, <1>6, <1>7, <1>8, <1>9

-----------------------------------------------------------------------------
(* What is under way. *)

UnderWay ==
  /\ archive \in Archives
  /\ phase \in {"member", "extract", "unpack", "derive", "describe"} \cup Ended
  /\ phase = "member" => request \in Requests /\ request.kind = "member"
  /\ phase = "extract" =>
       /\ request \in Requests /\ request.kind = "extract"
       /\ todo \in Seq(Chosen(request))
  /\ phase = "unpack" =>
       request \in Requests /\ request.kind = "unpack" /\ pass = 0 /\ todo \in Seq(Slots(archive))
  /\ phase = "derive" =>
       /\ request \in Requests /\ request.kind = "unpack"
       /\ pass \in 1 .. Len(Derivers) /\ todo \in Seq(Sources(pass))
  /\ phase = "describe" => request \in Requests /\ request.kind = "unpack"

LEMMA WrittenIs ==
  ASSUME archive \in Archives
  PROVE  /\ DOMAIN Written = DOMAIN Members(Slots(archive)) /\ DOMAIN Written \subseteq Nat
         /\ Written \in Seq(Range(Written))
         /\ \A n \in DOMAIN Written : /\ Written[n] = PathOf(Members(Slots(archive))[n])
                                      /\ Members(Slots(archive))[n] \in Slots(archive)
         /\ \A s \in Slots(archive) : PathOf(s) \in Range(Written)
<1> DEFINE order == Members(Slots(archive))
           W == Written
<1>1. W = [n \in DOMAIN order |-> PathOf(order[n])]
  BY DEF Written
<1>2. /\ order \in Seq(Slots(archive)) /\ Len(order) \in Nat /\ DOMAIN order = 1 .. Len(order)
      /\ \A s \in Slots(archive) : \E k \in DOMAIN order : order[k] = s
  <2> DEFINE S == Slots(archive)
  <2>1. S \in SUBSET Slots(archive)
    OBVIOUS
  <2> HIDE DEF S
  <2>2. /\ Members(S) \in Seq(S) /\ Len(Members(S)) \in Nat
        /\ DOMAIN Members(S) = 1 .. Len(Members(S))
        /\ \A s \in S : \E k \in DOMAIN Members(S) : Members(S)[k] = s
    BY <2>1, MembersInOrder
  <2> QED BY <2>2 DEF S
<1> HIDE DEF order, W
<1>3. DOMAIN W = 1 .. Len(order) /\ \A n \in DOMAIN W : W[n] = PathOf(order[n])
  BY <1>1, <1>2
<1>4. \A n \in DOMAIN W : W[n] \in Range(W)
  BY DEF Range
<1>5. W \in Seq(Range(W))
  <2> DEFINE n == Len(order)
             E == Range(W)
  <2>1. W = [k \in 1 .. n |-> W[k]] /\ n \in Nat
    BY <1>1, <1>2
  <2> HIDE DEF n, E
  <2>2. \A k \in 1 .. n : W[k] \in E
    BY <1>3, <1>4 DEF n, E
  <2>3. W \in [1 .. n -> E]
    BY <2>1, <2>2
  <2>4. W \in Seq(E)
    BY <2>1, <2>3, SeqDef
  <2> QED BY <2>4 DEF E
<1>6. \A s \in Slots(archive) : PathOf(s) \in Range(W)
  BY <1>2, <1>3, <1>4
<1>7. \A n \in DOMAIN W : order[n] \in Slots(archive)
  BY <1>2, <1>3
<1> QED BY <1>2, <1>3, <1>5, <1>6, <1>7 DEF order, W

\* A pass visits the files it derives from, all of them.
LEMMA ForDeriverIs ==
  ASSUME archive \in Archives, NEW n
  PROVE  /\ ForDeriver(Written, n) \in Seq(Sources(n))
         /\ \A p \in Sources(n) : \E k \in 1 .. Len(ForDeriver(Written, n)) : ForDeriver(Written, n)[k] = p
<1> DEFINE W == Written
           S == Sources(n)
           K == {i \in DOMAIN W : Last(W[i]).key \in DOMAIN Derivers[n]}
           r == ForDeriver(W, n)
<1>1. /\ W \in Seq(Range(W)) /\ DOMAIN W = 1 .. Len(W) /\ Len(W) \in Nat
  BY WrittenIs
<1>2. r = Retain(W, K)
  BY DEF ForDeriver
<1>3. K \in SUBSET (1 .. Len(W))
  BY <1>1
<1>4. \A i \in K : W[i] \in S
  BY DEF Sources, Range
<1>5. \A p \in S : \E i \in K : W[i] = p
  BY DEF Sources, Range
<1> HIDE DEF W, S, K, r
<1>6. /\ r \in Seq(Range(W))
      /\ \A i \in K : \E k \in 1 .. Len(r) : r[k] = W[i]
      /\ \A k \in 1 .. Len(r) : \E i \in K : r[k] = W[i]
  <2> DEFINE E == Range(W)
  <2>1. W \in Seq(E)
    BY <1>1
  <2> HIDE DEF E
  <2>2. Retain(W, K) \in Seq(E)
    BY <1>3, <2>1, RetainKeeps
  <2>3. \A i \in K : \E k \in 1 .. Len(Retain(W, K)) : Retain(W, K)[k] = W[i]
    BY <1>3, <2>1, RetainKeeps
  <2>4. \A k \in 1 .. Len(Retain(W, K)) : \E i \in K : Retain(W, K)[k] = W[i]
    BY <1>3, <2>1, RetainKeeps
  <2> QED BY <1>2, <2>2, <2>3, <2>4 DEF E
<1>7. \A k \in 1 .. Len(r) : r[k] \in S
  BY <1>4, <1>6
<1>8. r \in Seq(S)
  <2>1. r = [k \in 1 .. Len(r) |-> r[k]] /\ Len(r) \in Nat
    BY <1>6
  <2>2. r \in [1 .. Len(r) -> S]
    BY <1>7, <2>1
  <2> QED BY <2>1, <2>2, SeqDef
<1>9. \A p \in S : \E k \in 1 .. Len(r) : r[k] = p
  BY <1>5, <1>6
<1> QED BY <1>8, <1>9 DEF W, S, r

LEMMA TailIs ==
  ASSUME NEW S, NEW list \in Seq(S), list # <<>>
  PROVE  Head(list) \in S /\ Tail(list) \in Seq(S)
OBVIOUS

LEMMA UnderWayFirst == Init => UnderWay
BY DEF Init, UnderWay, Ended

LEMMA UnderWayStep ==
  ASSUME UnderWay, [Next]_vars
  PROVE  UnderWay'
<1>0. archive' = archive /\ folds' = folds
  BY DEF Next, Begin, ExtractMember, ExtractNext, ExtractEnd, UnpackNext, NextPass, Derive,
         WriteMod, Die, EndAs, vars
<1>1. /\ \A r : Chosen(r)' = Chosen(r)
      /\ \A n : Sources(n)' = Sources(n)
      /\ \A S : Members(S)' = Members(S)
  BY <1>0, SameArchive
<1>2. archive' \in Archives
  BY <1>0 DEF UnderWay
<1>3. \A r : Chosen(r) \subseteq Slots(archive)
  BY DEF Chosen
<1>4. ASSUME NEW S \in SUBSET Slots(archive) PROVE Members(S) \in Seq(S)
  BY MembersInOrder DEF UnderWay
<1>5. ASSUME NEW r \in Requests, Begin(r) PROVE UnderWay'
  <2>1. r.kind \in {"member", "extract", "unpack"}
    BY RequestsAssumption
  <2>2. /\ request' = r /\ phase' = r.kind /\ pass' = 0 /\ archive' = archive
        /\ r.kind = "extract" => todo' = Members(Chosen(r))
        /\ r.kind = "unpack" => todo' = Members(Slots(archive))
    BY <1>5 DEF Begin
  <2>3. Members(Chosen(r)) \in Seq(Chosen(r)) /\ Members(Slots(archive)) \in Seq(Slots(archive))
    BY <1>3, <1>4
  <2>4. Chosen(request)' = Chosen(r)
    BY <1>1, <2>2
  <2>5. r.kind = "extract" => (todo \in Seq(Chosen(request)))'
    BY <2>2, <2>3, <2>4
  <2>6. r.kind = "unpack" => (todo \in Seq(Slots(archive)))'
    BY <2>2, <2>3
  <2> QED BY <1>2, <2>1, <2>2, <2>5, <2>6 DEF UnderWay, Ended
<1>6. ASSUME archive' = archive, request' = request, pass' = pass, todo' = todo,
             phase' = phase \/ phase' \in Ended
      PROVE  UnderWay'
  <2>1. Chosen(request)' = Chosen(request) /\ Sources(pass)' = Sources(pass)
    BY <1>1, <1>6
  <2>2. CASE phase' = phase
    BY <1>6, <2>1, <2>2 DEF UnderWay
  <2>3. CASE phase' \in Ended
    BY <1>2, <2>3 DEF UnderWay, Ended
  <2> QED BY <1>6, <2>2, <2>3
<1>7. ASSUME phase \in {"extract", "unpack", "derive"}, todo # <<>>, todo' = Tail(todo),
             archive' = archive, request' = request, pass' = pass, phase' = phase
      PROVE  UnderWay'
  <2>1. Chosen(request)' = Chosen(request) /\ Sources(pass)' = Sources(pass)
    BY <1>1, <1>7
  <2>2. phase = "extract" => todo' \in Seq(Chosen(request))
    BY <1>7, TailIs DEF UnderWay
  <2>3. phase = "unpack" => todo' \in Seq(Slots(archive))
    BY <1>7, TailIs DEF UnderWay
  <2>4. phase = "derive" => todo' \in Seq(Sources(pass))
    BY <1>7, TailIs DEF UnderWay
  <2> QED BY <1>7, <2>1, <2>2, <2>3, <2>4 DEF UnderWay
<1>8. CASE ExtractMember
  BY <1>6, <1>8 DEF ExtractMember, EndAs, Ended
<1>9. CASE ExtractNext
  BY <1>6, <1>7, <1>9 DEF ExtractNext, EndAs, Ended
<1>10. CASE ExtractEnd
  BY <1>6, <1>10 DEF ExtractEnd, EndAs, Ended
<1>11. CASE UnpackNext
  BY <1>6, <1>7, <1>11 DEF UnpackNext, EndAs, Ended
<1>12. CASE NextPass
  <2>1. CASE pass < Len(Derivers)
    <3>1. /\ phase' = "derive" /\ pass' = pass + 1 /\ todo' = ForDeriver(Written, pass + 1)
          /\ request' = request
      BY <1>12, <2>1 DEF NextPass
    <3>2. pass + 1 \in 1 .. Len(Derivers)
      <4>1. Len(Derivers) \in Nat
        BY DeriversAssumption
      <4>2. pass \in Nat
        BY <1>12 DEF NextPass, UnderWay
      <4> QED BY <2>1, <4>1, <4>2
    <3>3. ForDeriver(Written, pass + 1) \in Seq(Sources(pass + 1))
      BY ForDeriverIs DEF UnderWay
    <3>4. Sources(pass)' = Sources(pass + 1)
      BY <1>1, <3>1
    <3>5. (todo \in Seq(Sources(pass)))'
      BY <3>1, <3>3, <3>4
    <3>6. request \in Requests /\ request.kind = "unpack"
      BY <1>12 DEF NextPass, UnderWay
    <3> QED BY <1>2, <3>1, <3>2, <3>5, <3>6 DEF UnderWay
  <2>2. CASE ~ pass < Len(Derivers)
    <3>1. phase' = "describe" /\ request' = request
      BY <1>12, <2>2 DEF NextPass, EndAs
    <3>2. request \in Requests /\ request.kind = "unpack"
      BY <1>12 DEF NextPass, UnderWay
    <3> QED BY <1>2, <3>1, <3>2 DEF UnderWay
  <2> QED BY <2>1, <2>2
<1>13. CASE Derive
  BY <1>7, <1>13 DEF Derive
<1>14. CASE Die
  BY <1>6, <1>14 DEF Die, Ended
<1>15. CASE UNCHANGED vars
  BY <1>6, <1>15 DEF vars
<1>16. CASE WriteMod
  BY <1>6, <1>16 DEF WriteMod, EndAs, Ended
<1> QED BY <1>5, <1>8, <1>9, <1>10, <1>11, <1>12, <1>13, <1>14, <1>15, <1>16 DEF Next

-----------------------------------------------------------------------------
(* Nothing is written elsewhere. *)

Allowed(at) ==
  \/ \E other \in Disks : at \in DOMAIN other
  \/ at \in Outputs \cup {Spot(p) : p \in Range(Written)} \cup {Spot(ModPath)}
  \/ \E r \in Requests : r.kind = "member" /\ at = Spot(r.output)

\* Wherever the command under way writes, it may.
LEMMA WritesAreAllowed ==
  ASSUME UnderWay, NEW w \in Writes
  PROVE  Allowed(Spot(w.to))
<1>1. ASSUME NEW s \in Slots(archive), w.to = PathOf(s) PROVE Allowed(Spot(w.to))
  <2>1. PathOf(s) \in Range(Written)
    BY WrittenIs DEF UnderWay
  <2> QED BY <1>1, <2>1 DEF Allowed
<1>2. CASE phase = "member"
  <2>1. w \in MemberWrites(request)
    BY <1>2 DEF Writes
  <2>2. w.to = request.output
    BY <2>1 DEF MemberWrites
  <2>3. request \in Requests /\ request.kind = "member"
    BY <1>2 DEF UnderWay
  <2> QED BY <2>2, <2>3 DEF Allowed
<1>3. CASE phase = "extract" /\ todo # <<>>
  <2>1. w \in ExtractWrites(Head(todo))
    BY <1>3 DEF Writes
  <2>2. w.to = PathOf(Head(todo))
    BY <2>1 DEF ExtractWrites
  <2>3. Head(todo) \in Chosen(request)
    BY <1>3, TailIs DEF UnderWay
  <2>4. Head(todo) \in Slots(archive)
    BY <2>3 DEF Chosen
  <2> QED BY <1>1, <2>2, <2>4
<1>4. CASE phase = "unpack" /\ todo # <<>>
  <2>1. w \in UnpackWrites(Head(todo))
    BY <1>4 DEF Writes
  <2>2. w.to = PathOf(Head(todo))
    BY <2>1 DEF UnpackWrites
  <2>3. Head(todo) \in Slots(archive)
    BY <1>4, TailIs DEF UnderWay
  <2> QED BY <1>1, <2>2, <2>3
<1>5. CASE phase = "derive" /\ todo # <<>>
  <2> DEFINE p == Head(todo)
             to == Derivative(pass, p)
  <2>1. w \in DeriveWrites(p)
    BY <1>5 DEF Writes
  <2>2. w.to = to
    BY <2>1 DEF DeriveWrites, DerivedPath, Derivative
  <2>3. p \in Sources(pass)
    BY <1>5, TailIs DEF UnderWay
  <2>4. pass \in DOMAIN Derivers
    <3>1. DOMAIN Derivers = 1 .. Len(Derivers)
      BY DeriversAssumption
    <3> QED BY <1>5, <3>1 DEF UnderWay
  <2>5. Spot(to) \in Outputs
    BY <2>3, <2>4 DEF Outputs
  <2> QED BY <2>2, <2>5 DEF Allowed
<1>6. CASE phase = "describe"
  <2>1. w.to = ModPath
    BY <1>6 DEF Writes
  <2> QED BY <2>1 DEF Allowed
<1>7. Writes # {}
  OBVIOUS
<1> QED BY <1>2, <1>3, <1>4, <1>5, <1>6, <1>7 DEF Writes

LEMMA WriteOrNot ==
  ASSUME [Next]_vars
  PROVE  disk' = disk \/ \E w \in Writes : \E content : disk' = Put(w.to, content)
<1>1. CASE ExtractNext
  <2> DEFINE s == Head(todo)
  <2>1. CASE disk' = Put(PathOf(s), FileOf(s).data) /\ Writes # {}
    <3>1. Writes = ExtractWrites(s)
      BY <1>1 DEF Writes, ExtractNext
    <3>2. PICK w \in Writes : w.to = PathOf(s)
      BY <2>1, <3>1 DEF ExtractWrites
    <3> QED BY <2>1, <3>2
  <2> QED BY <1>1, <2>1 DEF ExtractNext, EndAs
<1> QED BY <1>1 DEF Next, Begin, ExtractMember, ExtractEnd, UnpackNext, NextPass, Derive, WriteMod, Die,
             EndAs, vars

LEMMA NothingElsewhereStep ==
  ASSUME UnderWay, NothingElsewhere, [Next]_vars
  PROVE  NothingElsewhere'
<1>0. archive' = archive /\ folds' = folds
  BY DEF Next, Begin, ExtractMember, ExtractNext, ExtractEnd, UnpackNext, NextPass, Derive,
         WriteMod, Die, EndAs, vars
<1>1. \A at : Allowed(at)' <=> Allowed(at)
  <2>1. /\ Outputs' = Outputs /\ Written' = Written /\ ModPath' = ModPath
        /\ \A path : Spot(path)' = Spot(path)
    BY <1>0, SameArchive
  <2>2. Spot(ModPath)' = Spot(ModPath)
    BY <1>0, <2>1 DEF Spot
  <2> QED BY <2>1, <2>2 DEF Allowed
<1>2. \A at \in DOMAIN disk : Allowed(at)
  BY DEF NothingElsewhere, Allowed
<1>3. \A at \in DOMAIN disk' : Allowed(at)
  <2>1. CASE disk' = disk
    BY <1>2, <2>1
  <2>2. CASE \E w \in Writes : \E content : disk' = Put(w.to, content)
    <3>1. PICK w \in Writes : \E content : disk' = Put(w.to, content)
      BY <2>2
    <3>2. DOMAIN disk' = DOMAIN disk \cup {Spot(w.to)}
      BY <3>1 DEF Put
    <3>3. Allowed(Spot(w.to))
      BY WritesAreAllowed
    <3> QED BY <1>2, <3>2, <3>3
  <2> QED BY <2>1, <2>2, WriteOrNot
<1>4. \A at \in DOMAIN disk' : Allowed(at)'
  BY <1>1, <1>3
<1> QED BY <1>4 DEF NothingElsewhere, Allowed

\* Whatever commands are given, in whatever order, and whether they end, fail or
\* are killed, no file is written but at the place of a member, of a file
\* derived of one, of the project file, or of an output asked for.
THEOREM CommandsStayInPlace == Spec => []NothingElsewhere
<1>1. Init => UnderWay /\ NothingElsewhere
  <2>1. Init => NothingElsewhere
    BY DEF Init, NothingElsewhere
  <2> QED BY <2>1, UnderWayFirst
<1>2. UnderWay /\ NothingElsewhere /\ [Next]_vars => (UnderWay /\ NothingElsewhere)'
  BY UnderWayStep, NothingElsewhereStep
<1> QED BY <1>1, <1>2, PTL DEF Spec

-----------------------------------------------------------------------------
(* Unpack leaves the last member of each place, and what is derived of it. *)

\* In f, a directory, the first v members are unpacked.
Placed(f, v) ==
  \A n \in 1 .. v :
    /\ Spot(Written[n]) \in DOMAIN f
    /\ f[Spot(Written[n])] \in DOMAIN DerivedFrom
    /\ Spot(Written[n]) \notin Outputs \cup {Spot(ModPath)}
         /\ (\A m \in 1 .. v : Spot(Written[m]) = Spot(Written[n]) => m <= n) =>
       f[Spot(Written[n])] = FileOf(Members(Slots(archive))[n]).data

\* What a file's derivative is named after holds what is derived of a file.
DerivedThere(f, d, p) ==
  DerivedFrom[f[Spot(p)]] # Nothing =>
    \E q \in Sources(d) :
      /\ Spot(Derivative(d, q)) = Spot(Derivative(d, p))
      /\ Spot(Derivative(d, p)) \in DOMAIN f
      /\ f[Spot(Derivative(d, p))] = DerivedFrom[f[Spot(q)]]
      /\ DerivedFrom[f[Spot(q)]] # Nothing

\* In f, the passes before the last are over, and the last has these files left.
AllDerived(f, last, left) ==
  \A d \in 1 .. last : \A p \in Sources(d) : d < last \/ p \notin left => DerivedThere(f, d, p)

\* The list is what is left of another.
IsRest(list, whole) ==
  /\ Len(list) <= Len(whole)
  /\ \A i \in 1 .. Len(list) : list[i] = whole[Len(whole) - Len(list) + i]

UnpackGoesOn ==
  /\ phase = "unpack" =>
       /\ IsRest(todo, Members(Slots(archive)))
       /\ Placed(disk, Len(Members(Slots(archive))) - Len(todo))
  /\ phase = "derive" =>
       Placed(disk, Len(Members(Slots(archive)))) /\ AllDerived(disk, pass, Range(todo))
  /\ phase = "describe" \/ (phase = "done" /\ request.kind = "unpack") =>
       Placed(disk, Len(Members(Slots(archive)))) /\ AllDerived(disk, Len(Derivers), {})
  /\ phase = "done" /\ request.kind = "unpack" =>
       Spot(ModPath) \in DOMAIN disk /\ disk[Spot(ModPath)] = ModText

LEMMA LowerPathIs ==
  ASSUME NEW f \in Seq(Names)
  PROVE  /\ LowerPath(f) \in Seq(Names) /\ Len(LowerPath(f)) = Len(f)
         /\ \A i \in 1 .. Len(f) : LowerPath(f)[i] = Lower(f[i])
<1> DEFINE n == Len(f)
           g == LowerPath(f)
<1>1. n \in Nat /\ DOMAIN f = 1 .. n /\ \A i \in 1 .. n : f[i] \in Names
  OBVIOUS
<1>2. g = [i \in 1 .. n |-> Lower(f[i])]
  BY <1>1 DEF LowerPath
<1>3. \A i \in 1 .. n : Lower(f[i]) \in Names
  BY <1>1, LowerIsLower
<1> HIDE DEF n, g
<1>4. g \in [1 .. n -> Names]
  BY <1>2, <1>3
<1>5. g \in Seq(Names) /\ Len(g) = n
  BY <1>1, <1>2, <1>4, SeqDef, LenProperties
<1> QED BY <1>2, <1>5 DEF n, g

LEMMA LowerOfAppend ==
  ASSUME NEW f \in Seq(Names), NEW x \in Names
  PROVE  LowerPath(Append(f, x)) = Append(LowerPath(f), Lower(x))
<1> DEFINE a == Append(f, x)
           l == LowerPath(f)
           b == Append(l, Lower(x))
           c == LowerPath(a)
<1>1. Len(f) \in Nat /\ a \in Seq(Names) /\ Len(a) = Len(f) + 1
      /\ \A i \in 1 .. Len(a) : a[i] = IF i <= Len(f) THEN f[i] ELSE x
  OBVIOUS
<1>2. /\ l \in Seq(Names) /\ Len(l) = Len(f)
      /\ \A i \in 1 .. Len(f) : l[i] = Lower(f[i])
  BY LowerPathIs
<1> HIDE DEF a, l
<1>3. /\ c \in Seq(Names) /\ Len(c) = Len(a)
      /\ \A i \in 1 .. Len(a) : c[i] = Lower(a[i])
  BY <1>1, LowerPathIs
<1>4. Lower(x) \in Names
  BY LowerIsLower
<1>5. /\ b \in Seq(Names) /\ Len(b) = Len(f) + 1
      /\ \A i \in 1 .. Len(b) : b[i] = IF i <= Len(f) THEN l[i] ELSE Lower(x)
  BY <1>2, <1>4
<1> HIDE DEF b, c
<1>6. \A i \in 1 .. Len(c) : c[i] = b[i]
  BY <1>1, <1>2, <1>3, <1>5
<1>7. c = b
  BY <1>1, <1>3, <1>5, <1>6, SeqEqual
<1> QED BY <1>7 DEF a, b, c, l

LEMMA SpotOfAppend ==
  ASSUME NEW f \in Seq(Names), NEW x \in Names
  PROVE  /\ Spot(f) \in Seq(Names)
         /\ Front(Spot(Append(f, x))) = Spot(f)
         /\ Last(Spot(Append(f, x))).key = x.key
         /\ Spot(Append(f, x)) \in Seq(Names) \ {<<>>}
<1>1. LowerPath(f) \in Seq(Names) /\ Lower(x) \in Names /\ Lower(x).key = x.key
  BY LowerPathIs, LowerIsLower
<1>2. CASE folds
  <2> DEFINE g == LowerPath(f)
             y == Lower(x)
  <2>1. Spot(f) = g /\ Spot(Append(f, x)) = Append(g, y)
    BY <1>2, LowerOfAppend DEF Spot
  <2> HIDE DEF g, y
  <2>2. g \in Seq(Names) /\ y \in Names /\ y.key = x.key
    BY <1>1 DEF g, y
  <2>3. Append(g, y) \in Seq(Names) /\ Append(g, y) # <<>>
        /\ Front(Append(g, y)) = g /\ Last(Append(g, y)) = y
    BY <2>2, FrontOfAppend
  <2> QED BY <2>1, <2>2, <2>3
<1>3. CASE ~ folds
  <2>1. Spot(f) = f /\ Spot(Append(f, x)) = Append(f, x)
    BY <1>3 DEF Spot
  <2>2. Append(f, x) \in Seq(Names) /\ Append(f, x) # <<>>
        /\ Front(Append(f, x)) = f /\ Last(Append(f, x)) = x
    BY FrontOfAppend
  <2> QED BY <2>1, <2>2
<1> QED BY <1>2, <1>3

LEMMA PathIs ==
  ASSUME archive \in Archives, NEW s \in Slots(archive)
  PROVE  PathOf(s) \in Seq(Names) \ {<<>>} /\ FileOf(s) \in Files
<1>1. IsArchive(archive)
  BY SlotsFinite
<1>2. s[2] \in Seq(Names) /\ FileOf(s) \in Files
  BY <1>1, SlotParts DEF FileOf
<1>3. FileOf(s).name \in Names
  BY <1>2 DEF Files
<1>4. Append(s[2], FileOf(s).name) \in Seq(Names) /\ Append(s[2], FileOf(s).name) # <<>>
  BY <1>2, <1>3, FrontOfAppend
<1> QED BY <1>2, <1>4 DEF PathOf

\* A derivative is next to its file, under a name of the pass.
LEMMA DerivativeIs ==
  ASSUME archive \in Archives, NEW d \in DOMAIN Derivers, NEW p \in Sources(d)
  PROVE  /\ p \in Seq(Names) \ {<<>>} /\ Last(p).key \in DOMAIN Derivers[d]
         /\ Last(Spot(p)).key = Last(p).key
         /\ Front(Spot(Derivative(d, p))) = Front(Spot(p))
         /\ Last(Spot(Derivative(d, p))).key = Derivers[d][Last(p).key]
         /\ Spot(Derivative(d, p)) \in Outputs
         /\ Derivers[d][Last(p).key] = Last(p).key => Derivative(d, p) = p
<1>1. p \in Range(Written) /\ Last(p).key \in DOMAIN Derivers[d]
  BY DEF Sources
<1>2. PICK n \in DOMAIN Written : p = Written[n]
  BY <1>1 DEF Range
<1>3. p \in Seq(Names) \ {<<>>}
  BY <1>2, WrittenIs, PathIs
<1> DEFINE f == Front(p)
           x == Last(p)
           y == [key |-> Derivers[d][x.key], cased |-> x.cased]
<1>4. f \in Seq(Names) /\ Append(f, x) = p
  BY <1>3, FrontAndLast
<1>5. x \in Names
  BY <1>3, LastIsName
<1>6. Derivers[d] \in [DOMAIN Derivers[d] -> Keys]
  BY DeriversAssumption
<1>7. y \in Names
  <2>1. Derivers[d][x.key] \in Keys
    BY <1>1, <1>6
  <2> QED BY <1>5, <2>1 DEF Names
<1>8. Derivative(d, p) = Append(f, y)
  BY DEF Derivative
<1>9. y.key = x.key => y = x
  BY <1>5 DEF Names
<1>10. y.key = Derivers[d][x.key]
  OBVIOUS
<1>11. Spot(Derivative(d, p)) \in Outputs
  BY DEF Outputs
<1> HIDE DEF f, x, y
<1>12. Front(Spot(p)) = Spot(f) /\ Last(Spot(p)).key = x.key
  BY <1>4, <1>5, SpotOfAppend
<1>13. Front(Spot(Derivative(d, p))) = Spot(f) /\ Last(Spot(Derivative(d, p))).key = y.key
  BY <1>4, <1>7, <1>8, SpotOfAppend
<1>14. y.key = x.key => Derivative(d, p) = p
  BY <1>4, <1>8, <1>9
<1> QED BY <1>1, <1>3, <1>10, <1>11, <1>12, <1>13, <1>14 DEF x

LEMMA SamePlaces ==
  ASSUME archive' = archive, folds' = folds
  PROVE  /\ \A f, v : Placed(f, v)' <=> Placed(f, v)
         /\ \A f, last, left : AllDerived(f, last, left)' <=> AllDerived(f, last, left)
<1>1. /\ \A path : Spot(path)' = Spot(path)
      /\ \A s : FileOf(s)' = FileOf(s)
      /\ \A S : Members(S)' = Members(S)
      /\ \A n : Sources(n)' = Sources(n)
      /\ Written' = Written /\ Outputs' = Outputs /\ ModPath' = ModPath
  BY SameArchive
<1>2. \A f, v : Placed(f, v)' <=> Placed(f, v)
  <2>1. Members(Slots(archive))' = Members(Slots(archive))
    BY <1>1
  <2>2. Spot(ModPath)' = Spot(ModPath)
    BY <1>1 DEF Spot
  <2> QED BY <1>1, <2>1, <2>2 DEF Placed
<1>3. \A f, d, p : DerivedThere(f, d, p)' <=> DerivedThere(f, d, p)
  <2>1. \A d, p : Spot(Derivative(d, p))' = Spot(Derivative(d, p))
    BY DEF Spot
  <2> QED BY <1>1, <2>1 DEF DerivedThere
<1>4. \A f, last, left : AllDerived(f, last, left)' <=> AllDerived(f, last, left)
  BY <1>1, <1>3 DEF AllDerived
<1> QED BY <1>2, <1>4

LEMMA NextPlaced ==
  ASSUME archive \in Archives, NEW v \in Nat, v + 1 \in DOMAIN Written, Placed(disk, v), NEW g,
         g = Put(Written[v + 1], FileOf(Members(Slots(archive))[v + 1]).data)
  PROVE  Placed(g, v + 1)
<1> DEFINE W == Written
           order == Members(Slots(archive))
           at == Spot(W[v + 1])
           data(n) == FileOf(order[n]).data
<1>1. /\ DOMAIN g = DOMAIN disk \cup {at}
      /\ \A x \in DOMAIN g : g[x] = IF x = at THEN data(v + 1) ELSE disk[x]
  BY DEF Put
<1>2. order[v + 1] \in Slots(archive)
  BY WrittenIs
<1>3. data(v + 1) \in DOMAIN DerivedFrom
  <2>1. FileOf(order[v + 1]) \in Files
    BY <1>2, PathIs
  <2>2. data(v + 1) \in Data
    BY <2>1 DEF Files
  <2> QED BY <2>2, DeriversAssumption
<1> HIDE DEF W, data
<1>4. \A n \in 1 .. v :
        /\ Spot(W[n]) \in DOMAIN disk /\ disk[Spot(W[n])] \in DOMAIN DerivedFrom
        /\ Spot(W[n]) \notin Outputs \cup {Spot(ModPath)} /\ (\A m \in 1 .. v : Spot(W[m]) = Spot(W[n]) => m <= n) =>
             disk[Spot(W[n])] = data(n)
  BY DEF Placed, W, data
<1> SUFFICES ASSUME NEW n \in 1 .. v + 1
             PROVE  /\ Spot(W[n]) \in DOMAIN g /\ g[Spot(W[n])] \in DOMAIN DerivedFrom
                    /\ Spot(W[n]) \notin Outputs \cup {Spot(ModPath)}
                         /\ (\A m \in 1 .. v + 1 : Spot(W[m]) = Spot(W[n]) => m <= n) =>
                         g[Spot(W[n])] = data(n)
  BY DEF Placed, W, data
<1>5. CASE n = v + 1
  BY <1>1, <1>3, <1>5
<1>6. CASE n \in 1 .. v /\ Spot(W[n]) = at
  <2>1. v + 1 \in 1 .. v + 1 /\ ~ (v + 1 <= n)
    BY <1>6
  <2> QED BY <1>1, <1>3, <1>6, <2>1
<1>7. CASE n \in 1 .. v /\ Spot(W[n]) # at
  <2>1. Spot(W[n]) \in DOMAIN g /\ g[Spot(W[n])] = disk[Spot(W[n])]
    BY <1>1, <1>4, <1>7
  <2>2. 1 .. v \subseteq 1 .. v + 1
    OBVIOUS
  <2> QED BY <1>4, <1>7, <2>1, <2>2
<1> QED BY <1>5, <1>6, <1>7

LEMMA DerivedPlaced ==
  ASSUME NEW v, Placed(disk, v), NEW path, Spot(path) \in Outputs \cup {Spot(ModPath)},
         NEW c \in DOMAIN DerivedFrom, NEW g, g = Put(path, c)
  PROVE  Placed(g, v)
<1>1. /\ DOMAIN g = DOMAIN disk \cup {Spot(path)}
      /\ \A x \in DOMAIN g : g[x] = IF x = Spot(path) THEN c ELSE disk[x]
  BY DEF Put
<1> QED BY <1>1 DEF Placed

LEMMA RangeOfRest ==
  ASSUME NEW S, NEW list \in Seq(S), list # <<>>
  PROVE  /\ Head(list) \in Range(list)
         /\ \A x \in Range(list) : x = Head(list) \/ x \in Range(Tail(list))
<1>1. Len(list) \in Nat /\ Len(list) >= 1 /\ DOMAIN list = 1 .. Len(list) /\ Head(list) = list[1]
  BY EmptySeq
<1>2. Head(list) \in Range(list)
  BY <1>1 DEF Range
<1>3. ASSUME NEW i \in 1 .. Len(list), i # 1 PROVE list[i] \in Range(Tail(list))
  <2>1. Tail(list) \in Seq(S) /\ Len(Tail(list)) = Len(list) - 1
    BY <1>1
  <2>2. i - 1 \in 1 .. Len(Tail(list)) /\ Tail(list)[i - 1] = list[i]
    BY <1>1, <1>3, <2>1
  <2>3. DOMAIN Tail(list) = 1 .. Len(Tail(list))
    BY <2>1
  <2> QED BY <2>2, <2>3 DEF Range
<1> QED BY <1>1, <1>2, <1>3 DEF Range

\* Of what a pass writes nothing is derived, and the file it writes over is a
\* source of no pass, or of this one in place.
LEMMA DerivedNext ==
  ASSUME archive \in Archives, NEW d0 \in DOMAIN Derivers, NEW list \in Seq(Sources(d0)), list # <<>>,
         AllDerived(disk, d0, Range(list)), NEW p0, p0 = Head(list),
         NEW g,
         \A p \in Range(Written) : Spot(p) \in DOMAIN disk /\ disk[Spot(p)] \in DOMAIN DerivedFrom,
         IF DerivedFrom[disk[Spot(p0)]] = Nothing
         THEN g = disk
         ELSE g = Put(Derivative(d0, p0), DerivedFrom[disk[Spot(p0)]])
  PROVE  AllDerived(g, d0, Range(Tail(list)))
<1> DEFINE c0 == DerivedFrom[disk[Spot(p0)]]
           o0 == Spot(Derivative(d0, p0))
<1>1. /\ d0 \in Nat /\ DOMAIN Derivers = 1 .. Len(Derivers)
      /\ p0 \in Sources(d0)
      /\ \A p \in Sources(d0) : p \notin Range(Tail(list)) => p = p0 \/ p \notin Range(list)
  <2>1. DOMAIN Derivers = 1 .. Len(Derivers)
    BY DeriversAssumption
  <2>2. p0 \in Sources(d0)
    BY TailIs
  <2>3. \A p \in Range(list) : p = p0 \/ p \in Range(Tail(list))
    BY RangeOfRest
  <2> QED BY <2>1, <2>2, <2>3
<1>2. \A d \in 1 .. d0 : \A p \in Sources(d) :
        d < d0 \/ p \notin Range(list) => DerivedThere(disk, d, p)
  BY DEF AllDerived
<1> SUFFICES ASSUME NEW d \in 1 .. d0, NEW p \in Sources(d), d < d0 \/ p \notin Range(Tail(list)),
                    DerivedFrom[g[Spot(p)]] # Nothing
             PROVE  \E q \in Sources(d) :
                      /\ Spot(Derivative(d, q)) = Spot(Derivative(d, p))
                      /\ Spot(Derivative(d, p)) \in DOMAIN g
                      /\ g[Spot(Derivative(d, p))] = DerivedFrom[g[Spot(q)]]
                      /\ DerivedFrom[g[Spot(q)]] # Nothing
  BY DEF AllDerived, DerivedThere
<1>3. (p = p0 /\ d = d0) \/ d < d0 \/ p \notin Range(list)
  BY <1>1
<1>4. CASE c0 = Nothing
  <2>1. g = disk
    BY <1>4
  <2>2. DerivedThere(disk, d, p)
    BY <1>2, <1>3, <1>4, <2>1
  <2> QED BY <2>1, <2>2 DEF DerivedThere
<1>5. CASE c0 # Nothing
  <2>1. /\ DOMAIN g = DOMAIN disk \cup {o0} /\ g[o0] = c0
        /\ \A x : x \in DOMAIN g /\ x # o0 => g[x] = disk[x]
    BY <1>5 DEF Put
  <2>2. DerivedFrom[c0] = Nothing
    <3>1. p0 \in Range(Written)
      BY <1>1 DEF Sources
    <3>2. disk[Spot(p0)] \in DOMAIN DerivedFrom
      BY <3>1
    <3> QED BY <1>5, <3>2, DeriversAssumption
  <2>3. ASSUME NEW e \in DOMAIN Derivers, NEW q \in Sources(e)
        PROVE  /\ Spot(q) \in DOMAIN disk /\ disk[Spot(q)] \in DOMAIN DerivedFrom
               /\ Spot(q) # o0 => g[Spot(q)] = disk[Spot(q)]
    <3>1. q \in Range(Written)
      BY DEF Sources
    <3> QED BY <2>1, <3>1
  <2>4. /\ d \in DOMAIN Derivers /\ Spot(p) # o0 /\ g[Spot(p)] = disk[Spot(p)]
        /\ DerivedFrom[disk[Spot(p)]] # Nothing
    <3>1. d \in DOMAIN Derivers
      BY <1>1
    <3>2. Spot(p) # o0
      BY <2>1, <2>2
    <3> QED BY <2>3, <3>1, <3>2
  <2> DEFINE out == Derivers[d0][Last(p0).key]
  <2>5. Last(o0).key = out /\ Last(p0).key \in DOMAIN Derivers[d0]
    BY <1>1, DerivativeIs
  <2>6. CASE d = d0 /\ Spot(Derivative(d, p)) = o0
    <3>1. CASE Spot(p0) # o0
      <4>1. g[Spot(p0)] = disk[Spot(p0)]
        BY <1>1, <2>3, <3>1
      <4>2. DerivedFrom[g[Spot(p0)]] = c0 /\ g[o0] = c0 /\ o0 \in DOMAIN g
        BY <2>1, <4>1
      <4> QED BY <1>1, <1>5, <2>6, <4>2
    <3>2. CASE Spot(p0) = o0
      <4>1. DerivedThere(disk, d, p)
        BY <1>2, <1>3, <2>4, <3>2
      <4>2. PICK q \in Sources(d) : /\ disk[o0] = DerivedFrom[disk[Spot(q)]]
                                    /\ DerivedFrom[disk[Spot(q)]] # Nothing
        BY <2>4, <2>6, <4>1 DEF DerivedThere
      <4>3. disk[Spot(q)] \in DOMAIN DerivedFrom
        BY <2>3, <2>4
      <4>4. DerivedFrom[disk[o0]] = Nothing
        BY <4>2, <4>3, DeriversAssumption
      <4> QED BY <1>5, <3>2, <4>4
    <3> QED BY <3>1, <3>2
  <2>7. ASSUME NEW q \in Sources(d), Spot(q) # o0, Spot(Derivative(d, p)) # o0,
               Spot(Derivative(d, q)) = Spot(Derivative(d, p)),
               Spot(Derivative(d, p)) \in DOMAIN disk,
               disk[Spot(Derivative(d, p))] = DerivedFrom[disk[Spot(q)]],
               DerivedFrom[disk[Spot(q)]] # Nothing
        PROVE  \E r \in Sources(d) :
                 /\ Spot(Derivative(d, r)) = Spot(Derivative(d, p))
                 /\ Spot(Derivative(d, p)) \in DOMAIN g
                 /\ g[Spot(Derivative(d, p))] = DerivedFrom[g[Spot(r)]]
                 /\ DerivedFrom[g[Spot(r)]] # Nothing
    <3>1. g[Spot(q)] = disk[Spot(q)]
      BY <2>3, <2>4, <2>7
    <3>2. Spot(Derivative(d, p)) \in DOMAIN g
            /\ g[Spot(Derivative(d, p))] = disk[Spot(Derivative(d, p))]
      <4> HIDE DEF o0, c0
      <4> QED BY <2>1, <2>7
    <3> QED BY <2>7, <3>1, <3>2
  <2>8. CASE d = d0 /\ Spot(Derivative(d, p)) # o0
    <3>1. DerivedThere(disk, d, p)
      BY <1>2, <1>3, <2>8
    <3>2. PICK q \in Sources(d) :
            /\ Spot(Derivative(d, q)) = Spot(Derivative(d, p))
            /\ Spot(Derivative(d, p)) \in DOMAIN disk
            /\ disk[Spot(Derivative(d, p))] = DerivedFrom[disk[Spot(q)]]
            /\ DerivedFrom[disk[Spot(q)]] # Nothing
      BY <2>4, <3>1 DEF DerivedThere
    <3>3. Spot(q) # o0
      <4> SUFFICES ASSUME Spot(q) = o0 PROVE FALSE
        OBVIOUS
      <4>1. Last(q).key = out /\ Last(q).key \in DOMAIN Derivers[d0]
        BY <2>4, <2>5, <2>8, DerivativeIs
      <4>2. Derivers[d0][out] = out
        BY <2>5, <4>1, DeriversAssumption
      <4>3. Derivative(d, q) = q
        BY <2>4, <2>8, <4>1, <4>2, DerivativeIs
      <4> QED BY <2>8, <3>2, <4>3
    <3> QED BY <2>7, <2>8, <3>2, <3>3
  <2>9. CASE d < d0
    <3>1. DerivedThere(disk, d, p)
      BY <1>2, <2>9
    <3>2. PICK q \in Sources(d) :
            /\ Spot(Derivative(d, q)) = Spot(Derivative(d, p))
            /\ Spot(Derivative(d, p)) \in DOMAIN disk
            /\ disk[Spot(Derivative(d, p))] = DerivedFrom[disk[Spot(q)]]
            /\ DerivedFrom[disk[Spot(q)]] # Nothing
      BY <2>4, <3>1 DEF DerivedThere
    <3>3. out \notin DOMAIN Derivers[d] /\ out \notin Range(Derivers[d])
      <4>1. d \in DOMAIN Derivers \ {d0}
        BY <1>1, <2>4, <2>9
      <4> QED BY <2>5, <4>1, DeriversAssumption
    <3>4. Spot(q) # o0
      BY <2>4, <2>5, <3>3, DerivativeIs
    <3>5. Spot(Derivative(d, p)) # o0
      <4>1. Last(Spot(Derivative(d, p))).key = Derivers[d][Last(p).key]
              /\ Last(p).key \in DOMAIN Derivers[d]
        BY <2>4, DerivativeIs
      <4>2. Derivers[d][Last(p).key] \in Range(Derivers[d])
        BY <4>1 DEF Range
      <4> QED BY <2>5, <3>3, <4>1, <4>2
    <3> QED BY <2>7, <3>2, <3>4, <3>5
  <2>10. d = d0 \/ d < d0
    BY <1>1
  <2> QED BY <2>6, <2>8, <2>9, <2>10
<1> QED BY <1>4, <1>5

LEMMA RestIs ==
  ASSUME NEW S, NEW list \in Seq(S), NEW whole \in Seq(S), IsRest(list, whole), list # <<>>
  PROVE  /\ Len(whole) - Len(list) \in Nat
         /\ Len(whole) - Len(list) + 1 \in DOMAIN whole
         /\ Head(list) = whole[Len(whole) - Len(list) + 1]
         /\ IsRest(Tail(list), whole)
         /\ Len(whole) - Len(Tail(list)) = Len(whole) - Len(list) + 1
<1> DEFINE n == Len(whole)
           l == Len(list)
           t == Tail(list)
<1>1. n \in Nat /\ l \in Nat /\ l >= 1 /\ l <= n /\ Head(list) = list[1] /\ DOMAIN whole = 1 .. n
      /\ \A i \in 1 .. l : list[i] = whole[n - l + i]
  BY EmptySeq DEF IsRest
<1>2. Len(t) = l - 1 /\ \A i \in 1 .. l - 1 : t[i] = list[i + 1]
  <2>1. Len(t) = l - 1
    BY <1>1
  <2>2. ASSUME NEW i \in 1 .. l - 1 PROVE t[i] = list[i + 1]
    BY <1>1
  <2> QED BY <2>1, <2>2
<1> HIDE DEF n, l, t
<1>3. Head(list) = whole[n - l + 1]
  BY <1>1
<1>4. \A i \in 1 .. Len(t) : t[i] = whole[n - Len(t) + i]
  <2> SUFFICES ASSUME NEW i \in 1 .. l - 1 PROVE t[i] = whole[n - (l - 1) + i]
    BY <1>2
  <2>1. i + 1 \in 1 .. l /\ n - l + (i + 1) = n - (l - 1) + i
    BY <1>1
  <2> QED BY <1>1, <1>2, <2>1
<1>5. Len(t) <= n
  BY <1>1, <1>2
<1> QED BY <1>1, <1>2, <1>3, <1>4, <1>5 DEF n, l, t, IsRest

LEMMA WholeIsRest ==
  ASSUME NEW S, NEW whole \in Seq(S)
  PROVE  IsRest(whole, whole) /\ Len(whole) - Len(whole) = 0
BY DEF IsRest

LEMMA AllMembers ==
  ASSUME archive \in Archives
  PROVE  /\ Members(Slots(archive)) \in Seq(Slots(archive))
         /\ Len(Members(Slots(archive))) \in Nat
         /\ DOMAIN Members(Slots(archive)) = 1 .. Len(Members(Slots(archive)))
         /\ DOMAIN Written = 1 .. Len(Members(Slots(archive)))
<1> DEFINE S == Slots(archive)
<1>1. S \in SUBSET Slots(archive)
  OBVIOUS
<1> HIDE DEF S
<1>2. /\ Members(S) \in Seq(S) /\ Len(Members(S)) \in Nat
      /\ DOMAIN Members(S) = 1 .. Len(Members(S))
  BY <1>1, MembersInOrder
<1>3. DOMAIN Written = DOMAIN Members(Slots(archive))
  BY WrittenIs
<1> QED BY <1>2, <1>3 DEF S

LEMMA UnpackStep ==
  ASSUME UnderWay, UnpackGoesOn, UnpackNext
  PROVE  UnpackGoesOn'
<1> DEFINE order == Members(Slots(archive))
           v == Len(order) - Len(todo)
           s == Head(todo)
<1>1. archive' = archive /\ folds' = folds /\ request' = request /\ phase = "unpack" /\ todo # <<>>
      /\ archive \in Archives /\ todo \in Seq(Slots(archive))
  BY DEF UnpackNext, EndAs, UnderWay
<1>2. CASE EndAs("failed")
  BY <1>2 DEF UnpackGoesOn, EndAs
<1>3. CASE \E w \in Writes : /\ disk' = Put(w.to, w.data) /\ todo' = Tail(todo) /\ phase' = phase
  <2>1. PICK w \in Writes : /\ disk' = Put(w.to, w.data) /\ todo' = Tail(todo) /\ phase' = phase
    BY <1>3
  <2>2. w.to = PathOf(s) /\ w.data = FileOf(s).data
    BY <1>1 DEF Writes, UnpackWrites
  <2>3. order \in Seq(Slots(archive))
    BY <1>1, AllMembers
  <2>4. IsRest(todo, order) /\ Placed(disk, v)
    BY <1>1 DEF UnpackGoesOn
  <2> HIDE DEF order
  <2>5. /\ v \in Nat /\ v + 1 \in DOMAIN order /\ s = order[v + 1]
        /\ IsRest(Tail(todo), order) /\ Len(order) - Len(Tail(todo)) = v + 1
    BY <1>1, <2>3, <2>4, RestIs
  <2>6. v + 1 \in DOMAIN Written /\ Written[v + 1] = PathOf(order[v + 1])
    BY <1>1, <2>5, WrittenIs DEF order
  <2>7. disk' = Put(Written[v + 1], FileOf(order[v + 1]).data)
    BY <2>1, <2>2, <2>5, <2>6
  <2>8. Placed(disk', v + 1)
    <3> DEFINE g == Put(Written[v + 1], FileOf(order[v + 1]).data)
    <3>1. Placed(g, v + 1)
      <4> HIDE DEF v
      <4> QED BY <1>1, <2>4, <2>5, <2>6, NextPlaced DEF order
    <3> QED BY <2>7, <3>1
  <2>9. Members(Slots(archive))' = order
    BY <1>1, SameArchive DEF order
  <2>10. /\ IsRest(todo, Members(Slots(archive)))'
         /\ (Len(Members(Slots(archive))) - Len(todo))' = v + 1
    BY <2>1, <2>5, <2>9 DEF IsRest
  <2>11. Placed(disk, Len(Members(Slots(archive))) - Len(todo))'
    <3> HIDE DEF v
    <3>1. PICK g, n : g = disk' /\ n = v + 1
      OBVIOUS
    <3>2. Placed(g, n)'
      BY <1>1, <2>8, <3>1, SamePlaces
    <3> QED BY <2>10, <3>1, <3>2
  <2> QED BY <1>1, <2>1, <2>10, <2>11 DEF UnpackGoesOn
<1> QED BY <1>2, <1>3 DEF UnpackNext

LEMMA NextPassStep ==
  ASSUME UnderWay, UnpackGoesOn, NextPass
  PROVE  UnpackGoesOn'
<1> DEFINE N == Len(Members(Slots(archive)))
<1>1. /\ archive' = archive /\ folds' = folds /\ disk' = disk /\ request' = request
      /\ phase \in {"unpack", "derive"} /\ todo = <<>> /\ archive \in Archives
      /\ Len(Derivers) \in Nat /\ pass \in Nat /\ pass <= Len(Derivers)
  <2>1. Len(Derivers) \in Nat
    BY DeriversAssumption
  <2> QED BY <2>1 DEF NextPass, EndAs, UnderWay
<1>2. Placed(disk, N)
  <2>1. N - 0 = N /\ Len(todo) = 0
    BY <1>1, AllMembers
  <2> QED BY <1>1, <2>1 DEF UnpackGoesOn
<1>3. \A d \in 1 .. pass : \A p \in Sources(d) : DerivedThere(disk, d, p)
  <2>1. CASE phase = "derive"
    <3>1. Range(todo) = {}
      BY <1>1 DEF Range
    <3> QED BY <2>1, <3>1 DEF UnpackGoesOn, AllDerived
  <2>2. CASE phase = "unpack"
    BY <2>2 DEF UnderWay
  <2> QED BY <1>1, <2>1, <2>2
<1>4. Placed(disk, Len(Members(Slots(archive))))'
  <2>1. N' = N
    BY <1>1, SameArchive
  <2> HIDE DEF N
  <2>2. PICK g, n : g = disk /\ n = N
    OBVIOUS
  <2>3. Placed(g, n)'
    BY <1>1, <1>2, <2>2, SamePlaces
  <2> QED BY <1>1, <2>1, <2>2, <2>3 DEF N
<1>5. CASE pass < Len(Derivers)
  <2>1. /\ phase' = "derive" /\ pass' = pass + 1 /\ todo' = ForDeriver(Written, pass + 1)
    BY <1>5 DEF NextPass
  <2>2. \A p \in Sources(pass + 1) : p \in Range(todo')
    <3>1. /\ todo' \in Seq(Sources(pass + 1))
          /\ \A p \in Sources(pass + 1) : \E k \in 1 .. Len(todo') : todo'[k] = p
      BY <1>1, <2>1, ForDeriverIs
    <3> QED BY <3>1 DEF Range
  <2>3. AllDerived(disk, pass + 1, Range(todo'))
    <3> SUFFICES ASSUME NEW d \in 1 .. pass + 1, NEW p \in Sources(d),
                        d < pass + 1 \/ p \notin Range(todo')
                 PROVE  DerivedThere(disk, d, p)
      BY DEF AllDerived
    <3>1. d \in 1 .. pass
      BY <1>1, <2>2
    <3> QED BY <1>3, <3>1
  <2>4. AllDerived(disk, pass, Range(todo))'
    <3>1. PICK g, n, left : g = disk /\ n = pass + 1 /\ left = Range(todo')
      OBVIOUS
    <3>2. AllDerived(g, n, left)'
      BY <1>1, <2>3, <3>1, SamePlaces
    <3>3. left = Range(todo)'
      BY <3>1 DEF Range
    <3> QED BY <1>1, <2>1, <3>1, <3>2, <3>3
  <2> QED BY <1>4, <2>1, <2>4 DEF UnpackGoesOn
<1>6. CASE ~ pass < Len(Derivers)
  <2>1. phase' = "describe" /\ pass = Len(Derivers)
    BY <1>1, <1>6 DEF NextPass, EndAs
  <2>2. AllDerived(disk, Len(Derivers), {})
    BY <1>3, <2>1 DEF AllDerived
  <2>3. AllDerived(disk, Len(Derivers), {})'
    <3>1. PICK g : g = disk
      OBVIOUS
    <3>2. AllDerived(g, Len(Derivers), {})'
      BY <1>1, <2>2, <3>1, SamePlaces
    <3> QED BY <1>1, <3>1, <3>2
  <2> QED BY <1>4, <2>1, <2>3 DEF UnpackGoesOn
<1> QED BY <1>5, <1>6

LEMMA DeriveStep ==
  ASSUME UnderWay, UnpackGoesOn, Derive
  PROVE  UnpackGoesOn'
<1> DEFINE N  == Len(Members(Slots(archive)))
           p0 == Head(todo)
           c0 == DerivedFrom[disk[Spot(p0)]]
<1>1. /\ archive' = archive /\ folds' = folds /\ phase' = phase /\ pass' = pass
      /\ todo' = Tail(todo) /\ phase = "derive" /\ todo # <<>> /\ archive \in Archives
      /\ pass \in DOMAIN Derivers /\ todo \in Seq(Sources(pass))
  <2>1. DOMAIN Derivers = 1 .. Len(Derivers)
    BY DeriversAssumption
  <2> QED BY <2>1 DEF Derive, UnderWay
<1>2. Placed(disk, N) /\ AllDerived(disk, pass, Range(todo))
  BY <1>1 DEF UnpackGoesOn
<1>3. IF c0 = Nothing THEN disk' = disk ELSE disk' = Put(Derivative(pass, p0), c0)
  <2>1. Writes = DeriveWrites(p0)
    BY <1>1 DEF Writes
  <2>2. DeriveWrites(p0) = IF c0 = Nothing THEN {} ELSE {[to |-> Derivative(pass, p0), data |-> c0]}
    BY DEF DeriveWrites, DerivedPath, Derivative
  <2>3. (Writes = {} /\ disk' = disk) \/ \E w \in Writes : disk' = Put(w.to, w.data)
    BY DEF Derive
  <2> HIDE DEF c0, p0
  <2>4. CASE c0 = Nothing
    BY <2>1, <2>2, <2>3, <2>4
  <2>5. CASE c0 # Nothing
    <3> DEFINE w0 == [to |-> Derivative(pass, p0), data |-> c0]
    <3>1. Writes = {w0}
      BY <2>1, <2>2, <2>5
    <3>2. w0.to = Derivative(pass, p0) /\ w0.data = c0
      OBVIOUS
    <3> HIDE DEF w0
    <3>3. disk' = Put(w0.to, w0.data)
      BY <2>3, <3>1
    <3> QED BY <2>5, <3>2, <3>3
  <2> QED BY <2>4, <2>5
<1>4. \A p \in Range(Written) : Spot(p) \in DOMAIN disk /\ disk[Spot(p)] \in DOMAIN DerivedFrom
  <2>1. DOMAIN Written = 1 .. N
    BY <1>1, AllMembers
  <2> QED BY <1>2, <2>1 DEF Placed, Range
<1>5. p0 \in Sources(pass) /\ p0 \in Range(Written)
  <2>1. p0 \in Sources(pass)
    BY <1>1, TailIs
  <2> QED BY <2>1 DEF Sources
<1>6. PICK g : g = disk'
  OBVIOUS
<1>7. Placed(g, N)
  <2>1. CASE c0 = Nothing
    BY <1>2, <1>3, <1>6, <2>1
  <2>2. CASE c0 # Nothing
    <3>1. c0 \in DOMAIN DerivedFrom
      BY <1>4, <1>5, <2>2, DeriversAssumption
    <3>2. Spot(Derivative(pass, p0)) \in Outputs \cup {Spot(ModPath)}
      BY <1>1, <1>5, DerivativeIs
    <3>3. g = Put(Derivative(pass, p0), c0)
      BY <1>3, <1>6, <2>2
    <3> HIDE DEF N, c0, p0
    <3> QED BY <1>2, <3>1, <3>2, <3>3, DerivedPlaced
  <2> QED BY <2>1, <2>2
<1>8. AllDerived(g, pass, Range(Tail(todo)))
  <2>1. IF c0 = Nothing THEN g = disk ELSE g = Put(Derivative(pass, p0), c0)
    BY <1>3, <1>6
  <2> QED BY <1>1, <1>2, <1>4, <2>1, DerivedNext
<1>9. Placed(disk, Len(Members(Slots(archive))))'
  <2>1. N' = N
    BY <1>1, SameArchive
  <2> HIDE DEF N
  <2>2. PICK n : n = N
    OBVIOUS
  <2>3. Placed(g, n)'
    BY <1>1, <1>7, <2>2, SamePlaces
  <2> QED BY <1>6, <2>1, <2>2, <2>3 DEF N
<1>10. AllDerived(disk, pass, Range(todo))'
  <2>1. PICK n, left : n = pass /\ left = Range(Tail(todo))
    OBVIOUS
  <2>2. AllDerived(g, n, left)'
    BY <1>1, <1>8, <2>1, SamePlaces
  <2>3. left = Range(todo)'
    BY <1>1, <2>1 DEF Range
  <2> QED BY <1>1, <1>6, <2>1, <2>2, <2>3
<1> QED BY <1>1, <1>9, <1>10 DEF UnpackGoesOn

\* The project file goes under a name no pass looks at, and no pass writes.
LEMMA ModNameIs ==
  ASSUME archive \in Archives
  PROVE  /\ ModName \in Names /\ Last(Spot(ModPath)).key = ModName.key
         /\ \A d \in DOMAIN Derivers :
              ModName.key \notin DOMAIN Derivers[d] \cup Range(Derivers[d])
<1>1. LocDbs = {} => ModName = HeaderMod
  BY DEF ModName
<1> DEFINE first == Min(LocDbs)
           name  == Last(Written[first])
<1>2. ASSUME LocDbs # {}
      PROVE  name \in Names /\ name.key \in DOMAIN ModNames
  <2>1. LocDbs \subseteq Nat
    BY WrittenIs DEF LocDbs
  <2>2. first \in LocDbs
    BY <1>2, <2>1, MinFound
  <2>3. first \in DOMAIN Written /\ name.key \in DOMAIN ModNames
    BY <2>2 DEF LocDbs
  <2> HIDE DEF first
  <2>4. Written[first] \in Seq(Names) \ {<<>>}
    BY <2>3, WrittenIs, PathIs
  <2> QED BY <2>3, <2>4, LastIsName
<1>3. ASSUME LocDbs # {}
      PROVE  ModName \in Names /\ ModName.key = ModNames[name.key] /\ ModNames[name.key] \in Range(ModNames)
  <2>1. ModName = [key |-> ModNames[name.key], cased |-> name.cased]
    BY <1>3 DEF ModName
  <2> HIDE DEF name
  <2>2. ModNames[name.key] \in Keys /\ ModNames[name.key] \in Range(ModNames)
    BY <1>2, <1>3, ModAssumption DEF Range
  <2> QED BY <1>2, <1>3, <2>1, <2>2 DEF Names
<1>4. ModName \in Names /\ ModName.key \in Range(ModNames) \cup {HeaderMod.key}
  <2> HIDE DEF name
  <2> QED BY <1>1, <1>3, ModAssumption
<1>5. Last(Spot(ModPath)).key = ModName.key
  <2> DEFINE x == ModName
  <2>1. ModPath = Append(<<>>, x) /\ <<>> \in Seq(Names)
    BY DEF ModPath
  <2> HIDE DEF x
  <2>2. Last(Spot(Append(<<>>, x))).key = x.key
    BY <1>4, <2>1, SpotOfAppend DEF x
  <2> QED BY <2>1, <2>2 DEF x
<1> QED BY <1>4, <1>5, ModAssumption

LEMMA WriteModStep ==
  ASSUME UnderWay, UnpackGoesOn, WriteMod
  PROVE  UnpackGoesOn'
<1>1. /\ archive' = archive /\ folds' = folds /\ request' = request
      /\ phase = "describe" /\ archive \in Archives
  BY DEF WriteMod, EndAs, UnderWay
<1>2. CASE EndAs("failed")
  BY <1>2 DEF UnpackGoesOn, EndAs
<1>3. CASE disk' = Put(ModPath, ModText) /\ phase' = "done"
  <2> DEFINE N  == Len(Members(Slots(archive)))
             at == Spot(ModPath)
  <2>1. Placed(disk, N) /\ AllDerived(disk, Len(Derivers), {})
    BY <1>1 DEF UnpackGoesOn
  <2>2. PICK g : g = disk' /\ g = Put(ModPath, ModText)
    BY <1>3
  <2>3. /\ DOMAIN g = DOMAIN disk \cup {at} /\ g[at] = ModText
        /\ \A x \in DOMAIN disk : x # at => g[x] = disk[x]
    BY <2>2 DEF Put
  <2>4. Placed(g, N)
    <3> HIDE DEF N
    <3> QED BY <2>1, <2>2, DerivedPlaced, ModAssumption
  <2>5. AllDerived(g, Len(Derivers), {})
    <3>1. DOMAIN Derivers = 1 .. Len(Derivers)
      BY DeriversAssumption
    <3>2. \A p \in Range(Written) : Spot(p) \in DOMAIN disk
      <4>1. DOMAIN Written = 1 .. N
        BY <1>1, AllMembers
      <4> QED BY <2>1, <4>1 DEF Placed, Range
    <3>3. ASSUME NEW d \in DOMAIN Derivers, NEW p \in Sources(d)
          PROVE  /\ g[Spot(p)] = disk[Spot(p)]
                 /\ Spot(Derivative(d, p)) \in DOMAIN disk =>
                      /\ Spot(Derivative(d, p)) \in DOMAIN g
                      /\ g[Spot(Derivative(d, p))] = disk[Spot(Derivative(d, p))]
      <4>1. /\ Last(Spot(p)).key \in DOMAIN Derivers[d]
            /\ Last(Spot(Derivative(d, p))).key \in Range(Derivers[d])
        BY <1>1, DerivativeIs DEF Range
      <4>2. Spot(p) # at /\ Spot(Derivative(d, p)) # at
        BY <1>1, <4>1, ModNameIs
      <4>3. p \in Range(Written)
        BY DEF Sources
      <4> QED BY <2>3, <3>2, <4>2, <4>3
    <3> SUFFICES ASSUME NEW d \in DOMAIN Derivers, NEW p \in Sources(d)
                 PROVE  DerivedThere(g, d, p)
      BY <3>1 DEF AllDerived
    <3>4. DerivedThere(disk, d, p)
      BY <2>1, <3>1 DEF AllDerived
    <3> HIDE DEF at
    <3> QED BY <3>3, <3>4 DEF DerivedThere
  <2>6. (Placed(disk, Len(Members(Slots(archive)))) /\ AllDerived(disk, Len(Derivers), {}))'
    <3>1. N' = N
      BY <1>1, SameArchive
    <3> HIDE DEF N
    <3>2. PICK n : n = N
      OBVIOUS
    <3>3. Placed(g, n)' /\ AllDerived(g, Len(Derivers), {})'
      BY <1>1, <2>4, <2>5, <3>2, SamePlaces
    <3> QED BY <2>2, <3>1, <3>2, <3>3 DEF N
  <2>7. (Spot(ModPath) \in DOMAIN disk /\ disk[Spot(ModPath)] = ModText)'
    <3>1. Spot(ModPath)' = at
      BY <1>1, SameArchive DEF Spot
    <3> QED BY <2>2, <2>3, <3>1
  <2> QED BY <1>3, <2>6, <2>7 DEF UnpackGoesOn
<1>4. Writes = {[to |-> ModPath, data |-> ModText]}
  BY <1>1 DEF Writes
<1> QED BY <1>2, <1>3, <1>4 DEF WriteMod

LEMMA UnpackFirst == Init => UnpackGoesOn
BY DEF Init, UnpackGoesOn

LEMMA UnpackGoesOnStep ==
  ASSUME UnderWay, UnpackGoesOn, [Next]_vars
  PROVE  UnpackGoesOn'
<1>1. ASSUME phase' \notin {"unpack", "derive", "describe", "done"} PROVE UnpackGoesOn'
  BY <1>1 DEF UnpackGoesOn
<1>2. ASSUME phase' = "done", request'.kind # "unpack" PROVE UnpackGoesOn'
  BY <1>2 DEF UnpackGoesOn
<1>3. ASSUME NEW r \in Requests, Begin(r) PROVE UnpackGoesOn'
  <2>1. /\ archive' = archive /\ folds' = folds /\ disk' = disk /\ phase' = r.kind
        /\ r.kind \in {"member", "extract", "unpack"}
        /\ r.kind = "unpack" => todo' = Members(Slots(archive))
    BY <1>3, RequestsAssumption DEF Begin
  <2>2. CASE r.kind = "unpack"
    <3> DEFINE order == Members(Slots(archive))
    <3>1. order \in Seq(Slots(archive))
      BY AllMembers DEF UnderWay
    <3>2. Members(Slots(archive))' = order
      BY <2>1, SameArchive
    <3> HIDE DEF order
    <3>3. IsRest(order, order) /\ Len(order) - Len(order) = 0
      BY <3>1, WholeIsRest
    <3>4. /\ IsRest(todo, Members(Slots(archive)))'
          /\ (Len(Members(Slots(archive))) - Len(todo))' = 0
      BY <2>1, <2>2, <3>2, <3>3 DEF order, IsRest
    <3>5. Placed(disk, Len(Members(Slots(archive))) - Len(todo))'
      BY <3>4 DEF Placed
    <3> QED BY <2>1, <2>2, <3>4, <3>5 DEF UnpackGoesOn
  <2>3. CASE r.kind # "unpack"
    BY <1>1, <2>1, <2>3
  <2> QED BY <2>2, <2>3
<1>4. CASE ExtractMember
  BY <1>1, <1>2, <1>4 DEF ExtractMember, EndAs, UnderWay
<1>5. CASE ExtractNext
  BY <1>1, <1>5 DEF ExtractNext, EndAs
<1>6. CASE ExtractEnd
  BY <1>1, <1>2, <1>6 DEF ExtractEnd, EndAs, UnderWay
<1>7. CASE Die
  BY <1>1, <1>7 DEF Die
<1>8. CASE UNCHANGED vars
  <2>1. /\ archive' = archive /\ folds' = folds /\ disk' = disk /\ phase' = phase
        /\ todo' = todo /\ pass' = pass /\ request' = request
    BY <1>8 DEF vars
  <2>2. Members(Slots(archive))' = Members(Slots(archive))
    BY <2>1, SameArchive
  <2>3. /\ \A f, v : Placed(f, v)' <=> Placed(f, v)
        /\ \A f, last, left : AllDerived(f, last, left)' <=> AllDerived(f, last, left)
    BY <2>1, SamePlaces
  <2>4. Spot(ModPath)' = Spot(ModPath)
    BY <2>1, SameArchive DEF Spot
  <2> QED BY <2>1, <2>2, <2>3, <2>4 DEF UnpackGoesOn, IsRest, Range
<1> QED BY <1>3, <1>4, <1>5, <1>6, <1>7, <1>8, UnpackStep, NextPassStep, DeriveStep, WriteModStep
        DEF Next

\* Once every pass is over, that is what UnpackedIsLast says.
LEMMA UnpackedInTheEnd ==
  ASSUME UnderWay, UnpackGoesOn
  PROVE  UnpackedIsLast
<1> SUFFICES ASSUME phase = "done", request.kind = "unpack"
             PROVE  /\ Spot(ModPath) \in DOMAIN disk /\ disk[Spot(ModPath)] = ModText
                    /\ \A n \in DOMAIN Written :
                         LET at   == Spot(Written[n])
                             last == \A m \in DOMAIN Written : Spot(Written[m]) = at => m <= n
                         IN  at \notin Outputs \cup {Spot(ModPath)} /\ last =>
                               /\ disk[at] = FileOf(Members(Slots(archive))[n]).data
                               /\ \A d \in DOMAIN Derivers :
                                    Written[n] \in Sources(d) /\ DerivedFrom[disk[at]] # Nothing =>
                                      \E p \in Sources(d) :
                                        LET to == Spot(Derivative(d, p))
                                        IN  /\ to = Spot(Derivative(d, Written[n]))
                                            /\ to \in DOMAIN disk
                                            /\ disk[to] = DerivedFrom[disk[Spot(p)]]
                                            /\ DerivedFrom[disk[Spot(p)]] # Nothing
  BY DEF UnpackedIsLast
<1>1. archive \in Archives
  BY DEF UnderWay
<1>2. DOMAIN Written = 1 .. Len(Members(Slots(archive)))
  BY <1>1, AllMembers
<1>3. /\ Placed(disk, Len(Members(Slots(archive)))) /\ AllDerived(disk, Len(Derivers), {})
      /\ Spot(ModPath) \in DOMAIN disk /\ disk[Spot(ModPath)] = ModText
  BY DEF UnpackGoesOn
<1> SUFFICES ASSUME NEW n \in DOMAIN Written,
                    Spot(Written[n]) \notin Outputs \cup {Spot(ModPath)},
                    \A m \in DOMAIN Written : Spot(Written[m]) = Spot(Written[n]) => m <= n
             PROVE  /\ disk[Spot(Written[n])] = FileOf(Members(Slots(archive))[n]).data
                    /\ \A d \in DOMAIN Derivers : Written[n] \in Sources(d) =>
                         DerivedThere(disk, d, Written[n])
  BY <1>3 DEF DerivedThere
<1>4. disk[Spot(Written[n])] = FileOf(Members(Slots(archive))[n]).data
  BY <1>2, <1>3 DEF Placed
<1>5. ASSUME NEW d \in DOMAIN Derivers, Written[n] \in Sources(d)
      PROVE  DerivedThere(disk, d, Written[n])
  <2>1. d \in 1 .. Len(Derivers)
    BY DeriversAssumption
  <2> QED BY <1>3, <1>5, <2>1 DEF AllDerived
<1> QED BY <1>4, <1>5

\* However the commands before it ended, an unpack that succeeds leaves the
\* project file, the last member at each place neither it nor a derived file takes,
\* and under the name of what is derived of that one its derivative, or that of
\* another file whose derivative has the same name.
THEOREM UnpackLeavesTheLast == Spec => []UnpackedIsLast
<1>1. Init => UnderWay /\ UnpackGoesOn
  BY UnderWayFirst, UnpackFirst
<1>2. UnderWay /\ UnpackGoesOn /\ [Next]_vars => (UnderWay /\ UnpackGoesOn)'
  BY UnderWayStep, UnpackGoesOnStep
<1>3. UnderWay /\ UnpackGoesOn => UnpackedIsLast
  BY UnpackedInTheEnd
<1> QED BY <1>1, <1>2, <1>3, PTL DEF Spec

-----------------------------------------------------------------------------
(* Extraction and lookup agree. *)

LoweredPaths(list, v) == {LowerPath(PathOf(list[n])) : n \in 1 .. v}

\* In f, of the first v members of the list, the first of each path up to case.
FirstsThere(f, list, v) ==
  \A n \in 1 .. v :
    (\A m \in 1 .. v : LowerPath(PathOf(list[m])) = LowerPath(PathOf(list[n])) => n <= m) =>
      \/ FileOf(list[n]).encrypted
      \/ /\ Spot(PathOf(list[n])) \in DOMAIN f
         /\ f[Spot(PathOf(list[n]))] = FileOf(list[n]).data

ExtractGoesOn ==
  /\ phase = "extract" =>
       LET all == Members(Chosen(request))
       IN  /\ IsRest(todo, all)
           /\ seen = LoweredPaths(all, Len(all) - Len(todo))
           /\ FirstsThere(disk, all, Len(all) - Len(todo))
  /\ phase = "done" /\ request.kind = "extract" =>
       LET all == Members(Chosen(request))
       IN  /\ request.wanted \subseteq LoweredPaths(all, Len(all))
           /\ FirstsThere(disk, all, Len(all))
  /\ phase = "done" /\ request.kind = "member" =>
       \E file \in FindMember(archive, request.member) : disk[Spot(request.output)] = file.data

LEMMA SameFirsts ==
  ASSUME archive' = archive, folds' = folds
  PROVE  /\ \A list, v : LoweredPaths(list, v)' = LoweredPaths(list, v)
         /\ \A f, list, v : FirstsThere(f, list, v)' <=> FirstsThere(f, list, v)
<1>1. /\ \A path : Spot(path)' = Spot(path)
      /\ \A s : FileOf(s)' = FileOf(s) /\ PathOf(s)' = PathOf(s)
  BY SameArchive
<1>2. \A list, v : LoweredPaths(list, v)' = LoweredPaths(list, v)
  BY <1>1 DEF LoweredPaths
<1>3. \A f, list, v : FirstsThere(f, list, v)' <=> FirstsThere(f, list, v)
  BY <1>1 DEF FirstsThere
<1> QED BY <1>2, <1>3

\* The next member is written where nothing is, or needs no writing.
Extracted(g, s, before) ==
  \/ g = disk /\ (LowerPath(PathOf(s)) \in before \/ FileOf(s).encrypted)
  \/ g = Put(PathOf(s), FileOf(s).data) /\ Spot(PathOf(s)) \notin DOMAIN disk

LEMMA NextFirst ==
  ASSUME NEW list, NEW v \in Nat, FirstsThere(disk, list, v), NEW g, NEW s, s = list[v + 1],
         Extracted(g, s, LoweredPaths(list, v))
  PROVE  /\ FirstsThere(g, list, v + 1)
         /\ LoweredPaths(list, v + 1) = LoweredPaths(list, v) \cup {LowerPath(PathOf(s))}
<1> DEFINE Low(n) == LowerPath(PathOf(list[n]))
           There(f, n) == \/ FileOf(list[n]).encrypted
                          \/ /\ Spot(PathOf(list[n])) \in DOMAIN f
                             /\ f[Spot(PathOf(list[n]))] = FileOf(list[n]).data
<1>0. \/ g = disk /\ (LowerPath(PathOf(s)) \in LoweredPaths(list, v) \/ FileOf(s).encrypted)
      \/ g = Put(PathOf(s), FileOf(s).data) /\ Spot(PathOf(s)) \notin DOMAIN disk
  BY DEF Extracted
<1>1. \A n \in 1 .. v + 1 : n \in 1 .. v \/ n = v + 1
  OBVIOUS
<1>2. v + 1 \in 1 .. v + 1 /\ 1 .. v \subseteq 1 .. v + 1 /\ \A n \in 1 .. v : ~ (v + 1 <= n)
  OBVIOUS
<1>3. LoweredPaths(list, v + 1) = LoweredPaths(list, v) \cup {LowerPath(PathOf(s))}
  BY <1>1, <1>2 DEF LoweredPaths
<1>4. \A n \in 1 .. v : (\A m \in 1 .. v : Low(m) = Low(n) => n <= m) => There(disk, n)
  BY DEF FirstsThere
<1>5. ASSUME NEW n \in 1 .. v, There(disk, n) PROVE There(g, n)
  <2>1. CASE g = disk
    BY <1>5, <2>1
  <2>2. CASE g = Put(PathOf(s), FileOf(s).data) /\ Spot(PathOf(s)) \notin DOMAIN disk
    <3>1. /\ DOMAIN g = DOMAIN disk \cup {Spot(PathOf(s))}
          /\ \A at \in DOMAIN disk : g[at] = disk[at]
      BY <2>2 DEF Put
    <3> QED BY <1>5, <3>1
  <2> QED BY <1>0, <2>1, <2>2
<1>6. ASSUME \A m \in 1 .. v + 1 : Low(m) = Low(v + 1) => v + 1 <= m PROVE There(g, v + 1)
  <2>1. Low(v + 1) \notin LoweredPaths(list, v)
    BY <1>2, <1>6 DEF LoweredPaths
  <2>2. CASE g = disk
    BY <1>0, <2>1, <2>2 DEF Put
  <2>3. CASE g = Put(PathOf(s), FileOf(s).data)
    <3>1. Spot(PathOf(s)) \in DOMAIN g /\ g[Spot(PathOf(s))] = FileOf(s).data
      BY <2>3 DEF Put
    <3> QED BY <3>1
  <2> QED BY <1>0, <2>2, <2>3
<1>7. \A n \in 1 .. v + 1 : (\A m \in 1 .. v + 1 : Low(m) = Low(n) => n <= m) => There(g, n)
  <2> SUFFICES ASSUME NEW n \in 1 .. v + 1, \A m \in 1 .. v + 1 : Low(m) = Low(n) => n <= m
               PROVE  There(g, n)
    OBVIOUS
  <2>1. CASE n \in 1 .. v
    <3>1. \A m \in 1 .. v : Low(m) = Low(n) => n <= m
      BY <1>2
    <3> HIDE DEF There, Low
    <3> QED BY <1>4, <1>5, <2>1, <3>1
  <2>2. CASE n = v + 1
    <3> HIDE DEF There, Low
    <3> QED BY <1>6, <2>2
  <2> QED BY <1>1, <2>1, <2>2
<1> QED BY <1>3, <1>7 DEF FirstsThere

LEMMA ChosenMembers ==
  ASSUME archive \in Archives, NEW r
  PROVE  /\ Members(Chosen(r)) \in Seq(Chosen(r)) /\ Len(Members(Chosen(r))) \in Nat
         /\ DOMAIN Members(Chosen(r)) = 1 .. Len(Members(Chosen(r)))
         /\ \A s \in Chosen(r) : \E k \in DOMAIN Members(Chosen(r)) : Members(Chosen(r))[k] = s
         /\ \A k, l \in DOMAIN Members(Chosen(r)) :
              k < l => Precedes(archive, Members(Chosen(r))[k], Members(Chosen(r))[l])
<1> DEFINE S == Chosen(r)
<1>1. S \in SUBSET Slots(archive)
  BY DEF Chosen
<1> HIDE DEF S
<1>2. /\ Members(S) \in Seq(S) /\ Len(Members(S)) \in Nat
      /\ DOMAIN Members(S) = 1 .. Len(Members(S))
      /\ \A s \in S : \E k \in DOMAIN Members(S) : Members(S)[k] = s
      /\ \A k, l \in DOMAIN Members(S) :
           k < l => Precedes(archive, Members(S)[k], Members(S)[l])
  BY <1>1, MembersInOrder
<1> QED BY <1>2 DEF S

LEMMA ExtractStep ==
  ASSUME UnderWay, ExtractGoesOn, ExtractNext
  PROVE  ExtractGoesOn'
<1> DEFINE all == Members(Chosen(request))
           v == Len(all) - Len(todo)
           s == Head(todo)
<1>1. /\ archive' = archive /\ folds' = folds /\ request' = request /\ phase = "extract"
      /\ todo # <<>> /\ archive \in Archives /\ todo \in Seq(Chosen(request))
  BY DEF ExtractNext, EndAs, UnderWay
<1>2. CASE EndAs("failed")
  BY <1>2 DEF ExtractGoesOn, EndAs
<1>3. CASE /\ ~ Refused(s)
           /\ disk' = (IF Writes = {} THEN disk ELSE Put(PathOf(s), FileOf(s).data))
           /\ seen' = seen \cup {LowerPath(PathOf(s))} /\ todo' = Tail(todo) /\ phase' = phase
  <2>1. all \in Seq(Chosen(request))
    BY <1>1, ChosenMembers
  <2>2. IsRest(todo, all) /\ seen = LoweredPaths(all, v) /\ FirstsThere(disk, all, v)
    BY <1>1 DEF ExtractGoesOn
  <2>3. Members(Chosen(request))' = all
    <3>1. \A r : Chosen(r)' = Chosen(r)
      BY <1>1, SameArchive
    <3>2. Chosen(request)' = Chosen(request)
      BY <1>1, <3>1
    <3>3. \A S : Members(S)' = Members(S)
      BY <1>1, SameArchive
    <3> QED BY <3>2, <3>3
  <2> HIDE DEF all
  <2>4. /\ v \in Nat /\ v + 1 \in DOMAIN all /\ s = all[v + 1]
        /\ IsRest(Tail(todo), all) /\ Len(all) - Len(Tail(todo)) = v + 1
    BY <1>1, <2>1, <2>2, RestIs
  <2>5. PICK g : g = disk'
    OBVIOUS
  <2>6. Extracted(g, s, LoweredPaths(all, v))
    <3>1. Writes = ExtractWrites(s)
      BY <1>1 DEF Writes
    <3>2. CASE Skipped(s)
      <4>1. Writes = {}
        BY <3>1, <3>2 DEF ExtractWrites
      <4>2. g = disk
        BY <1>3, <2>5, <4>1
      <4> QED BY <2>2, <3>2, <4>2 DEF Skipped, Extracted
    <3>3. CASE ~ Skipped(s)
      <4>1. Writes # {}
        BY <1>3, <3>1, <3>3 DEF ExtractWrites
      <4>2. g = Put(PathOf(s), FileOf(s).data)
        BY <1>3, <2>5, <4>1
      <4>3. Spot(PathOf(s)) \notin DOMAIN disk
        BY <1>3, <3>3 DEF Refused, Taken
      <4> QED BY <4>2, <4>3 DEF Extracted
    <3> QED BY <3>2, <3>3
  <2> HIDE DEF v, s
  <2>7. FirstsThere(g, all, v + 1) /\ seen' = LoweredPaths(all, v + 1)
    <3>1. /\ FirstsThere(g, all, v + 1)
          /\ LoweredPaths(all, v + 1) = LoweredPaths(all, v) \cup {LowerPath(PathOf(s))}
      <4>1. v \in Nat /\ FirstsThere(disk, all, v) /\ s = all[v + 1]
        BY <2>2, <2>4
      <4>2. Extracted(g, s, LoweredPaths(all, v))
        BY <2>6
      <4> QED BY <4>1, <4>2, NextFirst
    <3> QED BY <1>3, <2>2, <3>1 DEF s
  <2>8. PICK list, n : list = all /\ n = v + 1
    OBVIOUS
  <2>9. FirstsThere(g, list, n)' /\ seen' = LoweredPaths(list, n)'
    BY <1>1, <2>7, <2>8, SameFirsts
  <2>10. /\ Members(Chosen(request))' = list
         /\ (Len(Members(Chosen(request))) - Len(todo))' = n
         /\ IsRest(todo, Members(Chosen(request)))'
    BY <1>3, <2>3, <2>4, <2>8 DEF IsRest
  <2> QED BY <1>1, <1>3, <2>5, <2>9, <2>10 DEF ExtractGoesOn
<1> QED BY <1>2, <1>3 DEF ExtractNext

LEMMA ExtractEndStep ==
  ASSUME UnderWay, ExtractGoesOn, ExtractEnd
  PROVE  ExtractGoesOn'
<1> DEFINE all == Members(Chosen(request))
<1>1. /\ archive' = archive /\ folds' = folds /\ request' = request /\ disk' = disk
      /\ phase = "extract" /\ todo = <<>> /\ archive \in Archives /\ request.kind = "extract"
      /\ phase' = IF request.wanted \subseteq seen THEN "done" ELSE "missing"
  BY DEF ExtractEnd, EndAs, UnderWay
<1>2. CASE ~ request.wanted \subseteq seen
  BY <1>1, <1>2 DEF ExtractGoesOn
<1>3. CASE request.wanted \subseteq seen
  <2>1. Len(all) - Len(todo) = Len(all)
    BY <1>1, ChosenMembers
  <2>2. request.wanted \subseteq LoweredPaths(all, Len(all)) /\ FirstsThere(disk, all, Len(all))
    BY <1>1, <1>3, <2>1 DEF ExtractGoesOn
  <2>3. Members(Chosen(request))' = all
    <3>1. \A r : Chosen(r)' = Chosen(r)
      BY <1>1, SameArchive
    <3>2. Chosen(request)' = Chosen(request)
      BY <1>1, <3>1
    <3>3. \A S : Members(S)' = Members(S)
      BY <1>1, SameArchive
    <3> QED BY <3>2, <3>3
  <2> HIDE DEF all
  <2>4. PICK g, list, n : g = disk /\ list = all /\ n = Len(all)
    OBVIOUS
  <2>5. FirstsThere(g, list, n)' /\ request.wanted \subseteq LoweredPaths(list, n)'
    BY <1>1, <2>2, <2>4, SameFirsts
  <2>6. Members(Chosen(request))' = list /\ Len(Members(Chosen(request)))' = n
    BY <2>3, <2>4
  <2> QED BY <1>1, <1>3, <2>4, <2>5, <2>6 DEF ExtractGoesOn
<1> QED BY <1>2, <1>3

LEMMA ExtractFirst == Init => ExtractGoesOn
BY DEF Init, ExtractGoesOn

LEMMA ExtractGoesOnStep ==
  ASSUME UnderWay, ExtractGoesOn, [Next]_vars
  PROVE  ExtractGoesOn'
<1>1. ASSUME phase' \notin {"extract", "done"} PROVE ExtractGoesOn'
  BY <1>1 DEF ExtractGoesOn
<1>2. ASSUME phase' = "done", request'.kind \notin {"extract", "member"} PROVE ExtractGoesOn'
  BY <1>2 DEF ExtractGoesOn
<1>3. ASSUME NEW r \in Requests, Begin(r) PROVE ExtractGoesOn'
  <2>1. /\ archive' = archive /\ folds' = folds /\ disk' = disk /\ phase' = r.kind
        /\ request' = r /\ seen' = {} /\ r.kind \in {"member", "extract", "unpack"}
        /\ r.kind = "extract" => todo' = Members(Chosen(r))
    BY <1>3, RequestsAssumption DEF Begin
  <2>2. CASE r.kind = "extract"
    <3> DEFINE all == Members(Chosen(r))
    <3>1. all \in Seq(Chosen(r))
      BY ChosenMembers DEF UnderWay
    <3>2. Members(Chosen(request))' = all
      <4>1. \A q : Chosen(q)' = Chosen(q)
        BY <2>1, SameArchive
      <4>2. Chosen(request)' = Chosen(r)
        BY <2>1, <4>1
      <4>3. \A S : Members(S)' = Members(S)
        BY <2>1, SameArchive
      <4> QED BY <4>2, <4>3
    <3> HIDE DEF all
    <3>3. IsRest(all, all) /\ Len(all) - Len(all) = 0
      BY <3>1, WholeIsRest
    <3>4. /\ IsRest(todo, Members(Chosen(request)))'
          /\ (Len(Members(Chosen(request))) - Len(todo))' = 0
      BY <2>1, <2>2, <3>2, <3>3 DEF all, IsRest
    <3>5. LoweredPaths(Members(Chosen(request)), Len(Members(Chosen(request))) - Len(todo))' = {}
      BY <3>4 DEF LoweredPaths
    <3>6. FirstsThere(disk, Members(Chosen(request)), Len(Members(Chosen(request))) - Len(todo))'
      BY <3>4 DEF FirstsThere
    <3> QED BY <2>1, <2>2, <3>4, <3>5, <3>6 DEF ExtractGoesOn
  <2>3. CASE r.kind # "extract"
    BY <1>1, <2>1, <2>3
  <2> QED BY <2>2, <2>3
<1>4. CASE ExtractMember
  <2>1. CASE EndAs("failed")
    BY <1>1, <2>1 DEF EndAs
  <2>2. CASE \E w \in Writes : /\ disk' = Put(w.to, w.data) /\ phase' = "done"
                               /\ UNCHANGED <<folds, archive, request>>
    <3>1. PICK w \in Writes : /\ disk' = Put(w.to, w.data) /\ phase' = "done"
                              /\ UNCHANGED <<folds, archive, request>>
      BY <2>2
    <3>2. w \in MemberWrites(request) /\ request.kind = "member"
      BY <1>4 DEF ExtractMember, Writes, UnderWay
    <3>3. PICK file \in FindMember(archive, request.member) :
            w = [to |-> request.output, data |-> file.data]
      BY <3>2 DEF MemberWrites
    <3>4. disk' = Put(request.output, file.data)
      BY <3>1, <3>3
    <3>5. disk'[Spot(request.output)] = file.data
      BY <3>4 DEF Put
    <3>6. (disk[Spot(request.output)])' = file.data
      BY <3>1, <3>5 DEF Spot
    <3> QED BY <3>1, <3>2, <3>6 DEF ExtractGoesOn
  <2> QED BY <1>4, <2>1, <2>2 DEF ExtractMember
<1>5. CASE UnpackNext
  BY <1>1, <1>5 DEF UnpackNext, EndAs
<1>6. CASE NextPass \/ WriteMod
  BY <1>1, <1>2, <1>6 DEF NextPass, WriteMod, EndAs, UnderWay
<1>7. CASE Derive
  BY <1>1, <1>7 DEF Derive
<1>8. CASE Die
  BY <1>1, <1>8 DEF Die
<1>9. CASE UNCHANGED vars
  <2>1. /\ archive' = archive /\ folds' = folds /\ disk' = disk /\ phase' = phase
        /\ todo' = todo /\ seen' = seen /\ request' = request
    BY <1>9 DEF vars
  <2>2. Members(Chosen(request))' = Members(Chosen(request))
    <3>1. \A r : Chosen(r)' = Chosen(r)
      BY <2>1, SameArchive
    <3>2. Chosen(request)' = Chosen(request)
      BY <2>1, <3>1
    <3>3. \A S : Members(S)' = Members(S)
      BY <2>1, SameArchive
    <3> QED BY <3>2, <3>3
  <2>3. /\ \A list, v : LoweredPaths(list, v)' = LoweredPaths(list, v)
        /\ \A f, list, v : FirstsThere(f, list, v)' <=> FirstsThere(f, list, v)
    BY <2>1, SameFirsts
  <2>4. (disk[Spot(request.output)])' = disk[Spot(request.output)]
    BY <2>1 DEF Spot
  <2> QED BY <2>1, <2>2, <2>3, <2>4 DEF ExtractGoesOn, IsRest
<1> QED BY <1>3, <1>4, <1>5, <1>6, <1>7, <1>8, <1>9, ExtractStep, ExtractEndStep DEF Next

\* The first chosen member of a path up to case is the first of all.
LEMMA ChosenFirst ==
  ASSUME archive \in Archives, NEW r, NEW n \in DOMAIN Members(Chosen(r)),
         \A m \in DOMAIN Members(Chosen(r)) :
           LowerPath(PathOf(Members(Chosen(r))[m])) = LowerPath(PathOf(Members(Chosen(r))[n])) => n <= m
  PROVE  /\ Members(Chosen(r))[n] \in Slots(archive)
         /\ \A q \in Slots(archive) :
              LowerPath(PathOf(q)) = LowerPath(PathOf(Members(Chosen(r))[n])) =>
                q = Members(Chosen(r))[n] \/ Precedes(archive, Members(Chosen(r))[n], q)
<1> DEFINE all == Members(Chosen(r))
           s == all[n]
<1>1. /\ all \in Seq(Chosen(r)) /\ Len(all) \in Nat /\ DOMAIN all = 1 .. Len(all)
      /\ \A q \in Chosen(r) : \E k \in DOMAIN all : all[k] = q
      /\ \A k, l \in DOMAIN all : k < l => Precedes(archive, all[k], all[l])
  BY ChosenMembers
<1> HIDE DEF all
<1>2. s \in Chosen(r) /\ n \in DOMAIN all
  BY <1>1 DEF all
<1>3. s \in Slots(archive) /\ LowerPath(PathOf(s)) \in r.wanted \cup r.filtered
  BY <1>2 DEF Chosen
<1>4. ASSUME NEW q \in Slots(archive), LowerPath(PathOf(q)) = LowerPath(PathOf(s))
      PROVE  q = s \/ Precedes(archive, s, q)
  <2>1. q \in Chosen(r)
    BY <1>3, <1>4 DEF Chosen
  <2>2. PICK k \in DOMAIN all : all[k] = q
    BY <1>1, <2>1
  <2>3. n <= k
    BY <1>4, <2>2 DEF all
  <2>4. n = k \/ n < k
    BY <1>1, <1>2, <2>3
  <2> QED BY <1>1, <1>2, <2>2, <2>4
<1> QED BY <1>3, <1>4 DEF all

\* It is one of Firsts, by its index among all members.
LEMMA FirstIsIndexed ==
  ASSUME archive \in Archives, NEW s \in Slots(archive),
         \A r \in Slots(archive) : LowerPath(PathOf(r)) = LowerPath(PathOf(s)) =>
                                     r = s \/ Precedes(archive, s, r)
  PROVE  \E n \in Firsts(LowerPath(PathOf(s))) : Written[n] = PathOf(s)
<1> DEFINE S == Slots(archive)
           order == Members(S)
<1>1. S \in SUBSET Slots(archive)
  OBVIOUS
<1> HIDE DEF S
<1>2. /\ order \in Seq(S) /\ Len(order) \in Nat /\ DOMAIN order = 1 .. Len(order)
      /\ \A q \in S : \E k \in DOMAIN order : order[k] = q
      /\ \A k, l \in DOMAIN order : k < l => Precedes(archive, order[k], order[l])
  BY <1>1, MembersInOrder
<1>3. DOMAIN Written = DOMAIN order /\ \A n \in DOMAIN order : Written[n] = PathOf(order[n])
  BY WrittenIs DEF S
<1>4. \A q, r \in S : ~ (Precedes(archive, q, r) /\ (r = q \/ Precedes(archive, r, q)))
  <2>1. IsArchive(archive)
    BY SlotsFinite
  <2>2. StrictOrder(S, TableOrder(archive))
    BY <1>1, <2>1, TableOrderIsStrict
  <2>3. \A q, r \in S : <<q, r>> \in TableOrder(archive) <=> Precedes(archive, q, r)
    BY TableOrderIs DEF S
  <2> QED BY <2>2, <2>3 DEF StrictOrder
<1>5. PICK n \in DOMAIN order : order[n] = s
  BY <1>2 DEF S
<1> HIDE DEF order
<1>6. ASSUME NEW m \in DOMAIN order, LowerPath(PathOf(order[m])) = LowerPath(PathOf(s)), ~ (n <= m)
      PROVE  FALSE
  <2>1. order[m] \in S /\ m < n
    BY <1>2, <1>6
  <2>2. Precedes(archive, order[m], s)
    BY <1>2, <1>5, <2>1
  <2>3. order[m] = s \/ Precedes(archive, s, order[m])
    BY <1>6, <2>1 DEF S
  <2> QED BY <1>4, <2>1, <2>2, <2>3 DEF S
<1>7. n \in Firsts(LowerPath(PathOf(s)))
  BY <1>3, <1>5, <1>6 DEF Firsts
<1> QED BY <1>3, <1>5, <1>7

\* Asked for in its own spelling, the first member of a path up to case is the one
\* find_member finds.
LEMMA FirstIsFound ==
  ASSUME archive \in Archives, NEW s \in Slots(archive),
         \A r \in Slots(archive) : LowerPath(PathOf(r)) = LowerPath(PathOf(s)) =>
                                     r = s \/ Precedes(archive, s, r)
  PROVE  FindMember(archive, PathOf(s)) = {FileOf(s)}
<1> DEFINE i    == s[1]
           dirs == s[2]
           k    == s[3]
           name == FileOf(s).name
           rel  == PathOf(s)
           table(j) == archive[j].tree[dirs].files
           exact == {j \in DOMAIN archive : /\ dirs \in DOMAIN archive[j].tree
                                           /\ Position(table(j), name) # 0}
<1>1. /\ IsArchive(archive) /\ s = <<i, dirs, k>> /\ i \in DOMAIN archive /\ i \in Nat
      /\ IsTree(archive[i].tree) /\ dirs \in DOMAIN archive[i].tree /\ dirs \in Seq(Names)
      /\ k \in DOMAIN table(i) /\ k \in Nat /\ FileOf(s) \in Files
  BY SlotsFinite, SlotParts DEF FileOf
<1>2. FileOf(s) = table(i)[k] /\ name \in Names
  BY <1>1 DEF FileOf, Files
<1>3. Front(rel) = dirs /\ Last(rel) = name
  BY <1>1, <1>2, FrontOfAppend DEF PathOf
<1>4. ASSUME NEW j \in DOMAIN archive, dirs \in DOMAIN archive[j].tree
      PROVE  table(j) \in Seq(Files) /\ j \in Nat
  BY <1>1, <1>4, TocIs, FolderParts
<1>5. ASSUME NEW j \in DOMAIN archive, dirs \in DOMAIN archive[j].tree,
             NEW l \in DOMAIN table(j), table(j)[l].name = name
      PROVE  i < j \/ (i = j /\ k <= l)
  <2> DEFINE q == <<j, dirs, l>>
  <2>1. q \in Slots(archive) /\ q[1] = j /\ q[2] = dirs /\ q[3] = l
    BY <1>5, SlotIs
  <2> HIDE DEF q
  <2>2. PathOf(q) = PathOf(s)
    BY <1>2, <1>5, <2>1 DEF PathOf, FileOf
  <2>3. q = s \/ Precedes(archive, s, q)
    BY <2>1, <2>2
  <2>4. l \in Nat
    BY <1>4, <1>5
  <2>5. q = s => j = i /\ l = k
    BY <2>1
  <2>6. ~ DepthFirst(archive[i].tree, dirs, dirs)
    BY <1>1, DepthFirstOrders
  <2> QED BY <1>1, <2>1, <2>3, <2>4, <2>5, <2>6 DEF Precedes
<1> HIDE DEF i, dirs, k, name, rel, table
<1>6. Position(table(i), name) = k
  <2>1. table(i) \in Seq(Files)
    BY <1>1, <1>4
  <2>2. k \in 1 .. Len(table(i)) /\ table(i)[k].name = name
    BY <1>1, <1>2, <2>1 DEF name
  <2>3. \A l \in 1 .. k - 1 : table(i)[l].name # name
    <3> SUFFICES ASSUME NEW l \in 1 .. k - 1, table(i)[l].name = name PROVE FALSE
      OBVIOUS
    <3>1. l \in DOMAIN table(i) /\ ~ (k <= l) /\ ~ (i < i)
      BY <1>1, <2>1, <2>2
    <3> QED BY <1>1, <1>5, <3>1
  <2> QED BY <2>1, <2>2, <2>3, PositionIsFirst
<1>7. Min(exact) = i /\ exact # {}
  <2>1. i \in exact
    <3>1. k # 0
      BY <1>1, <1>4
    <3> QED BY <1>1, <1>6, <3>1
  <2>2. ASSUME NEW j \in exact PROVE j \in Nat /\ i <= j
    <3>1. table(j) \in Seq(Files) /\ j \in Nat
      BY <1>4
    <3>2. Position(table(j), name) \in 1 .. Len(table(j)) /\ table(j)[Position(table(j), name)].name = name
      BY <3>1, PositionFound
    <3>3. Position(table(j), name) \in DOMAIN table(j)
      BY <3>1, <3>2
    <3>4. i < j \/ i = j
      BY <1>5, <3>2, <3>3
    <3> QED BY <1>1, <3>1, <3>4
  <2> HIDE DEF exact
  <2>3. \A j \in exact : (\A l \in exact : j <= l) => j = i
    <3> SUFFICES ASSUME NEW j \in exact, \A l \in exact : j <= l PROVE j = i
      OBVIOUS
    <3>1. j <= i /\ i <= j /\ i \in Nat /\ j \in Nat
      BY <2>1, <2>2
    <3> QED BY <3>1
  <2> QED BY <2>1, <2>2, <2>3 DEF Min
<1>8. FindMember(archive, rel)
        = IF exact = {} THEN FoundIn(archive, rel)
                        ELSE {table(Min(exact))[Position(table(Min(exact)), name)]}
  BY <1>3 DEF FindMember, table
<1>9. FindMember(archive, rel) = {table(i)[k]}
  <2> HIDE DEF exact
  <2> QED BY <1>6, <1>7, <1>8
<1> QED BY <1>2, <1>9 DEF rel

LEMMA DoneInTheEnd ==
  ASSUME UnderWay, ExtractGoesOn
  PROVE  DoneAgreesWithLookup
<1> DEFINE Left(rel) ==
             \E n \in Firsts(rel) : \E file \in FindMember(archive, Written[n]) :
               \/ file.encrypted
               \/ Spot(Written[n]) \in DOMAIN disk /\ disk[Spot(Written[n])] = file.data
<1>0. archive \in Archives
  BY DEF UnderWay
<1> SUFFICES ASSUME phase = "done", request.kind = "extract",
                    NEW rel \in request.wanted \cup {LowerPath(PathOf(s)) : s \in Chosen(request)}
             PROVE  Left(rel)
  BY DEF DoneAgreesWithLookup, ExtractGoesOn
<1> DEFINE all == Members(Chosen(request))
           N == Len(all)
           Low(n) == LowerPath(PathOf(all[n]))
<1>1. /\ all \in Seq(Chosen(request)) /\ N \in Nat /\ DOMAIN all = 1 .. N
      /\ \A s \in Chosen(request) : \E k \in DOMAIN all : all[k] = s
  BY <1>0, ChosenMembers
<1>2. request.wanted \subseteq LoweredPaths(all, N) /\ FirstsThere(disk, all, N)
  BY DEF ExtractGoesOn
<1> HIDE DEF all
<1> DEFINE K == {n \in 1 .. N : Low(n) = rel}
<1>3. K # {}
  <2>1. CASE rel \in request.wanted
    BY <1>2, <2>1 DEF LoweredPaths
  <2>2. CASE \E s \in Chosen(request) : rel = LowerPath(PathOf(s))
    BY <1>1, <2>2
  <2> QED BY <2>1, <2>2
<1>4. PICK n \in K : \A m \in K : n <= m
  <2>1. K \subseteq Nat
    BY <1>1
  <2> HIDE DEF K
  <2> QED BY <1>3, <2>1, LeastNatural
<1>5. n \in 1 .. N /\ Low(n) = rel /\ \A m \in 1 .. N : Low(m) = Low(n) => n <= m
  BY <1>4
<1> DEFINE s == all[n]
<1>6. /\ s \in Slots(archive) /\ LowerPath(PathOf(s)) = rel
      /\ \A r \in Slots(archive) : LowerPath(PathOf(r)) = LowerPath(PathOf(s)) =>
                                     r = s \/ Precedes(archive, s, r)
  <2>1. n \in DOMAIN Members(Chosen(request))
    BY <1>1, <1>5 DEF all
  <2>2. \A m \in DOMAIN Members(Chosen(request)) :
          LowerPath(PathOf(Members(Chosen(request))[m]))
            = LowerPath(PathOf(Members(Chosen(request))[n])) => n <= m
    BY <1>1, <1>5 DEF all
  <2> QED BY <1>0, <1>5, <2>1, <2>2, ChosenFirst DEF all
<1>7. \/ FileOf(s).encrypted
      \/ Spot(PathOf(s)) \in DOMAIN disk /\ disk[Spot(PathOf(s))] = FileOf(s).data
  BY <1>2, <1>5 DEF FirstsThere
<1> HIDE DEF s
<1>8. FindMember(archive, PathOf(s)) = {FileOf(s)}
  BY <1>0, <1>6, FirstIsFound
<1>9. PICK w \in Firsts(rel) : Written[w] = PathOf(s)
  BY <1>0, <1>6, FirstIsIndexed
<1> QED BY <1>7, <1>8, <1>9

\* However the commands before it ended, an extract that reports success has left
\* each path asked for with the member extract-member finds under the spelling the
\* path has first in the archive, unless that is encrypted; and extract-member the
\* member it was asked for.
THEOREM SuccessAgreesWithLookup == Spec => []DoneAgreesWithLookup
<1>1. Init => UnderWay /\ ExtractGoesOn
  BY UnderWayFirst, ExtractFirst
<1>2. UnderWay /\ ExtractGoesOn /\ [Next]_vars => (UnderWay /\ ExtractGoesOn)'
  BY UnderWayStep, ExtractGoesOnStep
<1>3. UnderWay /\ ExtractGoesOn => DoneAgreesWithLookup
  BY DoneInTheEnd
<1> QED BY <1>1, <1>2, <1>3, PTL DEF Spec

=============================================================================
