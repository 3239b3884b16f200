------------------------ MODULE ArchiveEditsProofs ------------------------
(***************************************************************************)
(* Every edit of an archive leaves its trees well formed and their tables  *)
(* sorted, whatever callers ask for; and it leaves siblings unique if they *)
(* were and the names handed to upsert_stored are lowercase.               *)
(*                                                                         *)
(* Seen as a map from members to contents, every edit is a step of         *)
(* MemberStore or changes nothing, for any archives, paths and contents,   *)
(* where the archives to start from are lowercase and name no TOC twice.   *)
(* They may hold doubles, as cooked archives do: of those the map has the  *)
(* first.  On the way from what a table holds (ArchiveTreeProofs) to what  *)
(* an archive holds nothing is lost because a stored path is lowercase, so *)
(* that folding it forgets nothing.                                        *)
(***************************************************************************)
EXTENDS ArchiveMembers, ArchiveTreeProofs

\* A table whose entries keep their names keeps its order.
LEMMA SameNamesKeep ==
  ASSUME NEW a \in Seq(Files), NEW b \in Seq(Files), Len(b) = Len(a),
         \A k \in 1 .. Len(a) : b[k].name = a[k].name
  PROVE  /\ Sorted(a) => Sorted(b)
         /\ TableKept(a) => TableKept(b)
<1>1. DOMAIN a = 1 .. Len(a) /\ DOMAIN b = 1 .. Len(a)
  BY LenProperties
<1>2. Sorted(a) => Sorted(b)
  BY <1>1 DEF Sorted
<1>3. UniquelyNamed(a) => UniquelyNamed(b)
  BY <1>1 DEF UniquelyNamed
<1>4. AllLower(a) => AllLower(b)
  BY <1>1 DEF AllLower
<1> QED BY <1>2, <1>3, <1>4 DEF TableKept

\* repackage_art re-encodes files where they stand.
LEMMA RepackageInKeeps ==
  ASSUME NEW t, IsTree(t), TreeSorted(t), NEW done,
         \A s \in done : /\ s.path \in DOMAIN t
                         /\ s.file \in DOMAIN t[s.path].files
                         /\ ArtStorage[t[s.path].files[s.file].name.key] # NotArt
  PROVE  /\ IsTree(RepackageIn(t, done)) /\ TreeSorted(RepackageIn(t, done))
         /\ Kept(t) => Kept(RepackageIn(t, done))
<1> DEFINE w == RepackageIn(t, done)
           New(p, k) == IF \E s \in done : s.path = p /\ s.file = k
                        THEN Repackaged(t[p].files[k])
                        ELSE t[p].files[k]
           table(p) == [k \in DOMAIN t[p].files |-> New(p, k)]
<1>1. DOMAIN w = DOMAIN t
  BY DEF RepackageIn
<1>2. ASSUME NEW p \in DOMAIN t
      PROVE  /\ w[p] = [folders |-> t[p].folders, files |-> table(p)]
             /\ w[p].files = table(p)
  <2>1. t[p] = [folders |-> t[p].folders, files |-> t[p].files]
    BY FolderParts
  <2>2. w[p] = [t[p] EXCEPT !.files = table(p)]
    BY DEF RepackageIn
  <2> DEFINE r == table(p)
  <2>3. w[p] = [t[p] EXCEPT !.files = r]
    BY <2>2
  <2> HIDE DEF table, w, r
  <2>4. w[p] = [folders |-> t[p].folders, files |-> r] /\ w[p].files = r
    BY <2>1, <2>3
  <2> QED BY <2>4 DEF r
<1>3. ASSUME NEW p \in DOMAIN t, NEW k \in DOMAIN t[p].files
      PROVE  New(p, k) \in Files /\ New(p, k).name = t[p].files[k].name
  <2> DEFINE f == t[p].files[k]
             storage == ArtStorage[f.name.key]
  <2>1. f \in Files
    BY FolderParts
  <2>2. CASE \E s \in done : s.path = p /\ s.file = k
    <3>1. storage # NotArt
      BY <2>2
    <3>2. f.name.key \in Keys /\ f.data \in Data
      BY <2>1 DEF Files, Names
    <3>3. storage \in {"Store", "Compress"}
      BY <3>1, <3>2, InputsAssumption
    <3>4. New(p, k) = [f EXCEPT !.storage = storage, !.verify = "None",
                                !.crc = {[data |-> f.data, storage |-> storage]}]
      BY <2>2 DEF Repackaged
    <3>5. storage \in Storages /\ "None" \in Verifications
          /\ {[data |-> f.data, storage |-> storage]} \in SUBSET StoredBytes
      BY <3>2, <3>3 DEF Storages, Verifications, StoredBytes
    <3> HIDE DEF f, storage, New
    <3> QED BY <2>1, <3>4, <3>5 DEF Files, f
  <2>3. CASE ~ \E s \in done : s.path = p /\ s.file = k
    BY <2>1, <2>3
  <2> QED BY <2>2, <2>3
<1>4. ASSUME NEW p \in DOMAIN t
      PROVE  /\ table(p) \in Seq(Files) /\ Len(table(p)) = Len(t[p].files)
             /\ \A k \in 1 .. Len(t[p].files) : table(p)[k].name = t[p].files[k].name
             /\ t[p].files \in Seq(Files)
  <2>1. t[p].files \in Seq(Files) /\ DOMAIN t[p].files = 1 .. Len(t[p].files)
        /\ Len(t[p].files) \in Nat
    BY FolderParts
  <2> DEFINE n == Len(t[p].files)
  <2>2. n \in Nat /\ \A k \in 1 .. n : New(p, k) \in Files /\ New(p, k).name = t[p].files[k].name
    BY <1>3, <2>1
  <2>3. table(p) = [k \in 1 .. n |-> New(p, k)]
    BY <2>1
  <2> HIDE DEF New, n, table
  <2>4. table(p) \in [1 .. n -> Files]
    BY <2>2, <2>3
  <2>5. table(p) \in Seq(Files)
    BY <2>2, <2>4, SeqDef
  <2>6. Len(table(p)) = n
    BY <2>2, <2>3, <2>5, LenProperties
  <2>7. \A k \in 1 .. n : table(p)[k].name = t[p].files[k].name
    BY <2>2, <2>3
  <2> QED BY <2>1, <2>5, <2>6, <2>7 DEF n
<1> HIDE DEF w, New, table
<1>5. ASSUME NEW p \in DOMAIN t
      PROVE  /\ w[p].files = table(p)
             /\ w[p] = [folders |-> t[p].folders, files |-> w[p].files]
             /\ w[p].files \in Seq(Files)
             /\ Sorted(w[p].files)
             /\ TableKept(t[p].files) => TableKept(w[p].files)
  <2>1. w[p].files = table(p)
    BY <1>2
  <2>2. Sorted(t[p].files)
    BY DEF TreeSorted
  <2>3. Sorted(table(p)) /\ (TableKept(t[p].files) => TableKept(table(p)))
    BY <1>4, <2>2, SameNamesKeep
  <2> QED BY <1>2, <1>4, <2>1, <2>3
<1>6. IsTree(w) /\ TreeSorted(w)
  BY <1>1, <1>5, FilesEdited
<1>7. ASSUME Kept(t) PROVE Kept(w)
  <2>1. \A p \in DOMAIN t : TableKept(w[p].files)
    BY <1>5, <1>7 DEF Kept
  <2> QED BY <1>1, <1>5, <1>7, <2>1, FilesEdited
<1> QED BY <1>6, <1>7 DEF w

(***************************************************************************)
(* The edits.  Keeps(ts, w) is what each of them is shown to do.           *)
(***************************************************************************)
Keeps(ts, w) == Sound(w) /\ (ArchiveKept(ts) /\ CallersLower => ArchiveKept(w))

LEMMA UpsertStoredInKeeps ==
  ASSUME Sound(tocs), NEW to \in Targets, NEW d \in Data,
         UpsertStoredIn(to.alias, to.rel, d)
  PROVE  Keeps(tocs, tocs')
<1> DEFINE with == GetOrCreateToc(tocs, to.alias)
           i == TocIndex(with, to.alias)
           file == StoredFile(Last(to.rel), d)
<1>1. to.alias \in Aliases /\ to.rel \in Seq(Names) \ {<<>>}
  BY InputsAssumption
<1>2. PICK t \in InsertInTree(with[i].tree, to.rel, file) : tocs' = [with EXCEPT ![i].tree = t]
  BY DEF UpsertStoredIn, UpsertIn
<1>3. file \in Files
  BY <1>1, LastIsName, StoredFileTyped
<1>4. Sound(with) /\ (ArchiveKept(tocs) => ArchiveKept(with)) /\ i \in DOMAIN with
  BY <1>1, GetOrCreateTocSound
<1> HIDE DEF with, i, file
<1>5. IsTree(with[i].tree) /\ TreeSorted(with[i].tree)
  BY <1>4, TocParts DEF Sound, ArchiveSorted
<1>6. IsTree(t) /\ TreeSorted(t) /\ (Kept(with[i].tree) => Kept(t))
  BY <1>1, <1>2, <1>3, <1>5, InsertInTreeKeeps
<1>7. Sound(tocs')
  BY <1>2, <1>4, <1>6, PutTree
<1>8. ASSUME ArchiveKept(tocs) PROVE ArchiveKept(tocs')
  <2>1. ArchiveKept(with) /\ Kept(t)
    BY <1>4, <1>6, <1>8 DEF ArchiveKept
  <2> QED BY <1>2, <1>4, <1>6, <2>1, PutTree
<1> QED BY <1>7, <1>8 DEF Keeps

LEMMA UpsertStoredKeeps ==
  ASSUME Sound(tocs), NEW rel \in StoredRels, NEW d \in Data, UpsertStored(rel, d)
  PROVE  Keeps(tocs, tocs')
<1> DEFINE with == IF tocs = <<>> THEN GetOrCreateToc(tocs, DefaultAlias) ELSE tocs
           file == StoredFile(Last(rel), d)
           H == Holders(with, rel)
           i == Min(H)
<1>1. rel \in Seq(Names) \ {<<>>} /\ DefaultAlias \in Aliases
  BY InputsAssumption
<1>2. file \in Files /\ file.name = Last(rel) /\ Last(rel) \in Names
  BY <1>1, LastIsName, StoredFileTyped
<1>3. \/ H # {} /\ tocs' = [with EXCEPT ![i].tree = Overwrite(@, rel, file)]
      \/ \E t \in InsertInTree(with[1].tree, rel, file) : tocs' = [with EXCEPT ![1].tree = t]
  BY DEF UpsertStored
<1>4. Sound(with) /\ (ArchiveKept(tocs) => ArchiveKept(with)) /\ 1 \in DOMAIN with
  <2>1. CASE tocs = <<>>
    BY <1>1, <2>1, GetOrCreateTocSound
  <2>2. CASE tocs # <<>>
    <3>1. tocs \in Seq(Range(tocs)) /\ DOMAIN tocs = 1 .. Len(tocs)
      BY TocParts DEF Sound
    <3>2. Len(tocs) \in Nat \ {0}
      BY <2>2, <3>1, EmptySeq
    <3> QED BY <2>2, <3>1, <3>2
  <2> QED BY <2>1, <2>2
<1>5. H \subseteq DOMAIN with
      /\ \A j \in H : /\ Dirs(rel) \in DOMAIN with[j].tree
                      /\ FoldedPosition(with[j].tree[Dirs(rel)].files, Last(rel)) # 0
  BY DEF Holders
<1> HIDE DEF with, file, H
<1>6. \A j \in DOMAIN with : IsTree(with[j].tree) /\ TreeSorted(with[j].tree)
  BY <1>4, TocParts DEF Sound, ArchiveSorted
<1>7. CASE H # {} /\ tocs' = [with EXCEPT ![i].tree = Overwrite(@, rel, file)]
  <2>1. i \in H
    <3>1. DOMAIN with = 1 .. Len(with)
      BY <1>4, TocParts DEF Sound
    <3>2. H \subseteq Nat
      BY <1>5, <3>1
    <3>3. \E n \in H : \A m \in H : n <= m
      BY <1>7, <3>2, LeastNatural
    <3> QED BY <3>3 DEF Min
  <2> HIDE DEF i
  <2> DEFINE t == Overwrite(with[i].tree, rel, file)
  <2>2. i \in DOMAIN with /\ Dirs(rel) \in DOMAIN with[i].tree
        /\ FoldedPosition(with[i].tree[Dirs(rel)].files, Last(rel)) # 0
        /\ IsTree(with[i].tree) /\ TreeSorted(with[i].tree)
    BY <1>5, <1>6, <2>1
  <2>3. IsTree(t) /\ TreeSorted(t)
        /\ (Kept(with[i].tree) /\ IsLower(Last(rel)) => Kept(t))
    BY <1>1, <1>2, <2>2, OverwriteInTreeKeeps
  <2>4. tocs' = [with EXCEPT ![i].tree = t]
    BY <1>7
  <2> HIDE DEF t
  <2>5. Sound(tocs')
    BY <1>4, <2>2, <2>3, <2>4, PutTree
  <2>6. ASSUME ArchiveKept(tocs), CallersLower PROVE ArchiveKept(tocs')
    <3>1. ArchiveKept(with) /\ Kept(t)
      BY <1>4, <2>2, <2>3, <2>6 DEF ArchiveKept, CallersLower
    <3> QED BY <1>4, <2>2, <2>3, <2>4, <3>1, PutTree
  <2> QED BY <2>5, <2>6 DEF Keeps
<1>8. ASSUME NEW t \in InsertInTree(with[1].tree, rel, file),
             tocs' = [with EXCEPT ![1].tree = t]
      PROVE  Keeps(tocs, tocs')
  <2>1. IsTree(with[1].tree) /\ TreeSorted(with[1].tree)
    BY <1>4, <1>6
  <2>2. IsTree(t) /\ TreeSorted(t) /\ (Kept(with[1].tree) => Kept(t))
    BY <1>1, <1>2, <1>8, <2>1, InsertInTreeKeeps
  <2>3. Sound(tocs')
    BY <1>4, <1>8, <2>2, PutTree
  <2>4. ASSUME ArchiveKept(tocs) PROVE ArchiveKept(tocs')
    <3>1. ArchiveKept(with) /\ Kept(t)
      BY <1>4, <2>2, <2>4 DEF ArchiveKept
    <3> QED BY <1>4, <1>8, <2>2, <3>1, PutTree
  <2> QED BY <2>3, <2>4 DEF Keeps
<1> QED BY <1>3, <1>7, <1>8

LEMMA RemoveFilesWhereKeeps ==
  ASSUME Sound(tocs), NEW K, RemoveFilesWhere(K)
  PROVE  Keeps(tocs, tocs')
<1> DEFINE g == [i \in DOMAIN tocs |-> RemoveFrom(tocs[i].tree, K)]
<1>1. \A i \in DOMAIN tocs : IsTree(tocs[i].tree) /\ TreeSorted(tocs[i].tree)
  BY TocParts DEF Sound, ArchiveSorted
<1>2. \A i \in DOMAIN tocs : /\ IsTree(g[i]) /\ TreeSorted(g[i])
                             /\ Kept(tocs[i].tree) => Kept(g[i])
  BY <1>1, RemoveInTreeKeeps
<1>3. tocs' = [i \in DOMAIN tocs |-> [tocs[i] EXCEPT !.tree = g[i]]]
  BY DEF RemoveFilesWhere
<1> HIDE DEF g
<1>4. Sound(tocs') /\ ((\A i \in DOMAIN tocs : Kept(g[i])) => ArchiveKept(tocs'))
  BY <1>2, <1>3, MapTrees
<1> QED BY <1>2, <1>4 DEF Keeps, ArchiveKept

LEMMA SortDirectoriesKeeps ==
  ASSUME Sound(tocs), SortDirectories
  PROVE  Keeps(tocs, tocs')
<1> DEFINE g == [i \in DOMAIN tocs |-> SortTree(tocs[i].tree)]
<1>1. \A i \in DOMAIN tocs : IsTree(tocs[i].tree)
  BY TocParts DEF Sound
<1>2. \A i \in DOMAIN tocs : /\ IsTree(g[i]) /\ TreeSorted(g[i])
                             /\ Kept(tocs[i].tree) => Kept(g[i])
  BY <1>1, SortTreeKeeps
<1>3. tocs' = [i \in DOMAIN tocs |-> [tocs[i] EXCEPT !.tree = g[i]]]
  BY DEF SortDirectories, SortArchive
<1> HIDE DEF g
<1>4. Sound(tocs') /\ ((\A i \in DOMAIN tocs : Kept(g[i])) => ArchiveKept(tocs'))
  BY <1>2, <1>3, MapTrees
<1> QED BY <1>2, <1>4 DEF Keeps, ArchiveKept

LEMMA PruneEmptyFoldersKeeps ==
  ASSUME Sound(tocs), PruneEmptyFolders
  PROVE  Keeps(tocs, tocs')
<1> DEFINE g == [i \in DOMAIN tocs |-> PruneTree(tocs[i].tree)]
<1>1. \A i \in DOMAIN tocs : IsTree(tocs[i].tree) /\ TreeSorted(tocs[i].tree)
  BY TocParts DEF Sound, ArchiveSorted
<1>2. \A i \in DOMAIN tocs : /\ IsTree(g[i]) /\ TreeSorted(g[i])
                             /\ Kept(tocs[i].tree) => Kept(g[i])
  BY <1>1, PruneTreeKeeps
<1>3. tocs' = [i \in DOMAIN tocs |-> [tocs[i] EXCEPT !.tree = g[i]]]
  BY DEF PruneEmptyFolders
<1> HIDE DEF g
<1>4. Sound(tocs') /\ ((\A i \in DOMAIN tocs : Kept(g[i])) => ArchiveKept(tocs'))
  BY <1>2, <1>3, MapTrees
<1> QED BY <1>2, <1>4 DEF Keeps, ArchiveKept

LEMMA RepackageArtKeeps ==
  ASSUME Sound(tocs), RepackageArt
  PROVE  Keeps(tocs, tocs')
<1> DEFINE art    == {s \in Slots : ArtStorage[At(s).name.key] # NotArt}
           failed == {s \in art : At(s).encrypted}
           done   == {s \in art \ failed : \A f \in failed : VisitedBefore(s, f)}
           In(i)  == {s \in done : s.toc = i}
           g      == [i \in DOMAIN tocs |-> RepackageIn(tocs[i].tree, In(i))]
<1>1. \A i \in DOMAIN tocs : IsTree(tocs[i].tree) /\ TreeSorted(tocs[i].tree)
  BY TocParts DEF Sound, ArchiveSorted
<1>2. \A s \in done : /\ s.toc \in DOMAIN tocs
                      /\ s.path \in DOMAIN tocs[s.toc].tree
                      /\ s.file \in DOMAIN tocs[s.toc].tree[s.path].files
                      /\ ArtStorage[tocs[s.toc].tree[s.path].files[s.file].name.key] # NotArt
  <2>1. \A s \in Slots : /\ s.toc \in DOMAIN tocs
                         /\ s.path \in DOMAIN tocs[s.toc].tree
                         /\ s.file \in DOMAIN tocs[s.toc].tree[s.path].files
    BY DEF Slots
  <2>2. \A s \in done : s \in Slots /\ ArtStorage[At(s).name.key] # NotArt
    OBVIOUS
  <2> HIDE DEF done
  <2> QED BY <2>1, <2>2 DEF At
<1>3. ASSUME NEW i \in DOMAIN tocs
      PROVE  \A s \in In(i) : /\ s.path \in DOMAIN tocs[i].tree
                              /\ s.file \in DOMAIN tocs[i].tree[s.path].files
                              /\ ArtStorage[tocs[i].tree[s.path].files[s.file].name.key] # NotArt
  <2> HIDE DEF done
  <2> QED BY <1>2
<1>4. tocs' = [i \in DOMAIN tocs |-> [tocs[i] EXCEPT !.tree = g[i]]]
  BY DEF RepackageArt
<1>5. ASSUME NEW i \in DOMAIN tocs
      PROVE  g[i] = RepackageIn(tocs[i].tree, In(i))
  <2> HIDE DEF In
  <2> QED OBVIOUS
<1> HIDE DEF In, g
<1>6. ASSUME NEW i \in DOMAIN tocs
      PROVE  /\ IsTree(g[i]) /\ TreeSorted(g[i])
             /\ Kept(tocs[i].tree) => Kept(g[i])
  <2> DEFINE t == tocs[i].tree
             S == In(i)
  <2>1. IsTree(t) /\ TreeSorted(t) /\ g[i] = RepackageIn(t, S)
    BY <1>1, <1>5
  <2>2. \A s \in S : /\ s.path \in DOMAIN t
                     /\ s.file \in DOMAIN t[s.path].files
                     /\ ArtStorage[t[s.path].files[s.file].name.key] # NotArt
    BY <1>3
  <2> HIDE DEF t, S
  <2>3. /\ IsTree(RepackageIn(t, S)) /\ TreeSorted(RepackageIn(t, S))
        /\ Kept(t) => Kept(RepackageIn(t, S))
    BY <2>1, <2>2, RepackageInKeeps
  <2> QED BY <2>1, <2>3 DEF t
<1>7. Sound(tocs') /\ ((\A i \in DOMAIN tocs : Kept(g[i])) => ArchiveKept(tocs'))
  BY <1>4, <1>6, MapTrees
<1> QED BY <1>6, <1>7 DEF Keeps, ArchiveKept

(***************************************************************************)
(* Lowercase archives.  The exact lookup of insert_or_replace finds every  *)
(* rival of its key because all stored names are lowercase, so no edit of  *)
(* such an archive makes doubles, whether or not it came with some.        *)
(***************************************************************************)
ArchiveLower(ts) == \A i \in DOMAIN ts : TreeLower(ts[i].tree)

FilesAt(ts, i, p) == IF i \in DOMAIN ts THEN FilesIn(ts[i].tree, p) ELSE <<>>

\* Archive us lists no file name more often than archive ts, or lists it once.
NoMoreDoublesThan(ts, us) == \A i, p : NoMoreDoubles(FilesAt(ts, i, p), FilesAt(us, i, p))

StaysLower(ts, us) == ArchiveLower(us) /\ NoMoreDoublesThan(ts, us)

LEMMA EmptyFiles ==
  /\ TreeLower(EmptyTree) /\ \A p : FilesIn(EmptyTree, p) = <<>>
  /\ NoMoreDoubles(<<>>, <<>>)
<1>1. DOMAIN EmptyTree = {<<>>} /\ EmptyTree[<<>>].files = <<>>
  BY DEF EmptyTree, EmptyFolder
<1>2. Len(<<>>) = 0 /\ DOMAIN <<>> = {}
  OBVIOUS
<1>3. TreeLower(EmptyTree)
  BY <1>1, <1>2 DEF TreeLower, AllLowerPath, AllLower
<1>4. NoMoreDoubles(<<>>, <<>>)
  BY <1>2 DEF NoMoreDoubles, HasKey
<1> QED BY <1>1, <1>3, <1>4 DEF FilesIn

\* A TOC that is made for an upsert adds no file.
LEMMA NewTocLower ==
  ASSUME NEW ts, Sound(ts), ArchiveLower(ts), NEW alias \in Aliases
  PROVE  LET w == GetOrCreateToc(ts, alias)
         IN  ArchiveLower(w) /\ \A i, p : FilesAt(w, i, p) = FilesAt(ts, i, p)
<1> DEFINE w == GetOrCreateToc(ts, alias)
           toc == [alias |-> alias, tree |-> EmptyTree]
<1>1. ts \in Seq(Range(ts)) /\ Len(ts) \in Nat /\ DOMAIN ts = 1 .. Len(ts)
  BY TocParts DEF Sound
<1>2. CASE TocIndex(ts, alias) # 0
  <2>1. w = ts
    BY <1>2 DEF GetOrCreateToc
  <2> HIDE DEF w
  <2> QED BY <2>1 DEF w
<1>3. CASE TocIndex(ts, alias) = 0
  <2>1. w = Append(ts, toc)
    BY <1>3 DEF GetOrCreateToc
  <2>2. toc.tree = EmptyTree
    OBVIOUS
  <2> HIDE DEF w, toc
  <2>3. /\ DOMAIN w = 1 .. Len(ts) + 1
        /\ \A i \in 1 .. Len(ts) : w[i] = ts[i]
        /\ w[Len(ts) + 1] = toc
    BY <1>1, <2>1
  <2>4. \A i \in DOMAIN w : i = Len(ts) + 1 \/ i \in DOMAIN ts
    BY <1>1, <2>3
  <2>5. ArchiveLower(w)
    BY <1>1, <2>2, <2>3, <2>4, EmptyFiles DEF ArchiveLower
  <2>6. DOMAIN ts \subseteq DOMAIN w /\ Len(ts) + 1 \notin DOMAIN ts
    BY <1>1, <2>3
  <2>7. \A i, p : FilesAt(w, i, p) = FilesAt(ts, i, p)
    BY <1>1, <2>2, <2>3, <2>4, <2>6, EmptyFiles DEF FilesAt
  <2> QED BY <2>5, <2>7 DEF w
<1> QED BY <1>2, <1>3

\* One tree of an archive is replaced.
LEMMA PutLower ==
  ASSUME NEW ts, Sound(ts), ArchiveLower(ts), NEW i \in DOMAIN ts, NEW u,
         TreeLower(u), NoMoreDoublesIn(ts[i].tree, u)
  PROVE  StaysLower(ts, [ts EXCEPT ![i].tree = u])
<1> DEFINE us == [ts EXCEPT ![i].tree = u]
<1>1. /\ DOMAIN us = DOMAIN ts
      /\ \A j \in DOMAIN ts : us[j].tree = IF j = i THEN u ELSE ts[j].tree
  <2>1. \A j \in DOMAIN ts : ts[j] = [alias |-> ts[j].alias, tree |-> ts[j].tree]
    BY TocParts DEF Sound
  <2> QED BY <2>1
<1> HIDE DEF us
<1>2. ArchiveLower(us)
  BY <1>1 DEF ArchiveLower
<1>3. ASSUME NEW j, NEW p PROVE NoMoreDoubles(FilesAt(ts, j, p), FilesAt(us, j, p))
  <2>1. CASE j = i
    BY <1>1, <2>1 DEF NoMoreDoublesIn, FilesAt
  <2>2. CASE j # i /\ j \in DOMAIN ts
    <3>1. FilesAt(us, j, p) = FilesAt(ts, j, p) /\ FilesAt(ts, j, p) = FilesIn(ts[j].tree, p)
      BY <1>1, <2>2 DEF FilesAt
    <3>2. FilesIn(ts[j].tree, p) \in Seq(Files)
      BY <2>2, TocParts, FilesInTyped DEF Sound
    <3> QED BY <3>1, <3>2, SameKeysDoubles
  <2>3. CASE j \notin DOMAIN ts
    BY <1>1, <2>3, EmptyFiles DEF FilesAt
  <2> QED BY <2>1, <2>2, <2>3
<1> QED BY <1>2, <1>3 DEF StaysLower, NoMoreDoublesThan, us

\* Every tree of an archive gets a successor.
TreesTo(ts, us, g) ==
  us = [i \in DOMAIN ts |-> [ts[i] EXCEPT !.tree = g[i]]]

LEMMA TreesLower ==
  ASSUME NEW ts, Sound(ts), NEW us, NEW g, TreesTo(ts, us, g),
         \A i \in DOMAIN ts : TreeLower(g[i]) /\ NoMoreDoublesIn(ts[i].tree, g[i])
  PROVE  StaysLower(ts, us)
<1>1. DOMAIN us = DOMAIN ts /\ \A i \in DOMAIN ts : us[i].tree = g[i]
  <2>1. \A i \in DOMAIN ts : ts[i] = [alias |-> ts[i].alias, tree |-> ts[i].tree]
    BY TocParts DEF Sound
  <2> QED BY <2>1 DEF TreesTo
<1>2. ArchiveLower(us)
  BY <1>1 DEF ArchiveLower
<1>3. ASSUME NEW i, NEW p PROVE NoMoreDoubles(FilesAt(ts, i, p), FilesAt(us, i, p))
  <2>1. CASE i \in DOMAIN ts
    BY <1>1, <2>1 DEF NoMoreDoublesIn, FilesAt
  <2>2. CASE i \notin DOMAIN ts
    BY <1>1, <2>2, EmptyFiles DEF FilesAt
  <2> QED BY <2>1, <2>2
<1> QED BY <1>2, <1>3 DEF StaysLower, NoMoreDoublesThan

\* upsert_stored_in lowers what it is handed.
LEMMA UpsertStoredInLower ==
  ASSUME Sound(tocs), ArchiveLower(tocs), NEW to \in Targets, NEW d \in Data,
         UpsertStoredIn(to.alias, to.rel, d)
  PROVE  StaysLower(tocs, tocs')
<1> DEFINE with == GetOrCreateToc(tocs, to.alias)
           i == TocIndex(with, to.alias)
           file == StoredFile(Last(to.rel), d)
<1>1. to.alias \in Aliases /\ to.rel \in Seq(Names) \ {<<>>}
  BY InputsAssumption
<1>2. PICK t \in InsertInTree(with[i].tree, to.rel, file) : tocs' = [with EXCEPT ![i].tree = t]
  BY DEF UpsertStoredIn, UpsertIn
<1>3. file \in Files
  BY <1>1, LastIsName, StoredFileTyped
<1>4. Sound(with) /\ i \in DOMAIN with
  BY <1>1, GetOrCreateTocSound
<1>5. ArchiveLower(with) /\ \A j, p : FilesAt(with, j, p) = FilesAt(tocs, j, p)
  BY <1>1, NewTocLower
<1> HIDE DEF with, i, file
<1>6. IsTree(with[i].tree) /\ TreeLower(with[i].tree)
  BY <1>4, <1>5, TocParts DEF Sound, ArchiveLower
<1>7. TreeLower(t) /\ NoMoreDoublesIn(with[i].tree, t)
  BY <1>1, <1>2, <1>3, <1>6, InsertInTreeHolds
<1>8. StaysLower(with, tocs')
  BY <1>2, <1>4, <1>5, <1>7, PutLower
<1> QED BY <1>5, <1>8 DEF StaysLower, NoMoreDoublesThan

\* upsert_stored overwrites the first of its key, or lowers what it is handed.
LEMMA UpsertStoredLower ==
  ASSUME CallersLower, Sound(tocs), ArchiveLower(tocs), NEW rel \in StoredRels, NEW d \in Data,
         UpsertStored(rel, d)
  PROVE  StaysLower(tocs, tocs')
<1> DEFINE with == IF tocs = <<>> THEN GetOrCreateToc(tocs, DefaultAlias) ELSE tocs
           file == StoredFile(Last(rel), d)
           H == Holders(with, rel)
           i == Min(H)
<1>1. rel \in Seq(Names) \ {<<>>} /\ DefaultAlias \in Aliases
  BY InputsAssumption
<1>2. file \in Files /\ file.name = Last(rel) /\ IsLower(Last(rel))
  BY <1>1, LastIsName, StoredFileTyped DEF CallersLower
<1>3. \/ H # {} /\ tocs' = [with EXCEPT ![i].tree = Overwrite(@, rel, file)]
      \/ \E t \in InsertInTree(with[1].tree, rel, file) : tocs' = [with EXCEPT ![1].tree = t]
  BY DEF UpsertStored
<1>4. /\ Sound(with) /\ 1 \in DOMAIN with
      /\ ArchiveLower(with) /\ \A j, p : FilesAt(with, j, p) = FilesAt(tocs, j, p)
  <2>1. CASE tocs = <<>>
    BY <1>1, <2>1, GetOrCreateTocSound, NewTocLower
  <2>2. CASE tocs # <<>>
    <3>1. tocs \in Seq(Range(tocs)) /\ DOMAIN tocs = 1 .. Len(tocs)
      BY TocParts DEF Sound
    <3>2. Len(tocs) \in Nat \ {0}
      BY <2>2, <3>1, EmptySeq
    <3> QED BY <2>2, <3>1, <3>2
  <2> QED BY <2>1, <2>2
<1>5. H \subseteq DOMAIN with
      /\ \A j \in H : /\ Dirs(rel) \in DOMAIN with[j].tree
                      /\ FoldedPosition(with[j].tree[Dirs(rel)].files, Last(rel)) # 0
  BY DEF Holders
<1> HIDE DEF with, file, H
<1>6. \A j \in DOMAIN with : IsTree(with[j].tree) /\ TreeLower(with[j].tree)
  BY <1>4, TocParts DEF Sound, ArchiveLower
<1>7. CASE H # {} /\ tocs' = [with EXCEPT ![i].tree = Overwrite(@, rel, file)]
  <2>1. i \in H
    <3>1. DOMAIN with = 1 .. Len(with)
      BY <1>4, TocParts DEF Sound
    <3>2. H \subseteq Nat
      BY <1>5, <3>1
    <3>3. \E n \in H : \A m \in H : n <= m
      BY <1>7, <3>2, LeastNatural
    <3> QED BY <3>3 DEF Min
  <2> HIDE DEF i
  <2> DEFINE t == Overwrite(with[i].tree, rel, file)
  <2>2. i \in DOMAIN with /\ Dirs(rel) \in DOMAIN with[i].tree
        /\ FoldedPosition(with[i].tree[Dirs(rel)].files, Last(rel)) # 0
        /\ IsTree(with[i].tree) /\ TreeLower(with[i].tree)
    BY <1>5, <1>6, <2>1
  <2>3. TreeLower(t) /\ NoMoreDoublesIn(with[i].tree, t)
    BY <1>1, <1>2, <2>2, OverwriteInTreeHolds
  <2>4. tocs' = [with EXCEPT ![i].tree = t]
    BY <1>7
  <2> HIDE DEF t
  <2>5. StaysLower(with, tocs')
    BY <1>4, <2>2, <2>3, <2>4, PutLower
  <2> QED BY <1>4, <2>5 DEF StaysLower, NoMoreDoublesThan
<1>8. ASSUME NEW t \in InsertInTree(with[1].tree, rel, file),
             tocs' = [with EXCEPT ![1].tree = t]
      PROVE  StaysLower(tocs, tocs')
  <2>1. IsTree(with[1].tree) /\ TreeLower(with[1].tree)
    BY <1>4, <1>6
  <2>2. TreeLower(t) /\ NoMoreDoublesIn(with[1].tree, t)
    BY <1>1, <1>2, <1>8, <2>1, InsertInTreeHolds
  <2>3. StaysLower(with, tocs')
    BY <1>4, <1>8, <2>2, PutLower
  <2> QED BY <1>4, <2>3 DEF StaysLower, NoMoreDoublesThan
<1> QED BY <1>3, <1>7, <1>8

\* The edits that go through every tree.
LEMMA SweepsLower ==
  ASSUME Sound(tocs), ArchiveLower(tocs),
         \/ \E K \in Predicates : RemoveFilesWhere(K)
         \/ RepackageArt \/ SortDirectories \/ PruneEmptyFolders
  PROVE  StaysLower(tocs, tocs')
<1>1. \A i \in DOMAIN tocs : IsTree(tocs[i].tree) /\ TreeLower(tocs[i].tree)
  BY TocParts DEF Sound, ArchiveLower
<1>2. \E g : /\ TreesTo(tocs, tocs', g)
             /\ \A i \in DOMAIN tocs : TreeLower(g[i]) /\ NoMoreDoublesIn(tocs[i].tree, g[i])
  <2>1. ASSUME NEW K \in Predicates, RemoveFilesWhere(K)
        PROVE  \E g : /\ TreesTo(tocs, tocs', g)
                      /\ \A i \in DOMAIN tocs : TreeLower(g[i]) /\ NoMoreDoublesIn(tocs[i].tree, g[i])
    <3> DEFINE g == [i \in DOMAIN tocs |-> RemoveFrom(tocs[i].tree, K)]
    <3>1. TreesTo(tocs, tocs', g)
      BY <2>1 DEF RemoveFilesWhere, TreesTo
    <3>2. \A i \in DOMAIN tocs : TreeLower(g[i]) /\ NoMoreDoublesIn(tocs[i].tree, g[i])
      BY <1>1, RemoveInTreeHolds
    <3> HIDE DEF g
    <3> QED BY <3>1, <3>2
  <2>2. CASE RepackageArt
    <3> DEFINE art    == {s \in Slots : ArtStorage[At(s).name.key] # NotArt}
               failed == {s \in art : At(s).encrypted}
               done   == {s \in art \ failed : \A f \in failed : VisitedBefore(s, f)}
               In(i)  == {s \in done : s.toc = i}
               g      == [i \in DOMAIN tocs |-> RepackageIn(tocs[i].tree, In(i))]
    <3>1. tocs' = [i \in DOMAIN tocs |-> [tocs[i] EXCEPT !.tree = RepackageIn(@, In(i))]]
      BY <2>2 DEF RepackageArt
    <3> HIDE DEF In
    <3>2. TreesTo(tocs, tocs', g)
      BY <3>1 DEF TreesTo
    <3>3. \A i \in DOMAIN tocs : TreeLower(g[i]) /\ NoMoreDoublesIn(tocs[i].tree, g[i])
      BY <1>1, RepackageInHolds
    <3> HIDE DEF g
    <3> QED BY <3>2, <3>3
  <2>3. CASE SortDirectories
    <3> DEFINE g == [i \in DOMAIN tocs |-> SortTree(tocs[i].tree)]
    <3>1. TreesTo(tocs, tocs', g)
      BY <2>3 DEF SortDirectories, SortArchive, TreesTo
    <3>2. \A i \in DOMAIN tocs : TreeLower(g[i]) /\ NoMoreDoublesIn(tocs[i].tree, g[i])
      BY <1>1, SortTreeHolds
    <3> HIDE DEF g
    <3> QED BY <3>1, <3>2
  <2>4. CASE PruneEmptyFolders
    <3> DEFINE g == [i \in DOMAIN tocs |-> PruneTree(tocs[i].tree)]
    <3>1. TreesTo(tocs, tocs', g)
      BY <2>4 DEF PruneEmptyFolders, TreesTo
    <3>2. \A i \in DOMAIN tocs : TreeLower(g[i]) /\ NoMoreDoublesIn(tocs[i].tree, g[i])
      BY <1>1, PruneTreeHolds
    <3> HIDE DEF g
    <3> QED BY <3>1, <3>2
  <2> QED BY <2>1, <2>2, <2>3, <2>4
<1> QED BY <1>2, TreesLower

(***************************************************************************)
(* The theorems.                                                           *)
(***************************************************************************)
LEMMA InitSound ==
  Init => Sound(tocs) /\ (BasesKept => ArchiveKept(tocs))
<1> SUFFICES ASSUME Init PROVE Sound(tocs) /\ (BasesKept => ArchiveKept(tocs))
  OBVIOUS
<1>1. IsArchive(tocs) /\ \A i \in DOMAIN tocs : TreeSorted(tocs[i].tree)
  BY BasesAssumption DEF Init
<1>2. BasesKept => ArchiveKept(tocs)
  BY DEF Init, BasesKept, ArchiveKept
<1> QED BY <1>1, <1>2 DEF Sound, ArchiveSorted

LEMMA StepKeeps ==
  ASSUME Sound(tocs), Next
  PROVE  Keeps(tocs, tocs')
<1>1. CASE \E to \in Targets, d \in Data : UpsertStoredIn(to.alias, to.rel, d)
  BY <1>1, UpsertStoredInKeeps
<1>2. CASE \E rel \in StoredRels, d \in Data : UpsertStored(rel, d)
  BY <1>2, UpsertStoredKeeps
<1>3. CASE \E K \in Predicates : RemoveFilesWhere(K)
  BY <1>3, RemoveFilesWhereKeeps
<1>4. CASE RepackageArt
  BY <1>4, RepackageArtKeeps
<1>5. CASE SortDirectories
  BY <1>5, SortDirectoriesKeeps
<1>6. CASE PruneEmptyFolders
  BY <1>6, PruneEmptyFoldersKeeps
<1> QED BY <1>1, <1>2, <1>3, <1>4, <1>5, <1>6 DEF Next

LEMMA StepLower ==
  ASSUME CallersLower, Sound(tocs), ArchiveLower(tocs), Next
  PROVE  Sound(tocs') /\ StaysLower(tocs, tocs')
<1>1. Sound(tocs')
  BY StepKeeps DEF Keeps
<1>2. CASE \E to \in Targets, d \in Data : UpsertStoredIn(to.alias, to.rel, d)
  BY <1>1, <1>2, UpsertStoredInLower
<1>3. CASE \E rel \in StoredRels, d \in Data : UpsertStored(rel, d)
  BY <1>1, <1>3, UpsertStoredLower
<1>4. CASE \/ \E K \in Predicates : RemoveFilesWhere(K)
           \/ RepackageArt \/ SortDirectories \/ PruneEmptyFolders
  BY <1>1, <1>4, SweepsLower
<1> QED BY <1>1, <1>2, <1>3, <1>4 DEF Next

\* The inductive invariant of every session: well formed and sorted.
LEMMA SoundInvariant == Spec => []Sound(tocs)
<1>1. Init => Sound(tocs)
  BY InitSound
<1>2. Sound(tocs) /\ [Next]_tocs => Sound(tocs)'
  <2> SUFFICES ASSUME Sound(tocs), [Next]_tocs PROVE Sound(tocs)'
    OBVIOUS
  <2>1. CASE Next
    BY <2>1, StepKeeps DEF Keeps
  <2>2. CASE UNCHANGED tocs
    BY <2>2
  <2> QED BY <2>1, <2>2
<1> QED BY <1>1, <1>2, PTL DEF Spec

\* No order of edits breaks the shape of an archive: folders and listings
\* agree, files stay typed.  For every set of archives, paths and contents.
THEOREM TypeCorrect == Spec => []TypeOK
<1>1. Sound(tocs) => TypeOK
  BY DEF Sound, TypeOK
<1> QED BY <1>1, SoundInvariant, PTL

\* Every table the game searches stays sorted through upserts, removals,
\* re-packing and pruning, whatever the callers' spelling.
THEOREM TablesStaySorted == Spec => []TablesSorted
<1>1. Sound(tocs) => TablesSorted
  BY DEF Sound, ArchiveSorted, TablesSorted
<1> QED BY <1>1, SoundInvariant, PTL

\* With lowercase names from the callers of upsert_stored, and archives to start
\* from that are lowercase and hold no doubles, every table stays sorted,
\* lowercase and free of doubles.  The three hold together only: the exact
\* lookup of insert_or_replace finds every rival of its key because all stored
\* names are lowercase.
LEMMA KeptInvariant ==
  ASSUME CallersLower, BasesKept
  PROVE  Spec => []ArchiveKept(tocs)
<1> DEFINE I == Sound(tocs) /\ ArchiveKept(tocs)
<1>1. Init => I
  BY InitSound
<1>2. I /\ [Next]_tocs => I'
  <2> SUFFICES ASSUME I, [Next]_tocs PROVE I'
    OBVIOUS
  <2>1. CASE Next
    BY <2>1, StepKeeps DEF Keeps
  <2>2. CASE UNCHANGED tocs
    BY <2>2
  <2> QED BY <2>1, <2>2
<1>3. I => ArchiveKept(tocs)
  OBVIOUS
<1> HIDE DEF I
<1> QED BY <1>1, <1>2, <1>3, PTL DEF Spec

\* Siblings stay unique up to case if they were so to begin with and
\* upsert_stored is called with lowercase names, so a lookup by folded name has
\* one answer.
THEOREM SiblingsStayUnique ==
  ASSUME CallersLower, BasesKept
  PROVE  Spec => []SiblingsUnique
<1>1. ArchiveKept(tocs) => SiblingsUnique
  BY DEF ArchiveKept, Kept, TableKept, SiblingsUnique
<1> QED BY <1>1, KeptInvariant, PTL

LEMMA BasesStayLower == Init /\ BasesLower => Sound(tocs) /\ ArchiveLower(tocs)
<1> SUFFICES ASSUME Init, BasesLower PROVE Sound(tocs) /\ ArchiveLower(tocs)
  OBVIOUS
<1>1. Sound(tocs) /\ LowerNamed(tocs)
  BY InitSound DEF Init, BasesLower
<1> QED BY <1>1, TocParts, LowerTrees DEF Sound, LowerNamed, ArchiveLower

\* Every stored name stays lowercase, whatever the spelling of the targets of
\* upsert_stored_in, in archives that are lowercase to begin with, doubles or not.
THEOREM NamesStayLower ==
  ASSUME CallersLower, BasesLower
  PROVE  Spec => []NamesLower
<1> DEFINE I == Sound(tocs) /\ ArchiveLower(tocs)
<1>1. Init => I
  BY BasesStayLower
<1>2. I /\ [Next]_tocs => I'
  <2> SUFFICES ASSUME I, [Next]_tocs PROVE I'
    OBVIOUS
  <2>1. CASE Next
    BY <2>1, StepLower DEF StaysLower
  <2>2. CASE UNCHANGED tocs
    BY <2>2
  <2> QED BY <2>1, <2>2
<1>3. I => NamesLower
  BY TocParts, LowerTrees DEF Sound, LowerNamed, ArchiveLower, NamesLower
<1> HIDE DEF I
<1> QED BY <1>1, <1>2, <1>3, PTL DEF Spec

\* What DoublesNeverGrow counts, table by table.
LEMMA DoublesCounted ==
  ASSUME NEW ts, Sound(ts)
  PROVE  /\ \A i, p, key : [toc |-> i, path |-> p, key |-> key] \in TableNames(ts)
                             <=> HasKey(FilesAt(ts, i, p), key)
         /\ \A s \in TableNames(ts) :
              /\ s = [toc |-> s.toc, path |-> s.path, key |-> s.key]
              /\ Doubles(ts, s) = Count(FilesAt(ts, s.toc, s.path), s.key)
<1>1. ASSUME NEW i \in DOMAIN ts, NEW p \in DOMAIN ts[i].tree
      PROVE  /\ FilesAt(ts, i, p) = ts[i].tree[p].files
             /\ DOMAIN ts[i].tree[p].files = 1 .. Len(ts[i].tree[p].files)
  <2>1. ts[i].tree[p].files \in Seq(Files)
    BY TocParts, FolderParts DEF Sound
  <2> QED BY <2>1, LenProperties DEF FilesAt, FilesIn
<1>2. \A s : s \in TableNames(ts) <=>
        \E i \in DOMAIN ts : \E p \in DOMAIN ts[i].tree : \E k \in DOMAIN ts[i].tree[p].files :
          s = [toc |-> i, path |-> p, key |-> ts[i].tree[p].files[k].name.key]
  BY DEF TableNames
<1>3. ASSUME NEW i, NEW p, NEW key
      PROVE  [toc |-> i, path |-> p, key |-> key] \in TableNames(ts) <=> HasKey(FilesAt(ts, i, p), key)
  <2>1. [toc |-> i, path |-> p, key |-> key] \in TableNames(ts) <=>
          /\ i \in DOMAIN ts /\ p \in DOMAIN ts[i].tree
          /\ \E k \in DOMAIN ts[i].tree[p].files : ts[i].tree[p].files[k].name.key = key
    BY <1>2
  <2>2. CASE i \in DOMAIN ts /\ p \in DOMAIN ts[i].tree
    BY <1>1, <2>1, <2>2 DEF HasKey
  <2>3. CASE ~ (i \in DOMAIN ts /\ p \in DOMAIN ts[i].tree)
    <3>1. FilesAt(ts, i, p) = <<>> /\ Len(<<>>) = 0
      BY <2>3 DEF FilesAt, FilesIn
    <3> QED BY <2>1, <2>3, <3>1 DEF HasKey
  <2> QED BY <2>2, <2>3
<1>4. ASSUME NEW s \in TableNames(ts)
      PROVE  /\ s = [toc |-> s.toc, path |-> s.path, key |-> s.key]
             /\ Doubles(ts, s) = Count(FilesAt(ts, s.toc, s.path), s.key)
  <2>1. /\ s = [toc |-> s.toc, path |-> s.path, key |-> s.key]
        /\ s.toc \in DOMAIN ts /\ s.path \in DOMAIN ts[s.toc].tree
    BY <1>2
  <2> QED BY <1>1, <2>1 DEF Doubles, Count
<1> QED BY <1>3, <1>4

\* No edit adds to the doubles an archive came with: in every folder a step
\* leaves at most as many files of a folded name as it found there, or one.
THEOREM DoublesStayFew ==
  ASSUME CallersLower, BasesLower
  PROVE  Spec => DoublesNeverGrow
<1> DEFINE I == Sound(tocs) /\ ArchiveLower(tocs)
           Few == \A s \in TableNames(tocs') :
                    \/ Doubles(tocs', s) = 1
                    \/ s \in TableNames(tocs) /\ Doubles(tocs', s) <= Doubles(tocs, s)
<1>1. Init => I
  BY BasesStayLower
<1>2. I /\ [Next]_tocs => I' /\ (Few \/ UNCHANGED tocs)
  <2> SUFFICES ASSUME I, Next PROVE I' /\ Few
    OBVIOUS
  <2>1. Sound(tocs') /\ ArchiveLower(tocs') /\ NoMoreDoublesThan(tocs, tocs')
    BY StepLower DEF StaysLower
  <2>2. ASSUME NEW s \in TableNames(tocs')
        PROVE  \/ Doubles(tocs', s) = 1
               \/ s \in TableNames(tocs) /\ Doubles(tocs', s) <= Doubles(tocs, s)
    <3> DEFINE a == FilesAt(tocs, s.toc, s.path)
               b == FilesAt(tocs', s.toc, s.path)
    <3>1. /\ s = [toc |-> s.toc, path |-> s.path, key |-> s.key]
          /\ Doubles(tocs', s) = Count(b, s.key) /\ HasKey(b, s.key)
      BY <2>1, DoublesCounted
    <3>2. Count(b, s.key) = 1 \/ (HasKey(a, s.key) /\ Count(b, s.key) <= Count(a, s.key))
      BY <2>1, <3>1 DEF NoMoreDoublesThan, NoMoreDoubles
    <3>3. HasKey(a, s.key) => s \in TableNames(tocs) /\ Doubles(tocs, s) = Count(a, s.key)
      BY <3>1, DoublesCounted
    <3> QED BY <3>1, <3>2, <3>3
  <2> QED BY <2>1, <2>2
<1>3. Few \/ UNCHANGED tocs => [Few]_tocs
  OBVIOUS
<1> HIDE DEF I
<1> QED BY <1>1, <1>2, <1>3, PTL DEF Spec, DoublesNeverGrow

LEMMA FoldPathParts ==
  ASSUME NEW p \in Seq(Names), NEW key \in Keys
  PROVE  /\ FoldPath(p, key) \in Seq(Keys)
         /\ Len(FoldPath(p, key)) = Len(p) + 1 /\ Len(p) \in Nat
         /\ FoldPath(p, key)[Len(p) + 1] = key
         /\ \A i \in 1 .. Len(p) : FoldPath(p, key)[i] = p[i].key
<1> DEFINE n == Len(p) + 1
           f == FoldPath(p, key)
<1>1. Len(p) \in Nat /\ n \in Nat /\ \A i \in 1 .. Len(p) : p[i] \in Names
  BY LenProperties
<1>2. \A i \in 1 .. Len(p) : p[i].key \in Keys
  BY <1>1 DEF Names
<1>3. f = [i \in 1 .. n |-> IF i > Len(p) THEN key ELSE p[i].key]
  BY DEF FoldPath
<1>4. f \in [1 .. n -> Keys] /\ f[n] = key /\ \A i \in 1 .. Len(p) : f[i] = p[i].key
  BY <1>1, <1>2, <1>3
<1> HIDE DEF f, n
<1>5. f \in Seq(Keys)
  BY <1>1, <1>4, SeqDef
<1>6. Len(f) = n
  BY <1>1, <1>4, <1>5, LenProperties
<1> QED BY <1>1, <1>4, <1>5, <1>6 DEF f, n

\* Folding a lowercase path forgets nothing.
LEMMA FoldPathInjective ==
  ASSUME NEW p \in Seq(Names), NEW q \in Seq(Names), NEW k \in Keys, NEW l \in Keys,
         AllLowerPath(p), AllLowerPath(q), FoldPath(p, k) = FoldPath(q, l)
  PROVE  p = q /\ k = l
<1>1. /\ Len(FoldPath(p, k)) = Len(p) + 1 /\ Len(p) \in Nat /\ FoldPath(p, k)[Len(p) + 1] = k
      /\ \A i \in 1 .. Len(p) : FoldPath(p, k)[i] = p[i].key
  BY FoldPathParts
<1>2. /\ Len(FoldPath(q, l)) = Len(q) + 1 /\ Len(q) \in Nat /\ FoldPath(q, l)[Len(q) + 1] = l
      /\ \A i \in 1 .. Len(q) : FoldPath(q, l)[i] = q[i].key
  BY FoldPathParts
<1>3. Len(p) = Len(q) /\ k = l /\ \A i \in 1 .. Len(p) : p[i].key = q[i].key
  BY <1>1, <1>2
<1>4. \A i \in 1 .. Len(p) : p[i] = q[i]
  <2> TAKE i \in 1 .. Len(p)
  <2>1. p[i] \in Names /\ q[i] \in Names /\ IsLower(p[i]) /\ IsLower(q[i])
    BY <1>3 DEF AllLowerPath
  <2> QED BY <1>3, <2>1, LowerNamesByKey
<1> QED BY <1>3, <1>4, SeqEqual

-----------------------------------------------------------------------------
(* Archives *)

Apart(ts) == \A i, j \in DOMAIN ts : ts[i].alias = ts[j].alias => i = j

Good(ts) == Sound(ts) /\ ArchiveLower(ts) /\ Apart(ts)

Holds(ts, a, path, d) ==
  \E i \in DOMAIN ts : /\ ts[i].alias = a
                       /\ \E p, key : TreeHolds(ts[i].tree, p, key, d) /\ path = FoldPath(p, key)

\* Archive us is archive ts with content d0 under one member.
ArchiveSets(ts, us, a0, path0, d0) ==
  \A a, path, d : Holds(us, a, path, d)
    <=> IF a = a0 /\ path = path0 THEN d = d0 ELSE Holds(ts, a, path, d)

SameInArchive(ts, us) == \A a, path, d : Holds(us, a, path, d) <=> Holds(ts, a, path, d)

LEMMA HeldTyped ==
  ASSUME NEW t, IsTree(t), NEW p, NEW key, NEW d, TreeHolds(t, p, key, d)
  PROVE  p \in Seq(Names) /\ key \in Keys /\ d \in Data
<1>1. p \in DOMAIN t
  BY DEF TreeHolds
<1>2. p \in Seq(Names) /\ t[p].files \in Seq(Files)
  BY <1>1, FolderParts
<1>3. PICK k \in 1 .. Len(t[p].files) : t[p].files[k].name.key = key /\ t[p].files[k].data = d
  BY DEF TreeHolds, TableHolds
<1>4. t[p].files[k] \in Files
  BY <1>2, <1>3
<1> QED BY <1>2, <1>3, <1>4 DEF Files, Names

LEMMA SlotParts ==
  ASSUME NEW ts
  PROVE  \A s : s \in SlotsOf(ts) <=> /\ s = [toc |-> s.toc, path |-> s.path, file |-> s.file]
                                      /\ s.toc \in DOMAIN ts
                                      /\ s.path \in DOMAIN ts[s.toc].tree
                                      /\ s.file \in DOMAIN ts[s.toc].tree[s.path].files
BY DEF SlotsOf

\* What is known of the trees of a good archive.
LEMMA GoodTrees ==
  ASSUME NEW ts, Good(ts), NEW i \in DOMAIN ts
  PROVE  /\ ts[i].alias \in Aliases /\ ts[i] = [alias |-> ts[i].alias, tree |-> ts[i].tree]
         /\ IsTree(ts[i].tree) /\ TreeSorted(ts[i].tree) /\ TreeLower(ts[i].tree)
BY TocParts DEF Good, Sound, ArchiveSorted, ArchiveLower

\* A member is the files of one name in one folder: TOCs have aliases of their
\* own and lowercase paths fold apart.
LEMMA OneName ==
  ASSUME NEW ts, Good(ts), NEW s \in SlotsOf(ts), NEW r \in SlotsOf(ts), MemberAt(ts, s) = MemberAt(ts, r)
  PROVE  /\ s.toc = r.toc /\ s.path = r.path
         /\ ts[s.toc].tree[s.path].files[s.file].name.key = ts[s.toc].tree[s.path].files[r.file].name.key
<1> DEFINE t == ts[s.toc].tree
<1>1. /\ s.toc \in DOMAIN ts /\ s.path \in DOMAIN t /\ s.file \in DOMAIN t[s.path].files
  BY SlotParts
<1>2. /\ r.toc \in DOMAIN ts
      /\ r.path \in DOMAIN ts[r.toc].tree /\ r.file \in DOMAIN ts[r.toc].tree[r.path].files
  BY SlotParts
<1>3. s.toc = r.toc
  <2>1. ts[s.toc].alias = ts[r.toc].alias
    BY DEF MemberAt
  <2> QED BY <1>1, <1>2, <2>1 DEF Good, Apart
<1>4. FoldPath(s.path, t[s.path].files[s.file].name.key) = FoldPath(r.path, t[r.path].files[r.file].name.key)
  BY <1>3 DEF MemberAt
<1>5. IsTree(t) /\ TreeLower(t)
  BY <1>1, GoodTrees
<1>6. r.path \in DOMAIN t /\ r.file \in DOMAIN t[r.path].files
  BY <1>2, <1>3
<1> HIDE DEF t
<1>7. ASSUME NEW p \in DOMAIN t, NEW k \in DOMAIN t[p].files
      PROVE  p \in Seq(Names) /\ AllLowerPath(p) /\ t[p].files[k].name.key \in Keys
  <2>1. p \in Seq(Names) /\ t[p].files \in Seq(Files)
    BY <1>5, FolderParts
  <2>2. t[p].files[k] \in Files
    BY <2>1
  <2> QED BY <1>5, <2>1, <2>2 DEF Files, Names, TreeLower
<1>8. s.path = r.path /\ t[s.path].files[s.file].name.key = t[r.path].files[r.file].name.key
  BY <1>1, <1>4, <1>6, <1>7, FoldPathInjective
<1> QED BY <1>3, <1>8 DEF t

\* The map of a good archive says what the archive holds.
MapSays(ts, f) ==
  /\ f = [m \in DOMAIN f |-> f[m]]
  /\ \A m \in DOMAIN f : m = [alias |-> m.alias, path |-> m.path] /\ Holds(ts, m.alias, m.path, f[m])
  /\ \A a, path, d : Holds(ts, a, path, d) =>
       [alias |-> a, path |-> path] \in DOMAIN f /\ f[[alias |-> a, path |-> path]] = d

\* A slot that lists the first file of its name in its folder.
IsFirst(ts, s) == FirstOfKey(ts[s.toc].tree[s.path].files, s.file)

LEMMA MembersSay ==
  ASSUME NEW ts, Good(ts)
  PROVE  MapSays(ts, MembersOf(ts))
<1> DEFINE f == MembersOf(ts)
           DataAt(s) == ts[s.toc].tree[s.path].files[s.file].data
           First(m) == CHOOSE s \in SlotsOf(ts) :
                         /\ MemberAt(ts, s) = m
                         /\ \A r \in SlotsOf(ts) : MemberAt(ts, r) = m => s.file <= r.file
<1>1. f = [m \in {MemberAt(ts, s) : s \in SlotsOf(ts)} |-> DataAt(First(m))]
  BY DEF MembersOf
<1>2. ASSUME NEW s \in SlotsOf(ts)
      PROVE  /\ s.toc \in DOMAIN ts /\ s.path \in DOMAIN ts[s.toc].tree
             /\ ts[s.toc].tree[s.path].files \in Seq(Files)
             /\ s.file \in 1 .. Len(ts[s.toc].tree[s.path].files)
             /\ s = [toc |-> s.toc, path |-> s.path, file |-> s.file]
  <2>1. /\ s.toc \in DOMAIN ts /\ s.path \in DOMAIN ts[s.toc].tree
        /\ s.file \in DOMAIN ts[s.toc].tree[s.path].files
        /\ s = [toc |-> s.toc, path |-> s.path, file |-> s.file]
    BY SlotParts
  <2>2. ts[s.toc].tree[s.path].files \in Seq(Files)
    BY <2>1, GoodTrees, FolderParts
  <2> QED BY <2>1, <2>2, LenProperties
<1>3. ASSUME NEW s \in SlotsOf(ts), IsFirst(ts, s) PROVE First(MemberAt(ts, s)) = s
  <2>1. ASSUME NEW r \in SlotsOf(ts), MemberAt(ts, r) = MemberAt(ts, s)
        PROVE  s.file <= r.file /\ (r.file <= s.file => r = s)
    <3> DEFINE table == ts[s.toc].tree[s.path].files
    <3>1. s.toc = r.toc /\ s.path = r.path /\ table[s.file].name.key = table[r.file].name.key
      BY <2>1, OneName
    <3>2. s.file \in 1 .. Len(table) /\ r.file \in 1 .. Len(table) /\ Len(table) \in Nat
      <4>1. s.file \in 1 .. Len(table) /\ table \in Seq(Files)
        BY <1>2
      <4>2. r.file \in 1 .. Len(ts[r.toc].tree[r.path].files)
        BY <1>2
      <4>3. ts[r.toc].tree[r.path].files = table
        BY <3>1
      <4> HIDE DEF table
      <4> QED BY <4>1, <4>2, <4>3
    <3>3. \A j \in 1 .. s.file - 1 : table[j].name.key # table[s.file].name.key
      BY <1>3 DEF IsFirst, FirstOfKey
    <3> HIDE DEF table
    <3>4. s.file <= r.file
      BY <3>1, <3>2, <3>3
    <3>5. r.file <= s.file => r.file = s.file
      BY <3>2, <3>4
    <3>6. r = [toc |-> r.toc, path |-> r.path, file |-> r.file]
          /\ s = [toc |-> s.toc, path |-> s.path, file |-> s.file]
      BY <1>2
    <3> QED BY <3>1, <3>4, <3>5, <3>6
  <2>2. s.file \in Int
    BY <1>2
  <2>3. s.file <= s.file
    BY <2>2
  <2> QED BY <2>1, <2>3
<1>4. ASSUME NEW r \in SlotsOf(ts)
      PROVE  \E s \in SlotsOf(ts) : MemberAt(ts, s) = MemberAt(ts, r) /\ IsFirst(ts, s)
  <2> DEFINE table == ts[r.toc].tree[r.path].files
             key == table[r.file].name.key
  <2>1. r.toc \in DOMAIN ts /\ r.path \in DOMAIN ts[r.toc].tree
        /\ table \in Seq(Files) /\ r.file \in 1 .. Len(table)
    BY <1>2
  <2>2. PICK k \in 1 .. Len(table) : table[k].name.key = key /\ FirstOfKey(table, k)
    <3> HIDE DEF table
    <3> QED BY <2>1, FirstExists DEF HasKey
  <2> DEFINE s == [toc |-> r.toc, path |-> r.path, file |-> k]
  <2>3. s.toc = r.toc /\ s.path = r.path /\ s.file = k
    OBVIOUS
  <2>4. k \in DOMAIN table
    <3> HIDE DEF table
    <3> QED BY <2>1, <2>2, LenProperties
  <2>5. s \in SlotsOf(ts)
    BY <2>1, <2>4, SlotParts
  <2>6. MemberAt(ts, s) = MemberAt(ts, r)
    BY <2>2, <2>3 DEF MemberAt
  <2>7. IsFirst(ts, s)
    BY <2>2, <2>3 DEF IsFirst
  <2> QED BY <2>5, <2>6, <2>7
<1> HIDE DEF First, f
<1>5. DOMAIN f = {MemberAt(ts, s) : s \in SlotsOf(ts)} /\ f = [m \in DOMAIN f |-> f[m]]
  BY <1>1
<1>6. \A s \in SlotsOf(ts) : MemberAt(ts, s) \in DOMAIN f
                             /\ (IsFirst(ts, s) => f[MemberAt(ts, s)] = DataAt(s))
  BY <1>1, <1>3
<1>7. ASSUME NEW m \in DOMAIN f
      PROVE  m = [alias |-> m.alias, path |-> m.path] /\ Holds(ts, m.alias, m.path, f[m])
  <2>1. PICK s \in SlotsOf(ts) : m = MemberAt(ts, s) /\ IsFirst(ts, s)
    BY <1>4, <1>5
  <2> DEFINE t == ts[s.toc].tree
             key == t[s.path].files[s.file].name.key
  <2>2. m.alias = ts[s.toc].alias /\ m.path = FoldPath(s.path, key)
        /\ m = [alias |-> m.alias, path |-> m.path]
    BY <2>1 DEF MemberAt
  <2>3. s.toc \in DOMAIN ts /\ s.path \in DOMAIN t
        /\ t[s.path].files \in Seq(Files) /\ s.file \in 1 .. Len(t[s.path].files)
    BY <1>2
  <2>4. f[m] = t[s.path].files[s.file].data
    BY <1>6, <2>1
  <2>5. TreeHolds(t, s.path, key, f[m])
    BY <2>1, <2>3, <2>4 DEF TreeHolds, TableHolds, IsFirst
  <2> HIDE DEF key
  <2> QED BY <2>2, <2>3, <2>5 DEF Holds
<1>8. ASSUME NEW a, NEW path, NEW d, Holds(ts, a, path, d)
      PROVE  [alias |-> a, path |-> path] \in DOMAIN f /\ f[[alias |-> a, path |-> path]] = d
  <2>1. PICK i \in DOMAIN ts : /\ ts[i].alias = a
                               /\ \E p, key : TreeHolds(ts[i].tree, p, key, d) /\ path = FoldPath(p, key)
    BY <1>8 DEF Holds
  <2>2. PICK p, key : TreeHolds(ts[i].tree, p, key, d) /\ path = FoldPath(p, key)
    BY <2>1
  <2>3. p \in DOMAIN ts[i].tree
    BY <2>2 DEF TreeHolds
  <2> DEFINE table == ts[i].tree[p].files
  <2>4. PICK k \in 1 .. Len(table) : table[k].name.key = key /\ table[k].data = d /\ FirstOfKey(table, k)
    BY <2>2 DEF TreeHolds, TableHolds
  <2>5. table \in Seq(Files)
    BY <2>3, GoodTrees, FolderParts
  <2>6. k \in DOMAIN table
    BY <2>4, <2>5
  <2> DEFINE s == [toc |-> i, path |-> p, file |-> k]
  <2>7. s \in SlotsOf(ts)
    BY <2>3, <2>6, SlotParts
  <2>8. MemberAt(ts, s) = [alias |-> a, path |-> path] /\ DataAt(s) = d
    BY <2>1, <2>2, <2>4 DEF MemberAt
  <2>9. IsFirst(ts, s)
    BY <2>4 DEF IsFirst
  <2> HIDE DEF s, table, DataAt
  <2> QED BY <1>6, <2>7, <2>8, <2>9
<1> QED BY <1>5, <1>7, <1>8 DEF MapSays, f

\* Hence what archives hold settles how their maps differ.
LEMMA SameMembers ==
  ASSUME NEW ts, Good(ts), NEW us, Good(us), SameInArchive(ts, us)
  PROVE  MembersOf(us) = MembersOf(ts)
<1> DEFINE f == MembersOf(ts)
           g == MembersOf(us)
<1>1. MapSays(ts, f) /\ MapSays(us, g)
  BY MembersSay
<1> HIDE DEF f, g
<1>2. \A m \in DOMAIN g : m \in DOMAIN f /\ f[m] = g[m]
  BY <1>1 DEF MapSays, SameInArchive
<1>3. \A m \in DOMAIN f : m \in DOMAIN g
  BY <1>1 DEF MapSays, SameInArchive
<1>4. DOMAIN f = DOMAIN g
  BY <1>2, <1>3
<1>5. f = [m \in DOMAIN f |-> f[m]] /\ g = [m \in DOMAIN g |-> g[m]]
  BY <1>1 DEF MapSays
<1> QED BY <1>2, <1>4, <1>5 DEF f, g

MapSets(f, g, m, d) == g = [x \in DOMAIN f \cup {m} |-> IF x = m THEN d ELSE f[x]]

MapLoses(f, g, K) == g = [x \in {m \in DOMAIN f : m.path[Len(m.path)] \notin K} |-> f[x]]

LEMMA SetMembers ==
  ASSUME NEW ts, Good(ts), NEW us, Good(us), NEW a, NEW path, NEW d, ArchiveSets(ts, us, a, path, d)
  PROVE  MapSets(MembersOf(ts), MembersOf(us), [alias |-> a, path |-> path], d)
<1> DEFINE f == MembersOf(ts)
           g == MembersOf(us)
           m == [alias |-> a, path |-> path]
<1>1. MapSays(ts, f) /\ MapSays(us, g)
  BY MembersSay
<1>0. m.alias = a /\ m.path = path
  OBVIOUS
<1>2. m \in DOMAIN g /\ g[m] = d
  <2>1. Holds(us, a, path, d)
    BY DEF ArchiveSets
  <2> HIDE DEF g
  <2> QED BY <1>1, <2>1 DEF MapSays
<1> HIDE DEF f, g
<1>3. ASSUME NEW x \in DOMAIN g, x # m PROVE x \in DOMAIN f /\ g[x] = f[x]
  <2>1. x = [alias |-> x.alias, path |-> x.path] /\ Holds(us, x.alias, x.path, g[x])
    BY <1>1 DEF MapSays
  <2>2. x.alias # a \/ x.path # path
    BY <1>3, <2>1
  <2>3. Holds(ts, x.alias, x.path, g[x])
    BY <2>1, <2>2 DEF ArchiveSets
  <2> QED BY <1>1, <2>1, <2>3 DEF MapSays
<1>4. ASSUME NEW x \in DOMAIN f, x # m PROVE x \in DOMAIN g
  <2>1. x = [alias |-> x.alias, path |-> x.path] /\ Holds(ts, x.alias, x.path, f[x])
    BY <1>1 DEF MapSays
  <2>2. x.alias # a \/ x.path # path
    BY <1>4, <2>1
  <2>3. Holds(us, x.alias, x.path, f[x])
    BY <2>1, <2>2 DEF ArchiveSets
  <2> QED BY <1>1, <2>1, <2>3 DEF MapSays
<1> HIDE DEF m
<1>5. DOMAIN g = DOMAIN f \cup {m}
  BY <1>2, <1>3, <1>4
<1>6. g = [x \in DOMAIN g |-> g[x]]
  BY <1>1 DEF MapSays
<1>7. g = [x \in DOMAIN f \cup {m} |-> IF x = m THEN d ELSE f[x]]
  BY <1>2, <1>3, <1>5, <1>6
<1> QED BY <1>7 DEF f, g, m, MapSets

\* A removal by file name.
ArchiveLoses(ts, us, K) ==
  \A a, path, d : Holds(us, a, path, d) <=> Holds(ts, a, path, d) /\ path[Len(path)] \notin K

LEMMA LoseMembers ==
  ASSUME NEW ts, Good(ts), NEW us, Good(us), NEW K, ArchiveLoses(ts, us, K)
  PROVE  MapLoses(MembersOf(ts), MembersOf(us), K)
<1> DEFINE f == MembersOf(ts)
           g == MembersOf(us)
           left == {m \in DOMAIN f : m.path[Len(m.path)] \notin K}
<1>1. MapSays(ts, f) /\ MapSays(us, g)
  BY MembersSay
<1> HIDE DEF f, g
<1>2. ASSUME NEW x \in DOMAIN g PROVE x \in left /\ g[x] = f[x]
  <2>1. x = [alias |-> x.alias, path |-> x.path] /\ Holds(us, x.alias, x.path, g[x])
    BY <1>1 DEF MapSays
  <2>2. Holds(ts, x.alias, x.path, g[x]) /\ x.path[Len(x.path)] \notin K
    BY <2>1 DEF ArchiveLoses
  <2>3. x \in DOMAIN f /\ f[x] = g[x]
    BY <1>1, <2>1, <2>2 DEF MapSays
  <2> QED BY <2>2, <2>3
<1>3. ASSUME NEW x \in left PROVE x \in DOMAIN g
  <2>1. x = [alias |-> x.alias, path |-> x.path] /\ Holds(ts, x.alias, x.path, f[x])
    BY <1>1 DEF MapSays
  <2>2. Holds(us, x.alias, x.path, f[x])
    BY <2>1 DEF ArchiveLoses
  <2> QED BY <1>1, <2>1, <2>2 DEF MapSays
<1> HIDE DEF left
<1>4. DOMAIN g = left
  BY <1>2, <1>3
<1>5. g = [x \in DOMAIN g |-> g[x]]
  BY <1>1 DEF MapSays
<1>6. g = [x \in left |-> f[x]]
  BY <1>2, <1>4, <1>5
<1> QED BY <1>6 DEF f, g, left, MapLoses

-----------------------------------------------------------------------------
(* From trees to archives *)

\* One tree of an archive gets a new member.
LEMMA TreePut ==
  ASSUME NEW ts, Good(ts), NEW i \in DOMAIN ts, NEW u, IsTree(u), TreeSorted(u), TreeLower(u),
         NEW dirs \in Seq(Names), AllLowerPath(dirs), NEW key0 \in Keys, NEW d0,
         TreeSets(ts[i].tree, u, dirs, key0, d0)
  PROVE  LET us == [ts EXCEPT ![i].tree = u]
         IN  /\ Good(us) /\ ArchiveSets(ts, us, ts[i].alias, FoldPath(dirs, key0), d0)
             /\ AliasesOf(us) = AliasesOf(ts)
<1> DEFINE us == [ts EXCEPT ![i].tree = u]
           a0 == ts[i].alias
           path0 == FoldPath(dirs, key0)
<1>1. /\ DOMAIN us = DOMAIN ts
      /\ \A j \in DOMAIN ts : /\ us[j].alias = ts[j].alias
                              /\ us[j].tree = IF j = i THEN u ELSE ts[j].tree
  <2>1. \A j \in DOMAIN ts : ts[j] = [alias |-> ts[j].alias, tree |-> ts[j].tree]
    BY GoodTrees
  <2> QED BY <2>1
<1>2. Sound(us)
  BY PutTree DEF Good
<1> HIDE DEF us
<1>9. ArchiveLower(us)
  BY <1>1 DEF Good, ArchiveLower
<1>3. Good(us)
  BY <1>1, <1>2, <1>9 DEF Good, Apart
<1>4. ASSUME NEW j \in DOMAIN us, NEW p, NEW key, NEW d, TreeHolds(us[j].tree, p, key, d)
      PROVE  p \in Seq(Names) /\ AllLowerPath(p) /\ key \in Keys
  <2>1. IsTree(us[j].tree) /\ TreeLower(us[j].tree)
    BY <1>3, GoodTrees
  <2>2. p \in DOMAIN us[j].tree
    BY <1>4 DEF TreeHolds
  <2> QED BY <1>4, <2>1, <2>2, HeldTyped DEF TreeLower
<1>5. ASSUME NEW j \in DOMAIN ts, NEW p, NEW key, NEW d, TreeHolds(ts[j].tree, p, key, d)
      PROVE  p \in Seq(Names) /\ AllLowerPath(p) /\ key \in Keys
  <2>1. IsTree(ts[j].tree) /\ TreeLower(ts[j].tree)
    BY GoodTrees
  <2>2. p \in DOMAIN ts[j].tree
    BY <1>5 DEF TreeHolds
  <2> QED BY <1>5, <2>1, <2>2, HeldTyped DEF TreeLower
<1>6. ASSUME NEW a, NEW path, NEW d, a = a0, path = path0
      PROVE  Holds(us, a, path, d) <=> d = d0
  <2>1. ASSUME Holds(us, a, path, d) PROVE d = d0
    <3>1. PICK j \in DOMAIN us : us[j].alias = a /\ \E p, key : TreeHolds(us[j].tree, p, key, d) /\ path = FoldPath(p, key)
      BY <2>1 DEF Holds
    <3>2. PICK p, key : TreeHolds(us[j].tree, p, key, d) /\ path = FoldPath(p, key)
      BY <3>1
    <3>3. j = i
      BY <1>1, <1>6, <3>1 DEF Good, Apart
    <3>4. p = dirs /\ key = key0
      <4>1. p \in Seq(Names) /\ AllLowerPath(p) /\ key \in Keys
        BY <1>4, <3>2
      <4>2. FoldPath(p, key) = FoldPath(dirs, key0)
        BY <1>6, <3>2
      <4> QED BY <4>1, <4>2, FoldPathInjective
    <3> QED BY <1>1, <3>2, <3>3, <3>4 DEF TreeSets
  <2>2. ASSUME d = d0 PROVE Holds(us, a, path, d)
    <3>1. TreeHolds(us[i].tree, dirs, key0, d)
      BY <1>1, <2>2 DEF TreeSets
    <3> QED BY <1>1, <1>6, <3>1 DEF Holds
  <2> QED BY <2>1, <2>2
<1>7. ASSUME NEW a, NEW path, NEW d, ~ (a = a0 /\ path = path0)
      PROVE  Holds(us, a, path, d) <=> Holds(ts, a, path, d)
  <2>1. ASSUME NEW j \in DOMAIN ts, ts[j].alias = a, NEW p, NEW key, path = FoldPath(p, key)
        PROVE  TreeHolds(us[j].tree, p, key, d) <=> TreeHolds(ts[j].tree, p, key, d)
    <3>1. CASE j # i
      BY <1>1, <3>1
    <3>2. CASE j = i
      <4>1. ~ (p = dirs /\ key = key0)
        BY <1>7, <2>1, <3>2
      <4> QED BY <1>1, <3>2, <4>1 DEF TreeSets
    <3> QED BY <3>1, <3>2
  <2> QED BY <1>1, <2>1 DEF Holds
<1> HIDE DEF a0, path0
<1>8. ArchiveSets(ts, us, a0, path0, d0)
  <2> SUFFICES ASSUME NEW a, NEW path, NEW d
               PROVE  Holds(us, a, path, d)
                        <=> IF a = a0 /\ path = path0 THEN d = d0 ELSE Holds(ts, a, path, d)
    BY DEF ArchiveSets
  <2> QED BY <1>6, <1>7
<1>10. AliasesOf(us) = AliasesOf(ts)
  BY <1>1 DEF AliasesOf
<1> QED BY <1>3, <1>8, <1>10 DEF us, a0, path0

LEMMA TreesToParts ==
  ASSUME NEW ts, Good(ts), NEW us, NEW g, TreesTo(ts, us, g)
  PROVE  /\ DOMAIN us = DOMAIN ts
         /\ \A i \in DOMAIN ts : us[i].alias = ts[i].alias /\ us[i].tree = g[i]
         /\ Apart(us) /\ AliasesOf(us) = AliasesOf(ts)
<1>1. \A i \in DOMAIN ts : ts[i] = [alias |-> ts[i].alias, tree |-> ts[i].tree]
  BY GoodTrees
<1>2. /\ DOMAIN us = DOMAIN ts
      /\ \A i \in DOMAIN ts : us[i].alias = ts[i].alias /\ us[i].tree = g[i]
  BY <1>1 DEF TreesTo
<1>3. AliasesOf(us) = AliasesOf(ts)
  BY <1>2 DEF AliasesOf
<1>4. Apart(us)
  BY <1>2 DEF Good, Apart
<1> QED BY <1>2, <1>3, <1>4

LEMMA TreesSame ==
  ASSUME NEW ts, Good(ts), NEW us, NEW g, TreesTo(ts, us, g),
         \A i \in DOMAIN ts : SameInTree(ts[i].tree, g[i])
  PROVE  SameInArchive(ts, us)
<1>1. /\ DOMAIN us = DOMAIN ts
      /\ \A i \in DOMAIN ts : us[i].alias = ts[i].alias /\ us[i].tree = g[i]
  BY TreesToParts
<1> QED BY <1>1 DEF SameInArchive, SameInTree, Holds

LEMMA TreesLose ==
  ASSUME NEW ts, Good(ts), NEW us, NEW K, NEW g, TreesTo(ts, us, g),
         \A i \in DOMAIN ts : g[i] = RemoveFrom(ts[i].tree, K)
  PROVE  ArchiveLoses(ts, us, K)
<1>1. /\ DOMAIN us = DOMAIN ts
      /\ \A i \in DOMAIN ts : us[i].alias = ts[i].alias /\ us[i].tree = g[i]
  BY TreesToParts
<1>2. ASSUME NEW i \in DOMAIN ts, NEW p, NEW key, NEW d
      PROVE  TreeHolds(us[i].tree, p, key, d) <=> TreeHolds(ts[i].tree, p, key, d) /\ key \notin K
  BY <1>1, GoodTrees, RemoveInTreeHolds
<1>3. ASSUME NEW i \in DOMAIN ts, NEW p, NEW key, NEW d, TreeHolds(ts[i].tree, p, key, d)
      PROVE  FoldPath(p, key)[Len(FoldPath(p, key))] = key
  <2>1. p \in Seq(Names) /\ key \in Keys
    BY <1>3, GoodTrees, HeldTyped
  <2> QED BY <2>1, FoldPathParts
<1>4. ASSUME NEW a, NEW path, NEW d, Holds(us, a, path, d)
      PROVE  Holds(ts, a, path, d) /\ path[Len(path)] \notin K
  <2>1. PICK i \in DOMAIN ts : us[i].alias = a /\ \E p, key : TreeHolds(us[i].tree, p, key, d) /\ path = FoldPath(p, key)
    BY <1>1, <1>4 DEF Holds
  <2>2. PICK p, key : TreeHolds(us[i].tree, p, key, d) /\ path = FoldPath(p, key)
    BY <2>1
  <2>3. TreeHolds(ts[i].tree, p, key, d) /\ key \notin K
    BY <1>2, <2>2
  <2>4. path[Len(path)] \notin K
    BY <1>3, <2>2, <2>3
  <2> QED BY <1>1, <2>1, <2>2, <2>3, <2>4 DEF Holds
<1>5. ASSUME NEW a, NEW path, NEW d, Holds(ts, a, path, d), path[Len(path)] \notin K
      PROVE  Holds(us, a, path, d)
  <2>1. PICK i \in DOMAIN ts : ts[i].alias = a /\ \E p, key : TreeHolds(ts[i].tree, p, key, d) /\ path = FoldPath(p, key)
    BY <1>5 DEF Holds
  <2>2. PICK p, key : TreeHolds(ts[i].tree, p, key, d) /\ path = FoldPath(p, key)
    BY <2>1
  <2>3. key \notin K
    BY <1>3, <1>5, <2>2
  <2>4. TreeHolds(us[i].tree, p, key, d)
    BY <1>2, <2>2, <2>3
  <2> QED BY <1>1, <2>1, <2>2, <2>4 DEF Holds
<1> QED BY <1>4, <1>5 DEF ArchiveLoses

LEMMA NewTocHolds ==
  ASSUME NEW ts, Good(ts), NEW alias \in Aliases
  PROVE  LET w == GetOrCreateToc(ts, alias)
             i == TocIndex(w, alias)
         IN  /\ Good(w) /\ SameInArchive(ts, w)
             /\ i \in DOMAIN w /\ w[i].alias = alias
             /\ 1 \in DOMAIN w
             /\ AliasesOf(w) = Store!WithAlias(AliasesOf(ts), alias)
<1> DEFINE w == GetOrCreateToc(ts, alias)
           toc == [alias |-> alias, tree |-> EmptyTree]
<1>1. ts \in Seq(Range(ts)) /\ Len(ts) \in Nat /\ DOMAIN ts = 1 .. Len(ts)
  BY TocParts DEF Good, Sound
<1>2. Sound(w) /\ ArchiveLower(w) /\ TocIndex(w, alias) \in DOMAIN w /\ 1 \in DOMAIN w
  BY GetOrCreateTocSound, NewTocLower DEF Good
<1>3. w[TocIndex(w, alias)].alias = alias
  <2> HIDE DEF w
  <2>1. w \in Seq(Range(w)) /\ DOMAIN w = 1 .. Len(w)
    BY <1>2, TocParts DEF Sound
  <2>2. TocIndex(w, alias) # 0
    BY <1>2, <2>1
  <2> QED BY <2>1, <2>2, TocIndexNames
<1>4. CASE TocIndex(ts, alias) # 0
  <2>1. w = ts
    BY <1>4 DEF GetOrCreateToc
  <2> HIDE DEF w
  <2>2. SameInArchive(ts, w)
    BY <2>1 DEF SameInArchive
  <2>3. TocIndex(ts, alias) \in DOMAIN ts /\ ts[TocIndex(ts, alias)].alias = alias
    BY <1>2, <1>3, <2>1 DEF w
  <2>4. AliasesOf(w) = Store!WithAlias(AliasesOf(ts), alias)
    BY <2>1, <2>3 DEF AliasesOf, Store!WithAlias
  <2> QED BY <1>2, <1>3, <2>1, <2>2, <2>4 DEF w
<1>5. CASE TocIndex(ts, alias) = 0
  <2>1. w = Append(ts, toc)
    BY <1>5 DEF GetOrCreateToc
  <2>2. toc.alias = alias /\ toc.tree = EmptyTree
    OBVIOUS
  <2> HIDE DEF w, toc
  <2>3. /\ DOMAIN w = 1 .. Len(ts) + 1
        /\ \A i \in 1 .. Len(ts) : w[i] = ts[i]
        /\ w[Len(ts) + 1] = toc
    BY <1>1, <2>1
  <2>4. \A i \in 1 .. Len(ts) : ts[i].alias # alias
    BY <1>1, <1>5, TocIndexFound
  <2>5. Apart(w)
    <3>1. \A i \in DOMAIN w : i = Len(ts) + 1 \/ i \in DOMAIN ts
      BY <1>1, <2>3
    <3> QED BY <1>1, <2>2, <2>3, <2>4, <3>1 DEF Apart, Good
  <2>6. \A p, key, d : ~ TreeHolds(EmptyTree, p, key, d)
    <3>1. \A p : FilesIn(EmptyTree, p) = <<>> /\ Len(<<>>) = 0
      BY EmptyFiles
    <3> QED BY <3>1, HeldInFiles DEF TableHolds
  <2>7. SameInArchive(ts, w)
    <3>1. \A i \in DOMAIN w : i = Len(ts) + 1 \/ i \in DOMAIN ts
      BY <1>1, <2>3
    <3>2. DOMAIN ts \subseteq DOMAIN w
      BY <1>1, <2>3
    <3> QED BY <1>1, <2>2, <2>3, <2>6, <3>1, <3>2 DEF SameInArchive, Holds
  <2>8. Good(w)
    BY <1>2, <2>5 DEF Good
  <2>9. AliasesOf(w) = Store!WithAlias(AliasesOf(ts), alias)
    <3> DEFINE a == AliasesOf(ts)
    <3>1. DOMAIN a = 1 .. Len(ts) /\ a = [i \in 1 .. Len(ts) |-> ts[i].alias]
      BY <1>1 DEF AliasesOf
    <3>2. Len(a) = Len(ts)
      BY <1>1, <3>1
    <3> HIDE DEF a
    <3>3. Append(a, alias) = [i \in 1 .. Len(ts) + 1 |-> IF i = Len(ts) + 1 THEN alias ELSE a[i]]
      BY <1>1, <3>1, <3>2
    <3>4. \A i \in 1 .. Len(ts) + 1 : w[i].alias = IF i = Len(ts) + 1 THEN alias ELSE a[i]
      BY <1>1, <2>2, <2>3, <3>1
    <3>5. AliasesOf(w) = Append(a, alias)
      BY <2>3, <3>3, <3>4 DEF AliasesOf
    <3>6. ~ \E i \in DOMAIN a : a[i] = alias
      BY <2>4, <3>1
    <3> QED BY <3>5, <3>6 DEF a, Store!WithAlias
  <2> QED BY <1>2, <1>3, <2>7, <2>8, <2>9 DEF w
<1> QED BY <1>4, <1>5

\* The folded path of a file is that of its folder and its name.
LEMMA FoldRelParts ==
  ASSUME NEW rel \in Seq(Names) \ {<<>>}
  PROVE  /\ FoldRel(rel) = FoldPath(Dirs(rel), Last(rel).key)
         /\ Last(rel).key \in Keys
         /\ Dirs(rel) \in Seq(Names) /\ AllLowerPath(Dirs(rel))
<1>1. /\ Len(rel) \in Nat \ {0} /\ DOMAIN rel = 1 .. Len(rel)
      /\ \A i \in 1 .. Len(rel) : rel[i] \in Names
  BY EmptySeq, LenProperties
<1>2. Last(rel) \in Names
  BY LastIsName
<1>3. Dirs(rel) \in Seq(Names) /\ AllLowerPath(Dirs(rel))
  BY DirsAreLower DEF AllLowerPath
<1>4. Len(Dirs(rel)) = Len(rel) - 1
  <2> DEFINE n == Len(rel) - 1
  <2>1. n \in Nat /\ DOMAIN Dirs(rel) = 1 .. n
    BY <1>1 DEF Dirs
  <2> HIDE DEF n
  <2>2. DOMAIN Dirs(rel) = 1 .. Len(Dirs(rel)) /\ Len(Dirs(rel)) \in Nat
    BY <1>3, LenProperties
  <2>3. n = Len(Dirs(rel))
    BY <2>1, <2>2
  <2> QED BY <2>3 DEF n
<1>5. \A i \in 1 .. Len(rel) - 1 : Dirs(rel)[i].key = rel[i].key
  <2> TAKE i \in 1 .. Len(rel) - 1
  <2>1. Dirs(rel)[i] = Lower(rel[i]) /\ rel[i] \in Names
    BY <1>1 DEF Dirs
  <2> QED BY <2>1, LowerIsLower
<1>6. FoldRel(rel) = FoldPath(Dirs(rel), Last(rel).key)
  <2> DEFINE q == Dirs(rel)
             n == Len(rel)
  <2>1. FoldRel(rel) = [i \in 1 .. n |-> rel[i].key]
    BY <1>1 DEF FoldRel
  <2>2. FoldPath(q, Last(rel).key) = [i \in 1 .. n |-> IF i > n - 1 THEN Last(rel).key ELSE q[i].key]
    <3>1. Len(q) + 1 = n /\ Len(q) = n - 1
      BY <1>1, <1>4
    <3> HIDE DEF q, n
    <3> QED BY <3>1 DEF FoldPath
  <2>3. \A i \in 1 .. n : rel[i].key = IF i > n - 1 THEN Last(rel).key ELSE q[i].key
    <3> TAKE i \in 1 .. n
    <3>1. CASE i = n
      BY <1>1, <3>1 DEF Last
    <3>2. CASE i # n
      <4>1. i \in 1 .. n - 1 /\ ~ (i > n - 1)
        <5>1. n \in Nat /\ i \in 1 .. n /\ i # n
          BY <1>1, <3>2
        <5> HIDE DEF n
        <5> QED BY <5>1
      <4> QED BY <1>5, <4>1
    <3> QED BY <3>1, <3>2
  <2> HIDE DEF q, n
  <2> QED BY <2>1, <2>2, <2>3 DEF q
<1>7. Last(rel).key \in Keys
  BY <1>2 DEF Names
<1> QED BY <1>3, <1>6, <1>7

LEMMA HolderHolds ==
  ASSUME NEW ts, Good(ts), NEW rel \in Seq(Names) \ {<<>>}, NEW i \in Holders(ts, rel)
  PROVE  \E d : Holds(ts, ts[i].alias, FoldRel(rel), d)
<1> DEFINE dirs == Dirs(rel)
           table == ts[i].tree[dirs].files
           k == FoldedPosition(table, Last(rel))
<1>1. i \in DOMAIN ts /\ dirs \in DOMAIN ts[i].tree /\ k # 0
  BY DEF Holders
<1>2. table \in Seq(Files)
  BY <1>1, GoodTrees, FolderParts
<1>3. Last(rel) \in Names
  BY LastIsName
<1>4. k \in 1 .. Len(table) /\ table[k].name.key = Last(rel).key /\ FirstOfKey(table, k)
  <2> HIDE DEF table
  <2> QED BY <1>1, <1>2, <1>3, FoldedPositionFound, FoldedPositionIsFirst
<1>5. TreeHolds(ts[i].tree, dirs, Last(rel).key, table[k].data)
  BY <1>1, <1>4 DEF TreeHolds, TableHolds
<1> HIDE DEF table, k, dirs
<1> QED BY <1>1, <1>5, FoldRelParts DEF Holds, dirs

LEMMA HeldByHolder ==
  ASSUME NEW ts, Good(ts), NEW rel \in Seq(Names) \ {<<>>}, NEW a, NEW d, Holds(ts, a, FoldRel(rel), d)
  PROVE  \E i \in Holders(ts, rel) : ts[i].alias = a
<1>1. PICK i \in DOMAIN ts :
        ts[i].alias = a /\ \E p, key : TreeHolds(ts[i].tree, p, key, d) /\ FoldRel(rel) = FoldPath(p, key)
  BY DEF Holds
<1>2. PICK p, key : TreeHolds(ts[i].tree, p, key, d) /\ FoldRel(rel) = FoldPath(p, key)
  BY <1>1
<1>3. p \in DOMAIN ts[i].tree /\ IsTree(ts[i].tree) /\ TreeLower(ts[i].tree)
  BY <1>2, GoodTrees DEF TreeHolds
<1>4. p \in Seq(Names) /\ key \in Keys /\ AllLowerPath(p)
  BY <1>2, <1>3, HeldTyped DEF TreeLower
<1>5. FoldPath(p, key) = FoldPath(Dirs(rel), Last(rel).key) /\ Last(rel).key \in Keys
      /\ Dirs(rel) \in Seq(Names) /\ AllLowerPath(Dirs(rel))
  BY <1>2, FoldRelParts
<1>6. p = Dirs(rel) /\ key = Last(rel).key
  BY <1>4, <1>5, FoldPathInjective
<1> DEFINE table == ts[i].tree[p].files
<1>7. table \in Seq(Files) /\ Last(rel) \in Names
  BY <1>3, FolderParts, LastIsName
<1>8. \E k \in 1 .. Len(table) : table[k].name.key = key
  BY <1>2 DEF TreeHolds, TableHolds
<1>9. FoldedPosition(table, Last(rel)) # 0
  <2> HIDE DEF table
  <2> QED BY <1>6, <1>7, <1>8, FoldedPositionMisses
<1> QED BY <1>1, <1>3, <1>6, <1>9 DEF Holders

-----------------------------------------------------------------------------
(* The steps *)

LEMMA StepSound ==
  ASSUME CallersLower, Good(tocs), Next
  PROVE  Sound(tocs') /\ ArchiveLower(tocs')
BY StepLower DEF StaysLower, Good

\* The three edits that change nothing of the map.
LEMMA QuietSteps ==
  ASSUME CallersLower, Good(tocs), Next, RepackageArt \/ SortDirectories \/ PruneEmptyFolders
  PROVE  Good(tocs') /\ MembersOf(tocs') = MembersOf(tocs) /\ AliasesOf(tocs') = AliasesOf(tocs)
<1>1. \A i \in DOMAIN tocs : IsTree(tocs[i].tree)
  BY GoodTrees
<1>2. \E g : TreesTo(tocs, tocs', g) /\ \A i \in DOMAIN tocs : SameInTree(tocs[i].tree, g[i])
  <2>1. CASE RepackageArt
    <3> DEFINE art    == {s \in Slots : ArtStorage[At(s).name.key] # NotArt}
               failed == {s \in art : At(s).encrypted}
               done   == {s \in art \ failed : \A f \in failed : VisitedBefore(s, f)}
               In(i)  == {s \in done : s.toc = i}
               g      == [i \in DOMAIN tocs |-> RepackageIn(tocs[i].tree, In(i))]
    <3>1. tocs' = [i \in DOMAIN tocs |-> [tocs[i] EXCEPT !.tree = RepackageIn(@, In(i))]]
      BY <2>1 DEF RepackageArt
    <3> HIDE DEF In
    <3>2. TreesTo(tocs, tocs', g)
      BY <3>1 DEF TreesTo
    <3>3. \A i \in DOMAIN tocs : SameInTree(tocs[i].tree, g[i])
      BY <1>1, RepackageInHolds
    <3> HIDE DEF g
    <3> QED BY <3>2, <3>3
  <2>2. CASE SortDirectories
    <3> DEFINE g == [i \in DOMAIN tocs |-> SortTree(tocs[i].tree)]
    <3>1. TreesTo(tocs, tocs', g)
      BY <2>2 DEF SortDirectories, SortArchive, TreesTo
    <3>2. \A i \in DOMAIN tocs : SameInTree(tocs[i].tree, g[i])
      BY <1>1, SortTreeHolds
    <3> HIDE DEF g
    <3> QED BY <3>1, <3>2
  <2>3. CASE PruneEmptyFolders
    <3> DEFINE g == [i \in DOMAIN tocs |-> PruneTree(tocs[i].tree)]
    <3>1. TreesTo(tocs, tocs', g)
      BY <2>3 DEF PruneEmptyFolders, TreesTo
    <3>2. \A i \in DOMAIN tocs : SameInTree(tocs[i].tree, g[i])
      BY <1>1, PruneTreeHolds
    <3> HIDE DEF g
    <3> QED BY <3>1, <3>2
  <2> QED BY <2>1, <2>2, <2>3
<1>3. PICK g : TreesTo(tocs, tocs', g) /\ \A i \in DOMAIN tocs : SameInTree(tocs[i].tree, g[i])
  BY <1>2
<1>4. Good(tocs') /\ AliasesOf(tocs') = AliasesOf(tocs)
  BY <1>3, StepSound, TreesToParts DEF Good
<1>5. SameInArchive(tocs, tocs')
  BY <1>3, TreesSame
<1> QED BY <1>4, <1>5, SameMembers

LEMMA RemovalStep ==
  ASSUME CallersLower, Good(tocs), NEW K \in Predicates, RemoveFilesWhere(K)
  PROVE  Good(tocs') /\ Store!Remove(K)
<1> DEFINE g == [i \in DOMAIN tocs |-> RemoveFrom(tocs[i].tree, K)]
<1>1. TreesTo(tocs, tocs', g)
  BY DEF RemoveFilesWhere, TreesTo
<1>2. \A i \in DOMAIN tocs : g[i] = RemoveFrom(tocs[i].tree, K)
  OBVIOUS
<1> HIDE DEF g
<1>3. Next
  BY DEF Next
<1>4. Good(tocs') /\ AliasesOf(tocs') = AliasesOf(tocs)
  BY <1>1, <1>3, StepSound, TreesToParts DEF Good
<1>5. ArchiveLoses(tocs, tocs', K)
  BY <1>1, <1>2, TreesLose
<1>6. MapLoses(MembersOf(tocs), MembersOf(tocs'), K)
  BY <1>4, <1>5, LoseMembers
<1> QED BY <1>4, <1>6 DEF MapLoses, Store!Remove

\* An archive, first as it is found and then with a TOC more, gets one member.
LEMMA PutStep ==
  ASSUME Good(tocs), NEW with, Good(with), SameInArchive(tocs, with), NEW i \in DOMAIN with,
         AliasesOf(with) = Store!WithAlias(AliasesOf(tocs), with[i].alias),
         NEW rel \in Seq(Names) \ {<<>>}, NEW d, NEW u, IsTree(u), TreeSorted(u), TreeLower(u),
         TreeSets(with[i].tree, u, Dirs(rel), Last(rel).key, d),
         tocs' = [with EXCEPT ![i].tree = u]
  PROVE  Good(tocs') /\ Store!Put(with[i].alias, FoldRel(rel), d)
<1>1. /\ FoldRel(rel) = FoldPath(Dirs(rel), Last(rel).key) /\ Last(rel).key \in Keys
      /\ Dirs(rel) \in Seq(Names) /\ AllLowerPath(Dirs(rel))
  BY FoldRelParts
<1>2. Good(tocs') /\ ArchiveSets(with, tocs', with[i].alias, FoldRel(rel), d) /\ AliasesOf(tocs') = AliasesOf(with)
  BY <1>1, TreePut
<1>3. MembersOf(with) = MembersOf(tocs)
  BY SameMembers
<1>4. MapSets(MembersOf(with), MembersOf(tocs'), [alias |-> with[i].alias, path |-> FoldRel(rel)], d)
  BY <1>2, SetMembers
<1> QED BY <1>2, <1>3, <1>4 DEF MapSets, Store!Put, Store!Member

LEMMA UpsertStoredInStep ==
  ASSUME Good(tocs), NEW to \in Targets, NEW d \in Data, UpsertStoredIn(to.alias, to.rel, d)
  PROVE  Good(tocs') /\ Store!Put(to.alias, FoldRel(to.rel), d)
<1> DEFINE with == GetOrCreateToc(tocs, to.alias)
           i == TocIndex(with, to.alias)
           file == StoredFile(Last(to.rel), d)
<1>1. to.alias \in Aliases /\ to.rel \in Seq(Names) \ {<<>>}
  BY InputsAssumption
<1>2. PICK t \in InsertInTree(with[i].tree, to.rel, file) : tocs' = [with EXCEPT ![i].tree = t]
  BY DEF UpsertStoredIn, UpsertIn
<1>3. file \in Files /\ file.name.key = Last(to.rel).key /\ file.data = d
  BY <1>1, LastIsName, StoredFileTyped DEF StoredFile
<1>4. /\ Good(with) /\ SameInArchive(tocs, with) /\ i \in DOMAIN with /\ with[i].alias = to.alias
      /\ AliasesOf(with) = Store!WithAlias(AliasesOf(tocs), with[i].alias)
  BY <1>1, NewTocHolds
<1> HIDE DEF with, i, file
<1>5. IsTree(with[i].tree) /\ TreeSorted(with[i].tree) /\ TreeLower(with[i].tree)
  BY <1>4, GoodTrees
<1>6. IsTree(t) /\ TreeSorted(t)
  BY <1>1, <1>2, <1>3, <1>5, InsertInTreeKeeps
<1>7. TreeSets(with[i].tree, t, Dirs(to.rel), Last(to.rel).key, d) /\ TreeLower(t)
  BY <1>1, <1>2, <1>3, <1>5, InsertInTreeHolds
<1>8. Good(tocs') /\ Store!Put(with[i].alias, FoldRel(to.rel), d)
  BY <1>1, <1>2, <1>4, <1>6, <1>7, PutStep
<1> QED BY <1>4, <1>8

LEMMA UpsertStoredStep ==
  ASSUME CallersLower, Good(tocs), NEW rel \in StoredRels, NEW d \in Data, UpsertStored(rel, d)
  PROVE  Good(tocs') /\ Store!PutAnywhere(FoldRel(rel), d)
<1> DEFINE with == IF tocs = <<>> THEN GetOrCreateToc(tocs, DefaultAlias) ELSE tocs
           file == StoredFile(Last(rel), d)
           H == Holders(with, rel)
           path == FoldRel(rel)
<1>1. rel \in Seq(Names) \ {<<>>} /\ DefaultAlias \in Aliases
  BY InputsAssumption
<1>2. file \in Files /\ file.name = Last(rel) /\ file.data = d /\ IsLower(Last(rel))
  BY <1>1, LastIsName, StoredFileTyped DEF StoredFile, CallersLower
<1>3. \/ H # {} /\ tocs' = [with EXCEPT ![Min(H)].tree = Overwrite(@, rel, file)]
      \/ H = {} /\ \E t \in InsertInTree(with[1].tree, rel, file) : tocs' = [with EXCEPT ![1].tree = t]
  BY DEF UpsertStored
<1>4. /\ Good(with) /\ SameInArchive(tocs, with) /\ 1 \in DOMAIN with
      /\ with = tocs \/ (tocs = <<>> /\ with[1].alias = DefaultAlias
                           /\ AliasesOf(with) = Store!WithAlias(AliasesOf(tocs), DefaultAlias))
  <2>1. CASE tocs = <<>>
    <3>1. TocIndex(<<>>, DefaultAlias) = 0
      <4>1. PICK ts \in Seq({}) : ts = <<>>
        BY EmptySeq
      <4>2. TocIndex(ts, DefaultAlias) # 0 => TocIndex(ts, DefaultAlias) \in 1 .. Len(ts)
        BY TocIndexFound
      <4>3. 1 .. Len(ts) = {}
        BY <4>1
      <4> QED BY <4>1, <4>2, <4>3
    <3>2. with = <<[alias |-> DefaultAlias, tree |-> EmptyTree]>>
      BY <2>1, <3>1 DEF GetOrCreateToc
    <3>3. with[1].alias = DefaultAlias
      BY <3>2
    <3>4. Good(with) /\ SameInArchive(tocs, with) /\ 1 \in DOMAIN with
          /\ AliasesOf(with) = Store!WithAlias(AliasesOf(tocs), DefaultAlias)
      BY <1>1, <2>1, NewTocHolds
    <3> QED BY <2>1, <3>3, <3>4
  <2>2. CASE tocs # <<>>
    <3>1. tocs \in Seq(Range(tocs)) /\ DOMAIN tocs = 1 .. Len(tocs)
      BY TocParts DEF Good, Sound
    <3>2. Len(tocs) \in Nat \ {0}
      BY <2>2, <3>1, EmptySeq
    <3> QED BY <2>2, <3>1, <3>2 DEF SameInArchive
  <2> QED BY <2>1, <2>2
<1>5. H \subseteq DOMAIN with
      /\ \A j \in H : /\ Dirs(rel) \in DOMAIN with[j].tree
                      /\ FoldedPosition(with[j].tree[Dirs(rel)].files, Last(rel)) # 0
  BY DEF Holders
<1>6. \A j \in H : \E e : Holds(with, with[j].alias, path, e)
  BY <1>1, <1>4, HolderHolds
<1>7. \A a, e : Holds(with, a, path, e) => \E j \in H : with[j].alias = a
  BY <1>1, <1>4, HeldByHolder
<1> HIDE DEF with, file, H, path
<1>8. MapSays(with, MembersOf(with)) /\ MembersOf(with) = MembersOf(tocs)
  BY <1>4, MembersSay, SameMembers
<1>9. \A j \in DOMAIN with : /\ IsTree(with[j].tree) /\ TreeSorted(with[j].tree) /\ TreeLower(with[j].tree)
                             /\ with[j].alias \in Aliases
  BY <1>4, GoodTrees
<1>10. CASE H # {} /\ tocs' = [with EXCEPT ![Min(H)].tree = Overwrite(@, rel, file)]
  <2> DEFINE i == Min(H)
             t == Overwrite(with[i].tree, rel, file)
             order == AliasesOf(tocs)
  <2>1. i \in H /\ \A m \in H : i <= m /\ m \in Nat
    <3>1. DOMAIN with = 1 .. Len(with)
      BY <1>4, TocParts DEF Good, Sound
    <3>2. H \subseteq Nat
      BY <1>5, <3>1
    <3>3. \E n \in H : \A m \in H : n <= m
      BY <1>10, <3>2, LeastNatural
    <3> QED BY <3>2, <3>3 DEF Min
  <2> HIDE DEF i
  <2>2. i \in DOMAIN with /\ Dirs(rel) \in DOMAIN with[i].tree
        /\ FoldedPosition(with[i].tree[Dirs(rel)].files, Last(rel)) # 0
        /\ IsTree(with[i].tree) /\ TreeSorted(with[i].tree) /\ TreeLower(with[i].tree)
    BY <1>5, <1>9, <2>1
  <2>3. IsTree(t) /\ TreeSorted(t)
    BY <1>1, <1>2, <2>2, OverwriteInTreeKeeps
  <2>4. TreeSets(with[i].tree, t, Dirs(rel), Last(rel).key, d) /\ TreeLower(t)
    BY <1>1, <1>2, <2>2, OverwriteInTreeHolds
  <2>5. tocs' = [with EXCEPT ![i].tree = t]
    BY <1>10 DEF i
  <2> HIDE DEF t
  <2>6. with = tocs
    <3>1. PICK e : Holds(with, with[i].alias, path, e)
      BY <1>6, <2>1
    <3>2. Holds(tocs, with[i].alias, path, e)
      BY <1>4, <3>1 DEF SameInArchive
    <3>3. tocs # <<>>
      BY <3>2 DEF Holds
    <3> QED BY <1>4, <3>3
  <2>7. DOMAIN order = DOMAIN tocs /\ \A j \in DOMAIN tocs : order[j] = tocs[j].alias
    BY DEF AliasesOf
  <2> HIDE DEF order
  <2>8. order = Store!WithAlias(order, order[i])
    BY <2>2, <2>6, <2>7 DEF Store!WithAlias
  <2>9. Good(tocs') /\ Store!Put(order[i], path, d)
    BY <1>1, <1>4, <2>2, <2>3, <2>4, <2>5, <2>6, <2>7, <2>8, PutStep DEF path, order
  <2>10. \A j \in DOMAIN order : Store!Member(order[j], path) \in DOMAIN MembersOf(tocs) <=> j \in H
    <3>1. ASSUME NEW j \in H
          PROVE  Store!Member(order[j], path) \in DOMAIN MembersOf(tocs)
      <4>1. PICK e : Holds(with, with[j].alias, path, e)
        BY <1>6
      <4> QED BY <1>5, <1>8, <2>6, <2>7, <4>1 DEF MapSays, Store!Member
    <3>2. ASSUME NEW j \in DOMAIN order, Store!Member(order[j], path) \in DOMAIN MembersOf(tocs)
          PROVE  j \in H
      <4>1. \E e : Holds(with, order[j], path, e)
        <5> DEFINE m == Store!Member(order[j], path)
        <5>1. m.alias = order[j] /\ m.path = path
          BY DEF Store!Member
        <5> HIDE DEF m
        <5> QED BY <1>8, <3>2, <5>1 DEF MapSays, m
      <4>2. PICK k \in H : with[k].alias = order[j]
        BY <1>7, <4>1
      <4>3. k = j
        BY <1>4, <1>5, <2>6, <2>7, <4>2 DEF Good, Apart
      <4> QED BY <4>2, <4>3
    <3> QED BY <3>1, <3>2
  <2>11. \A j \in DOMAIN order : j < i => j \notin H
    <3>1. \A m \in H : i \in Nat /\ m \in Nat /\ i <= m
      BY <2>1
    <3> QED BY <3>1
  <2> QED BY <2>1, <2>2, <2>6, <2>7, <2>9, <2>10, <2>11 DEF Store!PutAnywhere, path, order
<1>11. ASSUME H = {}, NEW t \in InsertInTree(with[1].tree, rel, file),
              tocs' = [with EXCEPT ![1].tree = t]
       PROVE  Good(tocs') /\ Store!PutAnywhere(path, d)
  <2> DEFINE order == AliasesOf(tocs)
  <2>1. IsTree(with[1].tree) /\ TreeSorted(with[1].tree) /\ TreeLower(with[1].tree)
        /\ with[1].alias \in Aliases
    BY <1>4, <1>9
  <2>2. IsTree(t) /\ TreeSorted(t)
    BY <1>1, <1>2, <1>11, <2>1, InsertInTreeKeeps
  <2>3. TreeSets(with[1].tree, t, Dirs(rel), Last(rel).key, d) /\ TreeLower(t)
    BY <1>1, <1>2, <1>11, <2>1, InsertInTreeHolds
  <2>4. /\ with[1].alias = IF order = <<>> THEN DefaultAlias ELSE order[1]
        /\ AliasesOf(with) = Store!WithAlias(order, with[1].alias)
    <3>1. CASE with = tocs
      <4>1. 1 \in DOMAIN order /\ order[1] = with[1].alias
        BY <1>4, <3>1 DEF AliasesOf
      <4>2. order # <<>>
        BY <4>1
      <4>3. Store!WithAlias(order, with[1].alias) = order
        BY <4>1 DEF Store!WithAlias
      <4> QED BY <3>1, <4>1, <4>2, <4>3
    <3>2. CASE with # tocs
      <4>1. tocs = <<>> /\ with[1].alias = DefaultAlias /\ AliasesOf(with) = Store!WithAlias(order, DefaultAlias)
        BY <1>4, <3>2
      <4>2. order = <<>>
        <5>1. DOMAIN tocs = {}
          BY <4>1
        <5> QED BY <5>1 DEF AliasesOf
      <4> QED BY <4>1, <4>2
    <3> QED BY <3>1, <3>2
  <2>5. Good(tocs') /\ Store!Put(with[1].alias, path, d)
    BY <1>1, <1>4, <1>11, <2>2, <2>3, <2>4, PutStep DEF path
  <2>6. \A m \in DOMAIN MembersOf(tocs) : m.path # path
    BY <1>7, <1>8, <1>11 DEF MapSays
  <2> QED BY <2>4, <2>5, <2>6 DEF Store!PutAnywhere
<1> QED BY <1>3, <1>10, <1>11 DEF path

-----------------------------------------------------------------------------
(* The theorem *)

\* Every editing session is, seen from outside, one of MemberStore: from archives
\* that are lowercase, with doubles or without, and name no TOC twice, with
\* callers of upsert_stored that use lowercase, an upsert sets one member (the one
\* in the first TOC that holds the path where no TOC is named), a removal takes
\* the members asked for, and re-packing, sorting and pruning change nothing (the
\* edits of archive.rs, in any order).  Of doubles the map has the first, the one
\* that a lookup finds.
THEOREM EditsImplementMemberStore ==
  ASSUME CallersLower, BasesLower, BasesApart
  PROVE  Spec => ImplementsMemberStore
<1>1. Init => Good(tocs)
  BY BasesStayLower DEF Good, Apart, Init, BasesApart
<1>2. Good(tocs) /\ [Next]_tocs => Good(tocs)' /\ [Store!Next]_(Store!vars)
  <2> SUFFICES ASSUME Good(tocs), [Next]_tocs
               PROVE  Good(tocs') /\ [Store!Next]_(Store!vars)
    BY DEF Good
  <2>1. CASE UNCHANGED tocs
    BY <2>1 DEF Store!vars
  <2>2. ASSUME NEW to \in Targets, NEW d \in Data, UpsertStoredIn(to.alias, to.rel, d)
        PROVE  Good(tocs') /\ Store!Next
    <3> DEFINE m == [alias |-> to.alias, path |-> FoldRel(to.rel)]
    <3>1. m.alias = to.alias /\ m.path = FoldRel(to.rel)
      OBVIOUS
    <3> HIDE DEF m
    <3>2. Good(tocs') /\ Store!Put(m.alias, m.path, d)
      BY <2>2, <3>1, UpsertStoredInStep
    <3> QED BY <3>2 DEF Store!Next, m
  <2>3. ASSUME NEW rel \in StoredRels, NEW d \in Data, UpsertStored(rel, d)
        PROVE  Good(tocs') /\ Store!Next
    BY <2>3, UpsertStoredStep DEF Store!Next
  <2>4. ASSUME NEW K \in Predicates, RemoveFilesWhere(K)
        PROVE  Good(tocs') /\ Store!Next
    BY <2>4, RemovalStep DEF Store!Next
  <2>5. CASE RepackageArt \/ SortDirectories \/ PruneEmptyFolders
    <3>1. Next
      BY <2>5 DEF Next
    <3> QED BY <2>5, <3>1, QuietSteps DEF Store!vars
  <2> QED BY <2>1, <2>2, <2>3, <2>4, <2>5 DEF Next
<1>3. Init => Store!Init
  <2> SUFFICES ASSUME Init PROVE Store!Init
    OBVIOUS
  <2> DEFINE b == [members |-> MembersOf(tocs), order |-> AliasesOf(tocs)]
  <2>1. b.members = MembersOf(tocs) /\ b.order = AliasesOf(tocs)
    OBVIOUS
  <2> HIDE DEF b
  <2> QED BY <2>1 DEF Init, Store!Init, b
<1> QED BY <1>1, <1>2, <1>3, PTL DEF Spec, ImplementsMemberStore, Store!Spec

=============================================================================
