--------------------------- MODULE ArchiveEdits ---------------------------
(***************************************************************************)
(* An editing session: the archive one program holds in memory and the     *)
(* edits crates/sga/src/archive.rs offers on it, in any order.             *)
(***************************************************************************)
EXTENDS ArchiveTree

CONSTANTS
  DefaultAlias, \* "data", the TOC upsert_stored creates in an empty archive
  Bases,        \* the archives an editing session may start from
  Targets,      \* the TOC and path pairs callers hand to upsert_stored_in
  StoredRels,   \* the archive paths callers hand to upsert_stored
  Predicates    \* the sets of folded file names callers remove

VARIABLE tocs   \* the TOCs of the archive being edited

\* The archives the editing commands start from are sorted; they may hold two
\* members of one name in a folder (a cooked texture and its packed variant).
ASSUME BasesAssumption ==
  \A b \in Bases : IsArchive(b) /\ \A i \in DOMAIN b : TreeSorted(b[i].tree)

ASSUME InputsAssumption ==
  /\ DefaultAlias \in Aliases
  /\ Targets \subseteq [alias : Aliases, rel : Seq(Names) \ {<<>>}]
  /\ StoredRels \subseteq Seq(Names) \ {<<>>}
  /\ ArtStorage \in [Keys -> {"Store", "Compress", NotArt}]

(***************************************************************************)
(* The edits.                                                              *)
(***************************************************************************)
UpsertStoredIn(alias, rel, d) == tocs' \in UpsertIn(tocs, alias, rel, d)

\* Mutant of the next edit: the last TOC that holds the path is written.
UpsertStoredLast(rel, d) ==
  LET with == IF tocs = <<>> THEN GetOrCreateToc(tocs, DefaultAlias) ELSE tocs
      file == StoredFile(Last(rel), d)
  IN  \/ /\ Holders(with, rel) # {}
         /\ LET i == Max(Holders(with, rel))
            IN  tocs' = [with EXCEPT ![i].tree = Overwrite(@, rel, file)]
      \/ /\ Holders(with, rel) = {}
         /\ \E t \in InsertInTree(with[1].tree, rel, file) :
              tocs' = [with EXCEPT ![1].tree = t]

(***************************************************************************)
(* upsert_stored: a file found up to case in any TOC is overwritten where  *)
(* it stands, under the caller's spelling; otherwise the file goes into    *)
(* the first TOC.                                                          *)
(***************************************************************************)
UpsertStored(rel, d) ==
  LET with == IF tocs = <<>> THEN GetOrCreateToc(tocs, DefaultAlias) ELSE tocs
      file == StoredFile(Last(rel), d)
  IN  \/ /\ Holders(with, rel) # {}
         /\ LET i == Min(Holders(with, rel))
            IN  tocs' = [with EXCEPT ![i].tree = Overwrite(@, rel, file)]
      \/ /\ Holders(with, rel) = {}
         /\ \E t \in InsertInTree(with[1].tree, rel, file) :
              tocs' = [with EXCEPT ![1].tree = t]

RemoveFilesWhere(K) ==
  tocs' = [i \in DOMAIN tocs |-> [tocs[i] EXCEPT !.tree = RemoveFrom(@, K)]]

SortDirectories == tocs' = SortArchive(tocs)

PruneEmptyFolders ==
  tocs' = [i \in DOMAIN tocs |-> [tocs[i] EXCEPT !.tree = PruneTree(@)]]

(***************************************************************************)
(* repackage_art walks the files depth first and re-encodes the art among  *)
(* them.  It stops with an error at the first art file it cannot decode    *)
(* (an encrypted one), and what it has re-encoded by then stays so.        *)
(***************************************************************************)
Slots ==
  UNION {UNION {{[toc |-> i, path |-> p, file |-> k] :
                   k \in DOMAIN tocs[i].tree[p].files} :
                p \in DOMAIN tocs[i].tree} :
         i \in DOMAIN tocs}

At(slot) == tocs[slot.toc].tree[slot.path].files[slot.file]

VisitedBefore(a, b) ==
  \/ a.toc < b.toc
  \/ /\ a.toc = b.toc
     /\ \/ DepthFirst(tocs[a.toc].tree, a.path, b.path)
        \/ a.path = b.path /\ a.file < b.file

RepackageArt ==
  LET art    == {s \in Slots : ArtStorage[At(s).name.key] # NotArt}
      failed == {s \in art : At(s).encrypted}
      done   == {s \in art \ failed : \A f \in failed : VisitedBefore(s, f)}
      In(i)  == {s \in done : s.toc = i}
  IN  tocs' = [i \in DOMAIN tocs |->
                 [tocs[i] EXCEPT !.tree = RepackageIn(@, In(i))]]

(***************************************************************************)
(* An editing session on an archive that was read or started empty.        *)
(***************************************************************************)
Init == tocs \in Bases

Next ==
  \/ \E to \in Targets, d \in Data : UpsertStoredIn(to.alias, to.rel, d)
  \/ \E rel \in StoredRels, d \in Data : UpsertStored(rel, d)
  \/ \E K \in Predicates : RemoveFilesWhere(K)
  \/ RepackageArt
  \/ SortDirectories
  \/ PruneEmptyFolders

Spec == Init /\ [][Next]_tocs

(***************************************************************************)
(* Properties.                                                             *)
(***************************************************************************)

\* The archive is a list of TOCs, each a tree whose folders are the listed
\* ones: what every walk of write and of extract_to takes for granted.
TypeOK == IsArchive(tocs)

\* The game finds an entry by searching its table in folded order
\* (archive.rs, the comment on sort_directories), so no order of upserts,
\* removals and re-packings may leave a table out of order.
TablesSorted == \A i \in DOMAIN tocs : TreeSorted(tocs[i].tree)

\* The names callers hand to upsert_stored are lowercase, as members are.  It
\* stores them as spelled when it overwrites, so the next property needs it.
CallersLower == \A rel \in StoredRels : IsLower(Last(rel))

\* Mod archives are lowercase and hold no doubles, cooked ones may.
BasesKept == \A b \in Bases : \A i \in DOMAIN b : Kept(b[i].tree)

LowerNamed(ts) ==
  \A i \in DOMAIN ts : \A p \in DOMAIN ts[i].tree :
    AllLower(ts[i].tree[p].folders) /\ AllLower(ts[i].tree[p].files)

\* Cooked archives and mod archives are lowercase alike.
BasesLower == \A b \in Bases : LowerNamed(b)

\* "A caller's casing is not preserved": whatever was handed in, the names in
\* the archive are lowercase, the only ones the engine looks up (archive.rs, the
\* comments on insert_or_replace and insert_file).
NamesLower == LowerNamed(tocs)

\* An upsert replaces: two siblings never differ in case only, whatever order
\* of edits ran, so a lookup by folded name has one answer.
SiblingsUnique ==
  \A i \in DOMAIN tocs : \A p \in DOMAIN tocs[i].tree :
    /\ UniquelyNamed(tocs[i].tree[p].folders)
    /\ UniquelyNamed(tocs[i].tree[p].files)

\* Where an archive came with doubles the edits still make no more of them: a
\* step leaves in a folder at most as many files of one folded name as it
\* found there, or one.
Doubles(ts, s) ==
  Cardinality({k \in DOMAIN ts[s.toc].tree[s.path].files :
                 ts[s.toc].tree[s.path].files[k].name.key = s.key})

TableNames(ts) ==
  UNION {UNION {{[toc |-> i, path |-> p, key |-> ts[i].tree[p].files[k].name.key] :
                   k \in DOMAIN ts[i].tree[p].files} :
                p \in DOMAIN ts[i].tree} :
         i \in DOMAIN ts}

DoublesNeverGrow ==
  [][\A s \in TableNames(tocs') :
       \/ Doubles(tocs', s) = 1
       \/ s \in TableNames(tocs) /\ Doubles(tocs', s) <= Doubles(tocs, s)]_tocs

=============================================================================
