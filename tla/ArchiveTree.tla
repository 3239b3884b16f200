---------------------------- MODULE ArchiveTree ----------------------------
(***************************************************************************)
(* An archive held in memory (crates/sga/src/archive.rs): a list of TOCs,  *)
(* each a tree of folders, each folder a table of child folders and a      *)
(* table of files; and what the library's edits make of a tree.            *)
(*                                                                         *)
(* A tree is a function from the paths of its folders (sequences of names, *)
(* the root being <<>>) to their two tables, so that an edit deep in the   *)
(* tree is a change at one path.  Two folders of one path in one TOC, which*)
(* write could not tell apart either, are not representable.               *)
(*                                                                         *)
(* The module has no variables: ArchiveEdits applies it to one archive in  *)
(* memory, ArchiveImage to what a file holds, MachineCommands to the       *)
(* archives of several processes.                                          *)
(***************************************************************************)
EXTENDS DirectoryTable

CONSTANTS
  Data,         \* the decoded contents of members
  Aliases,      \* the TOC aliases callers route members to
  ArtStorage    \* how repackage_art stores a name of each key, or NotArt

(***************************************************************************)
(* Files.  `crc' is the recorded checksum: the set of the stored bytes it  *)
(* was taken of, empty for a recorded zero, which a reader does not check. *)
(* `order' is the position the member's bytes had in the file it was read  *)
(* from, or NoOrder for one made in memory.                                *)
(***************************************************************************)
NotArt  == "NotArt"
NoOrder == -1

Storages      == {"Store", "Compress", "Brotli"}
Verifications == {"None", "SHA1Blocks"}
StoredBytes   == [data : Data, storage : Storages]

Stored(file) == [data |-> file.data, storage |-> file.storage]

Files ==
  [name : Names, data : Data, storage : Storages, encrypted : BOOLEAN,
   verify : Verifications, crc : SUBSET StoredBytes,
   order : Nat \cup {NoOrder}]

\* stored_file: a fresh, uncompressed member hashed block by block.
StoredFile(name, d) ==
  [name |-> name, data |-> d, storage |-> "Store", encrypted |-> FALSE,
   verify |-> "SHA1Blocks", crc |-> {[data |-> d, storage |-> "Store"]},
   order |-> NoOrder]

(***************************************************************************)
(* Trees.                                                                  *)
(***************************************************************************)
Folders == [folders : Seq([name : Names]), files : Seq(Files)]

EmptyFolder == [folders |-> <<>>, files |-> <<>>]

EmptyTree == [p \in {<<>>} |-> EmptyFolder]

\* Every folder is listed by its parent, and every listed folder is there.
IsTree(t) ==
  /\ <<>> \in DOMAIN t
  /\ \A p \in DOMAIN t :
       /\ p \in Seq(Names)
       /\ t[p] \in Folders
       /\ \A i \in DOMAIN t[p].folders :
            Append(p, t[p].folders[i].name) \in DOMAIN t
       /\ p # <<>> =>
            /\ Front(p) \in DOMAIN t
            /\ \E i \in DOMAIN t[Front(p)].folders :
                 t[Front(p)].folders[i].name = Last(p)

IsToc(toc) ==
  /\ toc = [alias |-> toc.alias, tree |-> toc.tree]
  /\ toc.alias \in Aliases
  /\ IsTree(toc.tree)

IsArchive(ts) == ts \in Seq(Range(ts)) /\ \A i \in DOMAIN ts : IsToc(ts[i])

\* What the game needs of every table, and what shipped archives are.
TreeSorted(t) == \A p \in DOMAIN t : Sorted(t[p].folders) /\ Sorted(t[p].files)

TableKept(table) == Sorted(table) /\ UniquelyNamed(table) /\ AllLower(table)

Kept(t) == \A p \in DOMAIN t : TableKept(t[p].folders) /\ TableKept(t[p].files)

(***************************************************************************)
(* Going down a tree.  descend lowercases the folder names of the path and *)
(* creates the ones that are missing, each in its sorted place; only the   *)
(* first missing one can meet siblings.                                    *)
(***************************************************************************)
Dirs(rel) == [i \in 1 .. Len(rel) - 1 |-> Lower(rel[i])]

LowerPath(path) == [i \in DOMAIN path |-> Lower(path[i])]

\* How many leading components of dirs name folders that exist.
Depth(t, dirs) ==
  CHOOSE n \in 0 .. Len(dirs) :
    /\ \A m \in 0 .. n : SubSeq(dirs, 1, m) \in DOMAIN t
    /\ n < Len(dirs) => SubSeq(dirs, 1, n + 1) \notin DOMAIN t

\* Mutants of the next operator: the folders made are not put in their parents'
\* tables, or at the end of them.
DescendUnlisted(t, dirs) ==
  {[p \in DOMAIN t \cup {SubSeq(dirs, 1, m) : m \in 1 .. Len(dirs)} |->
      IF p \in DOMAIN t THEN t[p] ELSE EmptyFolder]}

DescendAtEnd(t, dirs) ==
  LET n       == Depth(t, dirs)
      missing == {SubSeq(dirs, 1, m) : m \in n + 1 .. Len(dirs)}
  IN  {[p \in DOMAIN t \cup missing |->
          LET folder == IF p \in missing THEN EmptyFolder ELSE t[p]
          IN  IF \E q \in missing : Front(q) = p
              THEN [folder EXCEPT !.folders = Append(@, [name |-> dirs[Len(p) + 1]])]
              ELSE folder]}

\* The trees descend may leave: it may choose a place only for one folder.
Descend(t, dirs) ==
  LET n       == Depth(t, dirs)
      reached == SubSeq(dirs, 1, n)
      missing == {SubSeq(dirs, 1, m) : m \in n + 1 .. Len(dirs)}
      Child(m) == [name |-> dirs[m]]
      Fresh(p) == [folders |-> IF p = dirs THEN <<>> ELSE <<Child(Len(p) + 1)>>,
                   files   |-> <<>>]
  IN  IF missing = {}
      THEN {t}
      ELSE {[p \in DOMAIN t \cup missing |->
               IF p \in missing THEN Fresh(p)
               ELSE IF p = reached
                    THEN [t[p] EXCEPT !.folders =
                            InsertAt(@, at + 1, Child(n + 1))]
                    ELSE t[p]] :
              at \in PartitionPoints(t[reached].folders, dirs[n + 1].key)}

\* Mutant of the next operator: the name goes in as the caller spelled it.
InsertAsSpelled(t, rel, file) ==
  LET dirs == Dirs(rel)
  IN  UNION {{[u EXCEPT ![dirs].files = table] :
                table \in InsertOrReplace(u[dirs].files, file)} :
             u \in Descend(t, dirs)}

\* insert_or_replace: the file is lowercased and put into its folder's table.
InsertInTree(t, rel, file) ==
  LET dirs    == Dirs(rel)
      lowered == [file EXCEPT !.name = Lower(@)]
  IN  UNION {{[u EXCEPT ![dirs].files = table] :
                table \in InsertOrReplace(u[dirs].files, lowered)} :
             u \in Descend(t, dirs)}

\* insert_file: the same descent, but the file is pushed at the end.
PushInTree(t, rel, file) ==
  {[u EXCEPT ![Dirs(rel)].files = Append(@, [file EXCEPT !.name = Lower(@)])] :
     u \in Descend(t, Dirs(rel))}

(***************************************************************************)
(* Edits of an archive.                                                    *)
(***************************************************************************)
TocIndex(ts, alias) == SelectInSeq(ts, LAMBDA toc : toc.alias = alias)

GetOrCreateToc(ts, alias) ==
  IF TocIndex(ts, alias) # 0
  THEN ts
  ELSE Append(ts, [alias |-> alias, tree |-> EmptyTree])

\* The archives upsert_stored_in may leave of ts.
UpsertIn(ts, alias, rel, d) ==
  LET with == GetOrCreateToc(ts, alias)
      i    == TocIndex(with, alias)
  IN  {[with EXCEPT ![i].tree = t] :
         t \in InsertInTree(with[i].tree, rel, StoredFile(Last(rel), d))}

\* The TOCs with a file at rel up to case, in folders that match exactly.
FoldedPosition(table, name) ==
  SelectInSeq(table, LAMBDA entry : Lower(entry.name) = Lower(name))

Holders(ts, rel) ==
  {i \in DOMAIN ts :
     /\ Dirs(rel) \in DOMAIN ts[i].tree
     /\ FoldedPosition(ts[i].tree[Dirs(rel)].files, Last(rel)) # 0}

\* The file found in place of rel is replaced, its name included.
Overwrite(t, rel, file) ==
  LET k == FoldedPosition(t[Dirs(rel)].files, Last(rel))
  IN  [t EXCEPT ![Dirs(rel)].files = [@ EXCEPT ![k] = file]]

\* Mutant of the next operator: the test of retain the wrong way round.
RemoveOthersFrom(t, K) ==
  [p \in DOMAIN t |->
     [t[p] EXCEPT !.files = Retain(@, {i \in DOMAIN @ : @[i].name.key \in K})]]

\* remove_files_where: the files whose folded name is in K go, everywhere.
RemoveFrom(t, K) ==
  [p \in DOMAIN t |->
     [t[p] EXCEPT !.files = Retain(@, {i \in DOMAIN @ : @[i].name.key \notin K})]]

\* sort_directories, on every folder of every TOC.
SortTree(t) ==
  [p \in DOMAIN t |->
     [folders |-> SortTable(t[p].folders), files |-> SortTable(t[p].files)]]

SortArchive(ts) ==
  [i \in DOMAIN ts |-> [ts[i] EXCEPT !.tree = SortTree(@)]]

\* prune_empty_folders keeps the root and the folders with a file below.
HoldsFiles(t, p) == \E q \in DOMAIN t : IsPrefix(p, q) /\ t[q].files # <<>>

\* Mutant of the next operator: the pruned folders stay listed.
PruneUnlisted(t) ==
  [p \in {p \in DOMAIN t : p = <<>> \/ HoldsFiles(t, p)} |-> t[p]]

PruneTree(t) ==
  LET kept == {p \in DOMAIN t : p = <<>> \/ HoldsFiles(t, p)}
  IN  [p \in kept |->
         [t[p] EXCEPT !.folders =
            Retain(@, {i \in DOMAIN @ : Append(p, @[i].name) \in kept})]]

(***************************************************************************)
(* The order files_recursive and the legacy walk go down a tree in.        *)
(***************************************************************************)
DepthFirst(t, p, q) ==
  \/ IsStrictPrefix(p, q)
  \/ \E n \in 0 .. Len(p) - 1 :
       /\ n < Len(q)
       /\ SubSeq(p, 1, n) = SubSeq(q, 1, n)
       /\ LET siblings == t[SubSeq(p, 1, n)].folders
          IN  Position(siblings, p[n + 1]) < Position(siblings, q[n + 1])

(***************************************************************************)
(* Finding members.  The commands fold the whole path; the first TOC with  *)
(* a match wins, and in it the first match.                                *)
(***************************************************************************)
Matches(t, rel) ==
  {s \in UNION {{<<p, k>> : k \in DOMAIN t[p].files} : p \in DOMAIN t} :
     /\ Len(s[1]) = Len(rel) - 1
     /\ \A i \in DOMAIN s[1] : s[1][i].key = rel[i].key
     /\ t[s[1]].files[s[2]].name.key = Last(rel).key}

FirstMatch(t, rel) ==
  CHOOSE s \in Matches(t, rel) :
    \A r \in Matches(t, rel) \ {s} :
      DepthFirst(t, s[1], r[1]) \/ (s[1] = r[1] /\ s[2] < r[2])

FoldedHolders(ts, rel) == {i \in DOMAIN ts : Matches(ts[i].tree, rel) # {}}

\* The set of the entry found for rel: empty, or of one.
FoundIn(ts, rel) ==
  IF FoldedHolders(ts, rel) = {}
  THEN {}
  ELSE LET t == ts[Min(FoldedHolders(ts, rel))].tree
           s == FirstMatch(t, rel)
       IN  {t[s[1]].files[s[2]]}

\* find_member: an exact match in any TOC before a match up to case.
FindMember(ts, rel) ==
  LET exact == {i \in DOMAIN ts :
                  /\ Front(rel) \in DOMAIN ts[i].tree
                  /\ Position(ts[i].tree[Front(rel)].files, Last(rel)) # 0}
  IN  IF exact = {}
      THEN FoundIn(ts, rel)
      ELSE LET table == ts[Min(exact)].tree[Front(rel)].files
           IN  {table[Position(table, Last(rel))]}

(***************************************************************************)
(* Re-storing art files.                                                   *)
(***************************************************************************)

\* Mutant of the next operator: the checksum is left as it was.
RepackagedStale(file) ==
  [file EXCEPT !.storage = ArtStorage[file.name.key], !.verify = "None"]

Repackaged(file) ==
  LET storage == ArtStorage[file.name.key]
  IN  [file EXCEPT !.storage = storage, !.verify = "None",
                   !.crc = {[data |-> file.data, storage |-> storage]}]

RepackageIn(t, done) ==
  [p \in DOMAIN t |->
     [t[p] EXCEPT !.files =
        [k \in DOMAIN @ |->
           IF \E s \in done : s.path = p /\ s.file = k
           THEN Repackaged(@[k])
           ELSE @[k]]]]

=============================================================================
