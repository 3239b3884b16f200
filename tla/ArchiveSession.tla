-------------------------- MODULE ArchiveSession --------------------------
(***************************************************************************)
(* Editing an archive across files: a command reads an archive, or starts  *)
(* a fresh one, edits it in memory and writes it out; a later command      *)
(* reads what was written (crates/sga-archiver-cli/src/machine.rs around   *)
(* crates/sga/src/archive.rs).                                             *)
(***************************************************************************)
EXTENDS ArchiveImage, ArchiveEdits

CONSTANTS
  Versions,   \* the format versions of the archives that exist to begin with
  MaxEdits    \* the edits of one command

VARIABLES
  layout, version,   \* of the archive in memory
  edits,             \* the edits made to it
  disk               \* the archive file a command may read

vars == <<tocs, layout, version, edits, disk>>

ASSUME SessionAssumption == Versions \subseteq 3 .. 11 /\ MaxEdits \in Nat

\* from_dir and compile_project start version 11 archives in the modern layout.
FreshLayout  == "Modern"
FreshVersion == 11

\* Another tool packed the first file: its offsets are right for its version.
Packed(l, v, ts) == ImageBy(RecordSizes(v), l, v, ts)

SessionInit ==
  /\ \E b \in Bases, l \in Layouts, v \in Versions : disk = Packed(l, v, b)
  /\ tocs = <<>>
  /\ layout = FreshLayout
  /\ version = FreshVersion
  /\ edits = 0

\* Archive::read, at the start of a command.
Open ==
  /\ edits = 0
  /\ tocs = <<>>
  /\ Readable(disk)
  /\ tocs' = LoadTocs(disk)
  /\ layout' = DetectLayout(disk)
  /\ version' = disk.version
  /\ UNCHANGED <<edits, disk>>

Edit ==
  /\ edits < MaxEdits
  /\ edits' = edits + 1
  /\ UNCHANGED <<layout, version, disk>>
  /\ \/ \E to \in Targets, d \in Data : UpsertStoredIn(to.alias, to.rel, d)
     \/ \E rel \in StoredRels, d \in Data : UpsertStored(rel, d)
     \/ \E K \in Predicates : RemoveFilesWhere(K)
     \/ RepackageArt
     \/ PruneEmptyFolders

\* write_eager: every table is sorted, then the archive is written, and the
\* command is done with it.
WriteEager ==
  /\ disk' = Image(layout, version, SortArchive(tocs))
  /\ tocs' = <<>>
  /\ layout' = FreshLayout
  /\ version' = FreshVersion
  /\ edits' = 0

SessionNext == Open \/ Edit \/ WriteEager

SessionSpec == SessionInit /\ [][SessionNext]_vars

(***************************************************************************)
(* What the proofs suppose of the first file: a tree has finitely many     *)
(* folders, no table lists two folders of one name, and every recorded     *)
(* checksum is of the member's own stored bytes.                           *)
(***************************************************************************)
Whole(t) ==
  /\ IsFiniteSet(DOMAIN t)
  /\ \A p \in DOMAIN t : \A i, j \in DOMAIN t[p].folders :
       t[p].folders[i].name = t[p].folders[j].name => i = j
  /\ \A p \in DOMAIN t : \A k \in DOMAIN t[p].files :
       t[p].files[k].crc # {} => Stored(t[p].files[k]) \in t[p].files[k].crc

WholeArchive(ts) == IsArchive(ts) /\ \A i \in DOMAIN ts : Whole(ts[i].tree)

BasesWhole == \A b \in Bases : WholeArchive(b)

(***************************************************************************)
(* What a round trip supposes besides.  A member read back is placed again *)
(* by the offset it was found at, and one without bytes shares its offset  *)
(* with the member after it in the blob.  Of the two write puts the one    *)
(* walked first ahead, so that has to be the empty one.                    *)
(***************************************************************************)
WalkedAhead(lay, t, p, q) ==
  IF lay = "Legacy" THEN DepthFirst(t, p, q) ELSE BreadthFirst(t, p, q)

EmptyAhead(f, g) == Length[f.data] = 0 /\ f.order # NoOrder /\ f.order < g.order

EmptiesInOrder(lay, ts) ==
  \A i, j \in DOMAIN ts :
    \A p \in DOMAIN ts[i].tree, q \in DOMAIN ts[j].tree :
      \A k \in DOMAIN ts[i].tree[p].files, l \in DOMAIN ts[j].tree[q].files :
        EmptyAhead(ts[i].tree[p].files[k], ts[j].tree[q].files[l]) =>
          \/ i < j
          \/ i = j /\ WalkedAhead(lay, ts[i].tree, p, q)
          \/ i = j /\ p = q /\ k < l

EmptiesPacked == \A b \in Bases, l \in Layouts : EmptiesInOrder(l, b)

(***************************************************************************)
(* Properties.                                                             *)
(***************************************************************************)
Forget(t) ==
  [p \in DOMAIN t |->
     [t[p] EXCEPT !.files = [k \in DOMAIN @ |-> [@[k] EXCEPT !.order = NoOrder]]]]

\* What an archive says, but for where its bytes were in the file.
Content(ts) == [i \in DOMAIN ts |-> [ts[i] EXCEPT !.tree = Forget(@)]]

RangesIn(image, entry) ==
  /\ entry.folders <= entry.folderEnd /\ entry.folderEnd <= Len(image.folders)
  /\ entry.files <= entry.fileEnd /\ entry.fileEnd <= Len(image.files)
  /\ entry.name \in DOMAIN image.strings

\* Memory holds an archive and the file's index ranges lie in its tables.
SessionTypeOK ==
  /\ TypeOK
  /\ layout \in Layouts /\ version \in 3 .. 11 /\ edits \in 0 .. MaxEdits
  /\ disk.version \in 3 .. 11
  /\ \A k \in DOMAIN disk.folders : RangesIn(disk, disk.folders[k])
  /\ \A k \in DOMAIN disk.files : disk.files[k].name \in DOMAIN disk.strings

\* What is written reads back: the same TOCs, folders, names, order of every
\* table, contents and attributes, in either traversal and whatever was edited.
WrittenReadsBack ==
  [][WriteEager => /\ Readable(disk')
                   /\ Content(LoadTocs(disk')) = Content(SortArchive(tocs))
                   /\ disk'.version = version]_vars

\* Every file a command writes, or leaves, passes verify: no edit strands a
\* checksum or a block hash of the bytes it replaced.
FileVerifies ==
  /\ CrcMismatches(disk) = {}
  /\ Sha1Mismatches(disk) = {}
  /\ Unhashed(disk) = {}

\* Reading a file and writing it reproduces it, the other tool's order of the
\* bytes and its traversal included, although neither is recorded in the file
\* and the traversal is guessed from the strings (CONTEXT.md, "Byte-exact
\* round-trips are the drift guard everywhere").
RoundTripExact ==
  /\ Readable(disk)
  /\ Image(DetectLayout(disk), disk.version, LoadTocs(disk)) = disk

=============================================================================
