--------------------------- MODULE ArchiveImage ---------------------------
(***************************************************************************)
(* The archive file: how Archive::write lays an archive out, how           *)
(* Archive::read finds it again, and how ArchiveReader::verify checks it   *)
(* (crates/sga/src/archive.rs and index.rs).                               *)
(*                                                                         *)
(* An image is a record of the regions of the file.  Stored bytes are      *)
(* sequences of units, so that an empty member takes no room in the blob;  *)
(* a string is the sequence of the names in it and its offset is its place *)
(* in the pool; a hash stands for the block it was taken of.               *)
(***************************************************************************)
EXTENDS ArchiveTree

CONSTANTS
  Length,       \* the number of units of each content, 0 for the empty one
  BlockSize     \* the units one recorded hash covers

ASSUME ImageAssumption ==
  /\ Length \in [Data -> Nat]
  /\ \A d, e \in Data : Length[d] = 0 /\ Length[e] = 0 => d = e
  /\ BlockSize \in Nat \ {0}

Layouts == {"Legacy", "Modern"}

(***************************************************************************)
(* Record sizes.  RecordSizes(v) are the bytes the field conditions of the *)
(* entry structures give a record of version v; WrittenSizes are the       *)
(* constants at the head of archive.rs that write computes offsets with.   *)
(***************************************************************************)
When(condition, bytes) == IF condition THEN bytes ELSE 0

IndexField(v) == IF v < 6 THEN 2 ELSE 4

WideField(v) == IF v < 9 THEN 4 ELSE 8

MainHeaderBytes(v) ==
  12 + 128 + When(v < 6, 32) + When(v >= 9, 8) + When(v = 8, 4) + 4
     + WideField(v) + When(v >= 9, 8) + When(v = 5, 4) + When(v = 8, 4)
     + 4 + When(v = 5, 8) + When(v >= 8, 256)

IndexTableBytes(v) ==
  4 * (4 + IndexField(v)) + When(v >= 7, 4) + When(v >= 8, 4) + When(v >= 7, 4)

FileEntryBytes(v) ==
  4 + When(v >= 8, 4) + WideField(v) + 4 + 4 + When(v >= 4 /\ v < 10, 4)
    + 2 + When(v >= 6, 4) + When(v = 7, 4)

RecordSizes(v) ==
  [main |-> MainHeaderBytes(v), index |-> IndexTableBytes(v),
   toc |-> 128 + 5 * IndexField(v), folder |-> 4 + 4 * IndexField(v),
   file |-> FileEntryBytes(v)]

WrittenSizes ==
  [main |-> 428, index |-> 44, toc |-> 148, folder |-> 20, file |-> 30]

\* The offsets of the regions, for records of these sizes and n of each kind.
OffsetsBy(sizes, n) ==
  LET folder == sizes.index + n.tocs * sizes.toc
      file   == folder + n.folders * sizes.folder
      string == file + n.files * sizes.file
  IN  [data |-> sizes.main, blob |-> sizes.main + n.data, toc |-> sizes.index,
       folder |-> folder, file |-> file, string |-> string,
       hash |-> string + n.strings]

Counts(image) ==
  [data |-> Len(image.data), tocs |-> Len(image.tocs),
   folders |-> Len(image.folders), files |-> Len(image.files),
   strings |-> Len(image.strings)]

(***************************************************************************)
(* Stored bytes, and their hashes block by block; the empty member has one *)
(* block.  Only a stored member can be empty: a compressed one has a frame.*)
(***************************************************************************)
Units(stored) ==
  [k \in 1 .. Length[stored.data] + (IF stored.storage = "Store" THEN 0 ELSE 1) |->
     <<stored.data, stored.storage, k>>]

\* block_sha1, by which both write and verify hash: chunks from the front for as
\* long as there is data.
Blocks(units) ==
  IF units = <<>> THEN << <<>> >>
  ELSE [b \in {b \in 1 .. Len(units) : (b - 1) * BlockSize < Len(units)} |->
          SubSeq(units, (b - 1) * BlockSize + 1, Min({b * BlockSize, Len(units)}))]

(***************************************************************************)
(* The two traversals.  Both visit a parent before its children and the    *)
(* children of a folder in the order of its table.                         *)
(***************************************************************************)
BreadthFirst(t, p, q) ==
  Len(p) < Len(q) \/ (Len(p) = Len(q) /\ DepthFirst(t, p, q))

Walk(layout, t) ==
  Enumerate(DOMAIN t,
            {x \in (DOMAIN t) \X (DOMAIN t) :
               IF layout = "Legacy" THEN DepthFirst(t, x[1], x[2])
                                    ELSE BreadthFirst(t, x[1], x[2])})

\* The folders of an archive as they are visited, TOC after TOC.
Visits(layout, ts) ==
  FlattenSeq([i \in DOMAIN ts |->
    [k \in 1 .. Cardinality(DOMAIN ts[i].tree) |->
       [toc |-> i, path |-> Walk(layout, ts[i].tree)[k]]]])

FolderAt(ts, visit) == ts[visit.toc].tree[visit.path]

Child(visit, ts, k) ==
  [toc |-> visit.toc, path |-> Append(visit.path, FolderAt(ts, visit).folders[k].name)]

Children(visit, ts) ==
  [k \in DOMAIN FolderAt(ts, visit).folders |-> Child(visit, ts, k)]

FolderSlots(visit, ts) ==
  [k \in DOMAIN FolderAt(ts, visit).files |->
     [toc |-> visit.toc, path |-> visit.path, file |-> k]]

\* What one visit puts into the folder table: the root of a TOC goes in ahead
\* of its children.
Listed(visit, ts) ==
  (IF visit.path = <<>> THEN <<visit>> ELSE <<>>) \o Children(visit, ts)

FileAt(ts, slot) == FolderAt(ts, slot).files[slot.file]

(***************************************************************************)
(* build_strings.  What is said while walking: a folder's full path when   *)
(* it is discovered (just before its visit, or, in the modern layout,      *)
(* during its parent's), a file's name during its folder's visit.  The     *)
(* modern layout keeps one copy of a string.                               *)
(***************************************************************************)
FolderString(visit) == [toc |-> visit.toc, path |-> visit.path, file |-> <<>>]

FileString(visit, name) == [toc |-> visit.toc, path |-> visit.path, file |-> <<name>>]

Text(said) == IF said.file = <<>> THEN said.path ELSE said.file

SaidAt(layout, ts, visit) ==
  LET own    == IF layout = "Legacy" \/ visit.path = <<>> THEN <<FolderString(visit)>> ELSE <<>>
      inside == [k \in DOMAIN FolderAt(ts, visit).files |->
                   FileString(visit, FolderAt(ts, visit).files[k].name)]
      below  == IF layout = "Legacy" THEN <<>>
                ELSE [k \in DOMAIN Children(visit, ts) |-> FolderString(Children(visit, ts)[k])]
  IN  own \o inside \o below

Said(layout, ts) ==
  LET visits == Visits(layout, ts)
  IN  FlattenSeq([v \in DOMAIN visits |-> SaidAt(layout, ts, visits[v])])

Emitted(layout, said) ==
  {i \in DOMAIN said :
     layout = "Modern" => \A j \in 1 .. i - 1 : Text(said[j]) # Text(said[i])}

Strings(layout, ts) ==
  LET said == Said(layout, ts)
      pool == Retain(said, Emitted(layout, said))
  IN  [k \in DOMAIN pool |-> Text(pool[k])]

\* Mutants of the next operator: the modern layout hands out the end of the
\* pool for a string it has kept before, and offsets one string short.
NameOffsetUnpooled(layout, said, key) ==
  LET i == Max({j \in DOMAIN said : said[j] = key})
  IN  Cardinality({j \in Emitted(layout, said) : j <= i})

NameOffsetShort(layout, said, key) ==
  LET i == Min({j \in DOMAIN said : Text(said[j]) = Text(key)})
  IN  Cardinality({j \in Emitted(layout, said) : j < i})

\* The offset the maps hold for a key: that of the string said last for it.
NameOffset(layout, said, key) ==
  LET i == IF layout = "Legacy"
           THEN Max({j \in DOMAIN said : said[j] = key})
           ELSE Min({j \in DOMAIN said : Text(said[j]) = Text(key)})
  IN  Cardinality({j \in Emitted(layout, said) : j <= i})

(***************************************************************************)
(* The data blob: in the order of the walk, unless every file remembers    *)
(* where its bytes were; then in that order, ties as walked.               *)
(***************************************************************************)
Placing(files) ==
  LET ordered == \A k \in DOMAIN files : files[k].order # NoOrder
  IN  {x \in (DOMAIN files) \X (DOMAIN files) :
         IF ordered /\ files[x[1]].order # files[x[2]].order
         THEN files[x[1]].order < files[x[2]].order
         ELSE x[1] < x[2]}

\* A counter of write: how much the first n of some sequences have put in.
Upto(seqs, n) == Len(FlattenSeq(SubSeq(seqs, 1, n)))

IndexIn(seq, e) == CHOOSE i \in DOMAIN seq : seq[i] = e

\* mk: the entry of a folder, with the ranges of its children and its files.
FolderEntry(layout, ts, visits, said, visit) ==
  LET children == [v \in DOMAIN visits |-> Children(visits[v], ts)]
      slots    == [v \in DOMAIN visits |-> FolderSlots(visits[v], ts)]
      v        == IndexIn(visits, visit)
  IN  [name      |-> NameOffset(layout, said, FolderString(visit)),
       folders   |-> visit.toc + Upto(children, v - 1),
       folderEnd |-> visit.toc + Upto(children, v),
       files     |-> Upto(slots, v - 1),
       fileEnd   |-> Upto(slots, v)]

\* push_file_entry.
FileEntry(file, name, hash, data) ==
  [name |-> name, hash |-> hash, data |-> data, length |-> Len(Units(Stored(file))),
   storage |-> file.storage, encrypted |-> file.encrypted,
   verify |-> file.verify, crc |-> file.crc]

HashesOf(file) ==
  IF file.verify = "SHA1Blocks" THEN Blocks(Units(Stored(file))) ELSE <<>>

\* Archive::write, with the record sizes it computes offsets by.
ImageBy(sizes, layout, version, ts) ==
  LET visits  == Visits(layout, ts)
      said    == Said(layout, ts)
      slots   == FlattenSeq([v \in DOMAIN visits |-> FolderSlots(visits[v], ts)])
      files   == [k \in DOMAIN slots |-> FileAt(ts, slots[k])]
      placed  == Enumerate(DOMAIN files, Placing(files))
      bytes   == [r \in DOMAIN placed |-> Units(Stored(files[placed[r]]))]
      hashes  == [k \in DOMAIN files |-> HashesOf(files[k])]
      listed  == [v \in DOMAIN visits |-> Listed(visits[v], ts)]
      folders == FlattenSeq(listed)
      strings == Strings(layout, ts)
      Root(i) == IndexIn(visits, [toc |-> i, path |-> <<>>])
  IN  [version |-> version,
       data    |-> FlattenSeq(bytes),
       tocs    |-> [i \in DOMAIN ts |->
                      [alias |-> ts[i].alias, root |-> Upto(listed, Root(i) - 1)]],
       folders |-> [k \in DOMAIN folders |->
                      FolderEntry(layout, ts, visits, said, folders[k])],
       files   |-> [k \in DOMAIN files |->
                      FileEntry(files[k],
                                NameOffset(layout, said, FileString(slots[k], files[k].name)),
                                Upto(hashes, k - 1),
                                Upto(bytes, IndexIn(placed, k) - 1))],
       strings |-> strings,
       hashes  |-> FlattenSeq(hashes),
       at      |-> OffsetsBy(sizes, [data |-> Len(FlattenSeq(bytes)), tocs |-> Len(ts),
                                     folders |-> Len(folders), files |-> Len(files),
                                     strings |-> Len(strings)])]

Image(layout, version, ts) == ImageBy(WrittenSizes, layout, version, ts)

(***************************************************************************)
(* Archive::read.  A reader finds the tables where the header says they    *)
(* are; versions 3, 4, 6 and 7 record no offset of the index table and the *)
(* reader looks for it behind the main header.  Where a recorded offset is *)
(* not the place of the table, what comes back is unspecified.             *)
(***************************************************************************)
RegionsFound(image) ==
  LET true == OffsetsBy(RecordSizes(image.version), Counts(image))
  IN  /\ image.at = true
      /\ image.version \in {3, 4, 6, 7} => image.data = <<>>

\* index_file: a file's entry, less the fields its version does not have.
IndexFile(image, entry) ==
  [entry EXCEPT
     !.encrypted = @ /\ image.version >= 10,
     !.verify    = IF image.version >= 7 THEN @ ELSE "None",
     !.crc       = IF image.version >= 6 THEN @ ELSE {}]

StoredOf(image, entry) == SubSeq(image.data, entry.data + 1, entry.data + entry.length)

Decodings(image, entry) ==
  {d \in Data : Units([data |-> d, storage |-> entry.storage]) = StoredOf(image, entry)}

Readable(image) ==
  /\ RegionsFound(image)
  /\ \A k \in DOMAIN image.files : Decodings(image, image.files[k]) # {}

LoadFile(image, entry) ==
  LET e == IndexFile(image, entry)
  IN  [name |-> Last(image.strings[e.name]),
       data |-> CHOOSE d \in Decodings(image, e) : TRUE,
       storage |-> e.storage, encrypted |-> e.encrypted,
       verify |-> e.verify, crc |-> e.crc, order |-> e.data]

\* index_folder and load_folder: the folder at every index and all below it,
\* each under the last component of its string.
LoadFolders(image) ==
  LET Leaf(k) == Last(image.strings[image.folders[k].name])
      Own(entry) ==
        [folders |-> [k \in 1 .. entry.folderEnd - entry.folders |->
                        [name |-> Leaf(entry.folders + k)]],
         files   |-> [k \in 1 .. entry.fileEnd - entry.files |->
                        LoadFile(image, image.files[entry.files + k])]]
      load[index \in DOMAIN image.folders] ==
        LET entry    == image.folders[index]
            below    == entry.folders + 1 .. entry.folderEnd
            Under(k) == {<<Leaf(k)>> \o p : p \in DOMAIN load[k]}
        IN  [p \in {<<>>} \cup UNION {Under(k) : k \in below} |->
               IF p = <<>> THEN Own(entry)
               ELSE load[CHOOSE k \in below : p \in Under(k)][Tail(p)]]
  IN  load

LoadTocs(image) ==
  [i \in DOMAIN image.tocs |->
     [alias |-> image.tocs[i].alias,
      tree  |-> LoadFolders(image)[image.tocs[i].root + 1]]]

\* Mutant of the next operator: every file is taken for a modern one.
AssumeModern(image) == "Modern"

\* The layout is the first whose strings are the ones in the file.
DetectLayout(image) ==
  IF Strings("Legacy", LoadTocs(image)) = image.strings THEN "Legacy"
  ELSE IF Strings("Modern", LoadTocs(image)) = image.strings THEN "Modern"
  ELSE "Legacy"

(***************************************************************************)
(* ArchiveReader::verify, by the file table: the entries whose checksum or *)
(* block hashes disagree, and those that claim hashes there are none for.  *)
(***************************************************************************)
\* Mutant of the next operator: it counts the last block by itself.
BlockCountRounded(length) == length \div BlockSize + 1

\* block_count: how many hashes verify looks for, computed from the length alone.
BlockCount(length) ==
  IF length = 0 THEN 1 ELSE (length + BlockSize - 1) \div BlockSize

Entries(image) == [k \in DOMAIN image.files |-> IndexFile(image, image.files[k])]

RecordedHashes(image, entry) ==
  LET last == entry.hash + BlockCount(entry.length)
  IN  IF entry.verify = "SHA1Blocks" /\ image.version >= 8 /\ last <= Len(image.hashes)
      THEN SubSeq(image.hashes, entry.hash + 1, last)
      ELSE <<>>

CrcMismatches(image) ==
  {k \in DOMAIN image.files :
     LET e == Entries(image)[k]
     IN  e.crc # {} /\ \A c \in e.crc : Units(c) # StoredOf(image, e)}

Sha1Mismatches(image) ==
  {k \in DOMAIN image.files :
     LET recorded == RecordedHashes(image, Entries(image)[k])
     IN  recorded # <<>> /\ recorded # Blocks(StoredOf(image, image.files[k]))}

Unhashed(image) ==
  {k \in DOMAIN image.files :
     /\ Entries(image)[k].verify = "SHA1Blocks"
     /\ RecordedHashes(image, Entries(image)[k]) = <<>>}

=============================================================================
