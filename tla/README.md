# sga-archiver in TLA+

A verification development for `sga-archiver`: TLA+ models of the parts of the
program whose correctness depends on the *order* in which things happen, TLC
configurations that check them on small instances, and TLAPS proofs of what can
be proved for every instance. Paths below are relative to the repository root
(`crates/sga/src/archive.rs` and so on).

The program reads, edits, builds and unpacks the `.sga` archives of a game, and
compiles and patches the game data in them (`.rgd` attribute files, `.bin` reflected
objects). Three facts about these formats explain most of the properties here:

* the game **searches** each folder's tables by case-folded name, so a table that
  is out of order, or that holds two spellings of one name, hides members;
* the tools promise **byte-exact** round trips, although an archive does not
  record in which order it was packed or by which of two traversals;
* game data is **offsets**: lists index their values by position, objects are
  embedded in and point at each other, and little says where anything ends.

## 1. Inventory

| Component | Source | State it keeps | Operations | Status |
|---|---|---|---|---|
| Directory tables and in-memory edits | `sga/src/archive.rs` | `Archive.tocs`: per TOC a tree of folders, per folder a table of folders and one of files | `upsert_stored_in`, `upsert_stored`, `remove_files_where`, `repackage_art`, `sort_directories`, `prune_empty_folders` | modelled |
| Archive file: write, read, layout detection | `sga/src/archive.rs`, `index.rs`, `entries/*`, `utils.rs` | the file: header offsets, TOC, folder and file tables, string pool, block hashes, data blob | `write`, `write_eager`, `read`, `read_eager`, `detect_layout` | partly |
| Integrity check | `sga/src/index.rs` | none (reads a file) | `ArchiveReader::verify` | modelled |
| Commands that write archives | `sga-archiver-cli/src/machine.rs`, `main.rs` | files on disk; per process base, donor, edited archive | `repack`, `graft`, `graft-as`, `replace-member`, `add-member`, `set-members`, `compile-project` | modelled |
| Commands that read or extract | same, and `extract_folder` of `archive.rs` | an output directory | `extract-member`, `extract`, `unpack` with its derived files and the mod's project file; `inspect`, `list`, `decode-rgd` only read | modelled |
| Build pipeline | `sga/src/build.rs`, `lib.rs` | the archive under construction, the walk under way | `compile_project`: four source walks, four burners, rules, globs, TOC routing | partly |
| Segment matching | `build.rs`, `seg_match` | the indices of the matching loop | one loop | modelled |
| Localization compiler | `sga/src/localization.rs` | none | CSV to UTF-16 | not modelled: pure conversion |
| Chunky container | `relic-chunky/src/container.rs` | none | `parse`, `to_bytes`, `data_chunks` | modelled |
| RGD patching | `relic-chunky/src/rgd_patch.rs`, `machine.rs` | files on disk; per process its input and the patched bytes | `patch_cstrings`, `patch_f32s` and the commands on them | modelled |
| RGD decode / encode | `rgd.rs`, `rgd_write.rs`, `attrib.rs`, `records.rs` | none; the same files | `parse_rgd`, `compile_attrib`, `write_rgd`, `decode-rgd` | modelled |
| Reflection: `.rdo` parser | `relic-chunky/src/rdo.rs` | open objects, open properties, objects so far | `parse_rdo`, one step per XML event; `to_xml` | modelled |
| Reflection: compile / decompile | `reflect_write.rs`, `reflect_type.rs`, `decompile.rs`, `schema_lib.rs` | the blob, the append cursor, the calls under way, the tables | `place_all`, `compile_reflect_full`, `compile_reflect`, `recompile_bin`, `to_rdo_graph` | partly |
| Texture compiler | `texture.rs` | none | image encoding by external codecs | not modelled: numeric, external |
| Key hash | `hash.rs` | none | 64-bit mixing | not modelled: settled by test vectors |

**How they interact.** The machine commands are separate processes; they share
nothing but files. Each checks its output path, reads a base (and perhaps a donor)
wholly into memory, edits it there with the operations of the first component, and
writes a new file, which a later command may read. `compile_project` starts from an
empty archive and uses the same descent and insertion, but mixes `insert_file`
(push at the end) with `upsert_stored_in` (sorted insertion) and its result is
written without sorting. `verify` and `extract` read what any of them wrote.

The commands on game data are processes of the same kind: `patch-rgd-*` and
`decode-rgd` read one file and create another, perhaps the output of a burner or of an
earlier patch. Patching goes through the container (`Chunky`) to one list (`AEGD`) and
back; burning goes from an attribute document to nodes to a list to a container. A
reflected object goes from a document to a graph (parser), to a blob (placement), to the
tables about that blob and into a `.bin`; decompiling reads all of that back, and
compiling into an existing file takes part of the file over.

**What is hard.**

* *Sequences of legal edits.* Insertion is a binary search, right only on a sorted
  table, and it replaces only an entry of exactly the lowercased name; one edit that
  leaves a table unsorted or cased breaks every later one silently.
* *Partial failure.* `repackage_art` stops half way at an encrypted member;
  `extract` finds out what is missing only after it has written; the pipeline
  stops in the middle of a burner.
* *Interleaving and crashes.* "The output must not exist" is checked long before
  the output is created; a process may die with a torn file on disk.
* *Order.* Two traversals count and emit the same tables; the blob's order is
  recovered from offsets; the layout is guessed from the strings; the walks of the
  build go in the byte order of the file system's names and the tables are in
  folded order.
* *Offsets.* A patched value changes its length and with it the place and padding of
  every value, list and chunk after it; the placement of an object carries its cursor
  by hand through mutually recursive calls; decompiling has to tell from offsets alone
  which object is embedded in which and where arrays end.
* *Tables about a blob.* Relocation and allocation tables are built in one pass and
  kept while the blob is replaced in another.
* *Case.* Lookups fold case, insertions lowercase and compare exactly, file systems
  may do either.

`PROJECT.json` ("hazards") lists each of these at the line where it bites, with the
properties that watch it.

**What makes each component correct.** Edits: tables stay sorted, lowercase and free of doubles,
and from outside an archive is a map. File layout: what is written reads back, verifies, and is
reproduced by reading and writing. Commands: whole files are never lost, an output is what its
base and donor on disk and its list make of one another. Extraction: never overwrites, and what
it leaves is the member a lookup of its path finds. Build: the archive holds what the project
declares, where the game finds it. Matching: the loop ends and answers what the pattern means.
Patching: the values asked for change and not another byte, and the result can be read, patched
again and taken back. Encoding: what is burned reads back. Parser: each object's lists are what
stands inside it, in documents like those the decompiler writes. Placement: no two parts of the
blob overlap, numbers are aligned, the tables list exactly what is there. Decompiling: the graph
comes back, and compiling it gives the same file.

## 2. Modules

```
DirectoryTable            one table
  ArchiveTree             trees of tables, the edits on a tree, lookups
    ArchiveEdits          an editing session (VARIABLE tocs)
      ArchiveMembers      ... seen as a map: the refinement of MemberStore
      ArchiveSession      ... across files (with ArchiveImage)
    ArchiveImage          write, read, detect_layout, verify on a file image
    MachineCommands       processes on shared files
    Extraction            members written as files
    BuildPipeline         compile_project
MemberStore               abstract specification of ArchiveEdits
SegmentMatch              seg_match

Chunky                    the container, byte by byte
  RgdList                 node lists in it: read, write, patch
    AttribXml             attribute documents to nodes
      RgdCommands         processes that patch, decode and burn files
ValueStore                abstract specification of RgdCommands

RdoParser                 documents to graphs, one action per event
ReflectLayout             graphs to blobs, and the tables of a blob
  Decompile               files back to graphs and documents
    Reflection            all of it, round and round (with RdoParser)

ArchiveTreeProofs         lemmas on tables, trees and lookups
  ArchiveEditsProofs
    ArchiveSessionProofs  write, read and verify, and sessions of edits and files
  BuildPipelineProofs, MachineCommandsProofs, ExtractionProofs
ReflectionProofs, SegmentMatchProofs
MC*                       instances for TLC
```

**DirectoryTable** (no variables). A name is `[key, cased]`: its case-folded
spelling, numbered in folded order, and whether it is stored with capitals. Two
names are equal as strings iff the records are; the order looks at the key only.
(One cased spelling per key is enough: the code compares a name only with its own
lowercase form, with an exactly equal name, or folded.) `PartitionPoints` is
`partition_point`: on a table that is not partitioned the library promises nothing,
so *any* place may come back, and every operator built on it returns a set.

**ArchiveTree** (no variables). A tree is a function from folder paths to their two
tables. `Descend`, `InsertInTree`, `PushInTree`, `UpsertIn`, `RemoveFrom`,
`SortTree`, `PruneTree`, `RepackageIn` are `descend`, `insert_or_replace`,
`insert_file`, `upsert_stored_in`, `remove_files_where`, `sort_directories`,
`prune_empty_folders` and the loop of `repackage_art`; `FindMember` and `FoundIn` are
the lookups of the commands. A file carries its decoded content (an abstract value),
its storage, its encryption and verification flags, its checksum (as the set of the
stored bytes it was taken of) and the position its bytes had in the file it was read
from.

**ArchiveEdits** has one variable, `tocs`, and one action per edit. **MemberStore** is what it
promises: a map from (TOC, folded path) to content and the list of the TOCs, with `Put`,
`PutAnywhere` (into the first TOC that holds the path, else into the first) and `Remove`.
**ArchiveMembers** states the refinement mapping (`MembersOf`: a member's content is that of the
first entry listed under it) and `ImplementsMemberStore == Store!Spec`.

**ArchiveImage** (no variables) is a file: tables, string pool, block hashes, blob and the
offsets the header records. `ImageBy` is `write` with both traversals, `LoadTocs` is `read`
(`LoadFolders` is `index_folder` as a recursive function), `DetectLayout` compares the strings
of both layouts with the file's, and `CrcMismatches`, `Sha1Mismatches`, `Unhashed` are `verify`.
What the writer hashes (`Blocks`, as `block_sha1` cuts the bytes) and how many hashes `verify`
looks for (`BlockCount`, from the length alone) are two definitions, as in the code, so that a
wrong count shows. Stored bytes are sequences of units, so that an empty member takes no room; a
hash *is* its block, so equal hashes mean equal blocks. `RecordSizes(v)` adds up the fields that
version `v` has; `WrittenSizes` are the constants `write` uses.

**ArchiveSession** composes image and edits: `Open` (read the file), `Edit`,
`WriteEager` (sort every table, write, done). The first file is packed by another
tool in either layout, so its blob need not be in the order of either traversal.

**MachineCommands**. `files` says of each file whether it is absent, torn or whole
and what it holds; `proc` is the program counter and locals of each process. The
steps are those at which the file system is touched: `Start` (paths compared as
spelled, then `refuse_existing`), `ReadBase`, `EditInMemory` (donor and all items, the
first error ends it), `CreateOutput` (`File::create`, which truncates), `WriteOutput`;
`Die` may happen at each. `FileOf` lets two spellings name one file.

**Extraction**. One archive, one output directory, up to `MaxRuns` commands in a row; each may
fail or be killed, leaving what it wrote, a torn file included. One action is one file written.
`Derivers` are the passes of `unpack` that write files derived from the unpacked ones (`.rgd` to
`.xml`; `.bin` and `.rdo` to `.rdo`), and `WriteMod` is its last step, the project file
`<name>.aoe4mod`, named after the first `.locdb` written or after the archive, over whatever has
that name. `folds` chooses between file systems that ignore case and those that do not.

**BuildPipeline**. The eight walks in order, one action per file: `AddSource` pushes,
`CloseToc` makes a TOC of the filled tree, `Burn` compiles and upserts or ends the
build, `BurnTable` takes the next table of a `.locdb` in whichever order the directory
lists it. `SourceOrder` and `BurnOrder` are the orders of the two walks (recursive;
and with a stack, directories last to first after the files). `GlobMatches` is
`match_segments`; the matching of one segment is a constant relation here and
**SegmentMatch** models it, as the loop it is, one action per branch.

**Chunky** (no variables). A file is a sequence of bytes, and a byte `<<tag, i, v>>` is
byte `i` of a field of kind `tag` that holds `v`. Lengths, offsets and padding are thus
exact, while a value is one symbol. A read that does not fall on a whole field of its
kind fails; in the code it would give some other number, which the files of the
instance never lead to. `ReadChunky`, `WriteChunky` and `DataChunksOf` are `parse`,
`to_bytes` and `data_chunks`. `Then` is the `?` of Rust: what fails, fails on.

**RgdList** (no variables). `ReadList` is `read_raw_list` with its two guards,
`ListBytes` is `write_raw_list`, `PatchBytes` the patches and their counts; a CRC *is* the
bytes it was taken of. `ParseRgd` and `WriteRgd` are `parse_rgd` and `write_rgd`, with
keys ordered by hash. **AttribXml** is `compile_attrib`, over the events of the XML reader.

**RgdCommands**. `files` are bytes, `proc` the locals of each process; the steps are
those at which a command touches the file system, as in MachineCommands, but a torn
output has real content here: it may break off behind any chunk, and the next command
may read it. `docs` is an auxiliary variable, the document in each file.
**ValueStore** is what all this promises: names to documents, and a name without one
receives another's with exactly the edited values changed, or a compiled one.
`ImplementsValueStore` is the refinement.

**RdoParser**. One action per arm of the loop, on `stack`, `openProps` and `inValue`; the
attributes an arm asks for (`HasNameAttr`, `HasValueAttr`) may be missing. Ids, types and
property names are abstract, strings are sequences of characters.

**ReflectLayout**. `place` and `inline_write` call themselves and each other; a *frame* is
one call of `place`, with the objects it has yet to write in line, the row of array
elements it is in, and the *items* (strings, arrays, pointers, offsets) that it places
afterwards. One action is one object written in line or one item placed. `pieces`
is auxiliary: the parts of the blob given out, in order. `Rfup`, `Rnew` and `Robj` build
the tables. The schema (`Registry`, `ClassByName`) is a constant.

**Decompile** (no variables) is `to_rdo_graph` and `to_xml`. **Reflection** composes: its
`phase` goes from `parse` (steps of RdoParser) to `place` (steps of ReflectLayout) to
`done`; then the file is decompiled and its document, or an edited one, compiled into it.

## 3. Runs

| Run | Question | Size |
|---|---|---|
| `edits` | any order of the six edits, from an empty archive, one with an encrypted art member, and a cooked one with doubles in two TOCs | 10 176 states |
| `session` | archives packed in either layout, read, edited, written, again and again | 24 440 |
| `commands` | two processes, one feeding the other, each may die | 485 |
| `extraction` | up to three commands on one directory, on both kinds of file system | 23 102 |
| `build` | every project of up to five of fifteen files, two rule sets | 114 487 |
| `segments` | every pattern and segment up to four characters | 463 268 |
| `rgd` | two processes patch, decode and burn, one from the other's output, each may die | 14 532 |
| `reflection` | documents are parsed, placed, decompiled and compiled into the file again | 11 646 |
| `astray`, `built_order`, `stale_tables`, `empty_art` | divergences, section 5 | |

What they check:

* `edits`: `TypeOK` (folders and listings agree), `TablesSorted`, `NamesLower`,
  `DoublesNeverGrow` (no edit adds to the members of one name), and `ImplementsMemberStore`: an
  upsert sets one member (in the TOC it is meant for, when the caller names none) and touches no
  other, a removal takes what was asked, and repackaging (even one that fails half way), sorting
  and pruning change nothing a caller can see. Where there are doubles the archive is the map of
  first entries. Callers spell in lowercase here; capitals are in section 5.
* `session`: `SessionTypeOK` (index ranges lie in their tables), `WrittenReadsBack`,
  `FileVerifies` (no edit strands a checksum or a block hash), `RoundTripExact`.
* `commands`: `WholeFilesStay`, and of a command that finishes, `OutputsAreEdits` and
  `ReplaceAddsNothing`. Both compare the output with base and donor as they stand on disk when
  the command finishes, not with what it has read: those have to be whole archives still, and it
  is their members that an unlisted path, a graft or a list is measured by.
* `extraction`: `ExtractionsKeepFiles`; `DoneAgreesWithLookup` (one lookup is the measure of
  both commands: `extract-member` gives what `find_member` finds, and `extract` what
  `extract-member` gives under the first spelling of the path); `UnpackedIsLast` (and what is
  derived of the last, and the project file); `NothingElsewhere` (but members, what is derived
  of them, the one project file and the outputs given).
* `build`: `BuiltAsDeclared` (each member is what the project's rules and override
  order say), `TocsDistinctAndFilled`, `FoldersSearchable`, `TidyBuildSearchable`.
* `segments`: `BehindMatches` (the loop's invariant), `AnswersRight` against a
  recursive definition of matching, `Terminates`.
* `rgd`: `PatchedReadsAgain`, `OnlyAegdChanges` (outside the list not a byte is lost or added,
  and there is one list: a file with two `AEGD` chunks is refused), `ValuesInPlace` (aligned, in
  order, without gaps), `PatchesUndo` (patching back gives the source's bytes, however its list
  was laid out), `BurnedReadsBack`, `ImplementsValueStore`.
* `reflection`: `ChildrenAsListed` (against the nesting of the events, in regular documents;
  `astray` shows it of the others), `NoOverlap`, `NumbersAligned`, `TablesExact`,
  `DecompiledIsSource`, `RecompiledIsSame`.

Each property of a passing run has a mutant in `PROJECT.json`: a plausible bug in a
mapped definition under which TLC finds that property violated.

**Bounds, and why they suffice.** *Keys*: three in the edits (before, at and after an entry:
every place a binary search can be wrong about), folders two deep (an existing and a missing
component in either position), two TOCs (the first holder of a path is not always the target;
the cooked archive has one path in both, and two members of one name in a folder), two contents
(one overwrites the other). The state space is finite without a bound on the number of edits.
*Session*: two edits per command and any number of commands; contents are empty, one block, and
two blocks with a partial one (`BlockSize` 2). Versions: `{10}` where the properties hold (11
for a fresh archive). *Commands*: two processes are enough for one to read what another writes
and for either to die in between; at most three items in a list; the base and the compiled
archive hold two members of one name. *Extraction*: three runs are a failure, a retry, and a
retry of that; the archives hold a path in two spellings, in one TOC and across two, a `.locdb`
file or none, and a member with the name of the project file up to case. *Build*: collisions of
two sources, a prebuilt file under each, and one table of a locale need five files at once.
*Segments*: four characters are enough for two stars with letters between them and for a greedy
star to have to go back twice. *Game data*: the source files include two lists in one file,
folders in folders, slack behind the last chunk, a stale CRC, and lists whose values are shared,
swapped, unaligned or followed by a byte; strings of one and three characters move what follows
them by two bytes, across the alignment of a float and of a list. *Reflection*: one schema has
every class of field; the graphs vary title, pointers, embedded rows and offsets (strings are
what moves alignment), and add reified strings and arrays, a target listed twice, a missing
reference in each place that looks for one, and documents with stray values, lists that go on
behind nested objects, an end cut off, properties without a name, and properties with content
that are no lists. Any number of rounds is covered, since a round that changes nothing comes
back to its state.

`CHECK_DEADLOCK FALSE` stands where the system really stops: a built project, a
concluded match, the last of `MaxRuns` commands, processes with no free output left
(`commands`, `rgd`), and a document that does not parse or cannot be placed.

**Fairness.** Only `SegmentMatch` has a liveness property and states fairness,
`WF_vars(Next)`: it is one loop on one thread, so it takes its next step. The other
programs are sequences of calls that may stop anywhere (a caller may stop editing, a
process may be killed), so no fairness is justified and none is assumed. (Nor does a
placement end on every graph: each reference is followed, so one with a cycle of
references has no last call. The graphs of the instance are trees and shared leaves.)

## 4. Proofs

Every theorem is about all values of the constants. `ArchiveEditsProofs`:

* `TypeCorrect`: `Spec => []TypeOK`;
* `TablesStaySorted`: `Spec => []TablesSorted`;
* `SiblingsStayUnique`: `CallersLower /\ BasesKept => (Spec => []SiblingsUnique)`;
* `NamesStayLower`: `CallersLower /\ BasesLower => (Spec => []NamesLower)`;
* `DoublesStayFew`: `CallersLower /\ BasesLower => (Spec => DoublesNeverGrow)`;
* `EditsImplementMemberStore`, the refinement, on archives with doubles too:
  `CallersLower /\ BasesLower /\ BasesApart => (Spec => ImplementsMemberStore)`.

`ArchiveSessionProofs`, for archives of any size, contents of any length and any size of
hash block, in either layout:

* `SessionTypeCorrect`: `BasesWhole => (SessionSpec => []SessionTypeOK)`, every version;
* `FilesVerify`: `BasesWhole => (SessionSpec => []FileVerifies)`, every version but 7;
* `WhatIsWrittenReadsBack`: `BasesWhole => (SessionSpec => WrittenReadsBack)`, versions 10
  and 11;
* `RoundTripsAreExact`: `BasesWhole /\ EmptiesPacked => (SessionSpec => []RoundTripExact)`,
  versions 10 and 11.

`MachineCommandsProofs`, for any number of processes, commands and files:

* `CommandTypeCorrect`: `CommandSpec => []CommandTypeOK`;
* `WholeFilesAreKept`: `OutputsDistinct => (CommandSpec => WholeFilesStay)`;
* `FinishedOutputsAreEdits`:
  `OutputsDistinct /\ InputsTidy => (CommandSpec => OutputsAreEdits)`;
* `ReplacingAddsNothing`:
  `OutputsDistinct /\ InputsTidy => (CommandSpec => ReplaceAddsNothing)`.

`ExtractionProofs`, for any archives, requests and derived files, and for both kinds of
file system:

* `ExtractionsOverwriteNothing`: `Spec => ExtractionsKeepFiles`;
* `CommandsStayInPlace`: `Spec => []NothingElsewhere`;
* `UnpackLeavesTheLast`: `Spec => []UnpackedIsLast`;
* `SuccessAgreesWithLookup`: `Spec => []DoneAgreesWithLookup`.

`BuildPipelineProofs`, for every project, set of rules and compiler:

* `BuildTypeCorrect`: `Spec => []BuildTypeOK`;
* `BuiltTocsAreDistinctAndFilled`: `Spec => []TocsDistinctAndFilled`;
* `BuiltFoldersAreSearchable`: `Spec => []FoldersSearchable`;
* `TidyBuildsAreSearchable`: `Spec => []TidyBuildSearchable`;
* `BuildsAsDeclared`: `Spec => []BuiltAsDeclared`.

`ReflectionProofs`, for every schema and every graph, and for every set of regular documents of
a grammar:

* `LayoutTyped`: `LayoutSpec => []LayoutTypeOK`;
* `PiecesNeverOverlap`: `LayoutSpec => []NoOverlap`;
* `NumbersAreAligned`: `NaturalSchema /\ GraphsTyped => (LayoutSpec => []NumbersAligned)`;
* `TablesAreExact`: `RoomySchema /\ GraphsRoomy => (LayoutSpec => []TablesExact)`;
* `ReferencesAreAsListed`: `DocumentsGrammatical => (ParserSpec => []ChildrenAsListed)`.

`LayoutSpec` starts where `StartPlacing` of Reflection leaves off, and its steps are
those of `Place`; `ParserSpec` starts with a document read, and its steps are those of
`Parse`.

`SegmentMatchProofs` proves the loop of `seg_match` for patterns and segments of every
length (`MaxPattern` and `MaxSegment` are any two numbers):

* `IndicesStayInside`: `Spec => []TypeOK`;
* `BehindAlwaysMatches`: `Spec => []BehindMatches`;
* `LoopAnswersRight`: `Spec => []AnswersRight`.

*Assumptions.* `KeysAssumption` (keys are numbers), `BasesAssumption` (starting archives are
well formed and sorted), `InputsAssumption` (paths are nonempty sequences of names, `ArtStorage`
is total). `SiblingsStayUnique`, `NamesStayLower`, `DoublesStayFew` and the refinement need
`CallersLower` (names handed to `upsert_stored` are lowercase). It is necessary, since a
caller's capitals are stored as they are and the exact lookup then misses them. Of the archives
to start from the last three ask that they are lowercase (`BasesLower`), as cooked archives are
too, and only `SiblingsStayUnique` that they hold no doubles (`BasesKept`); the refinement also
needs `BasesApart` (no two TOCs of a starting archive have one alias: edits name a TOC by its
alias and take the first, while a member of the map is named by the alias alone). The instance
of run `edits` satisfies all of them but `BasesKept`, which its cooked archive does not:
`SiblingsUnique` is a theorem and is in no run. Sessions need `ImageAssumption` (contents have
lengths, only one of them is empty, hash blocks are not empty) and `BasesWhole`: a tree has
finitely many folders, no folder lists two folders of one name (members of one name it may, as
cooked archives do) and a recorded checksum is of the member's own bytes. `RoundTripsAreExact`
needs `EmptiesPacked` besides: in the files to begin with, an empty member that lies ahead of
another in the blob is also walked ahead of it (`EmptiesInOrder`). That is asked of the first
file only, and no more of it than that; members that were never placed (all of a build's) and
archives whose members have bytes satisfy it. Without it the property is false, as run
`empty_art` shows, whose archive is one such that does not. TLC evaluates `BasesWhole` and
`EmptiesInOrder` on the archives of run `session`, which have empty members among others. The
versions are limited where the code is: an entry of version 7 keeps its hash in a field of its
own, so whatever claims block hashes there counts as unhashed, and only the records of versions
10 and 11 have the sizes `write` computes offsets with (section 5). Placement needs
`SchemaAssumption` (fields lie in their types, no type is embedded in itself, for which
`type_align` would not end, and what `classify_field` tells by the spelling is neither embedded
nor opaque) and `GraphsAssumption` (a graph is a sequence of objects). That numbers are aligned
needs more, since the code takes fields where the schema has them and elements where the last
one ended: `NaturalSchema`, fields lie at multiples of their alignment and types are as long as
a multiple of theirs, and `GraphsTyped`, a child embedded in a field is of the field's type, the
elements of an array are of one type, raw elements have their numbers aligned, and an object of
raw bytes holds bytes only. That the tables are exact needs, instead of that, `RoomySchema`, a
field lies within its type to its last byte, and `GraphsRoomy`: an object embedded in another,
or one of raw bytes, stays within the size its type has; raw bytes hold no 8-byte references,
which nobody could note as pointers; and nothing refers to the root, which `build_rnew` would
list a second time. The parser's theorem is for documents of a grammar, `DocumentsGrammatical`:
ends match the elements they are in (what the reader checks for it); there are no elements
inside a value; values are in properties that hold objects and belong to one; and a property is
in an object, in the element around all objects, or in none. Properties may lie in objects that
lie in properties, to any depth, with or without content, and objects may be doubled, foreign or
missing. `ChildrenAsListed` itself speaks of regular documents only (`Regular`): either every
property with content is a named list of objects, or no list comes behind an object nested in
the same property. Of the others it would be false: the end of a property that was never pushed
pops one that was, and a list that comes later goes astray (`ReferencesWhereListed`, run
`astray`). TLC evaluates all five on the instance of run `reflection`. Matching needs
`LettersAssumption`: no character of a segment is a star (see `seg_match` in section 5).

Commands need `CommandsAssumption` (what the argument parser and the first checks of each
command let through) and `AliasesAssumption`; what outputs hold needs `OutputsDistinct` (or
another process could truncate what a command has read, or its output) and `InputsTidy`: the
archives on disk, and those that projects are built into, are spelled in lowercase and name no
TOC twice (doubles they may hold). Without it both properties are false, since `replace-member`
then puts a lowercase member beside the capitalised one (section 5). The outputs of commands are
tidy again, so it is asked only of what is there to begin with. Extraction needs
`ArchivesAssumption`, `RequestsAssumption` and `DeriversAssumption` (the two passes of `unpack`
make files of different extensions, and what is derived is text from which nothing more is
derived) and `ModAssumption` (no pass looks at a `.aoe4mod` file or makes one). The build needs
`ProjectsAssumption` (projects are directories), `NamesAssumption` (names sort by their bytes,
lowercase names as folded ones do) and `DataAssumption` (a compiler gives a content or rejects).

*Argument.* `TypeOK` and `TablesSorted` are not inductive apart: `insert_or_replace` chooses
its place by a binary search, which is determined only on a sorted table, and its descent is
defined only on a tree whose listings agree with its folders. The invariant is therefore
`Sound`, both at once, kept by each of the six edits (`UpsertStoredInKeeps`, ...,
`PruneEmptyFoldersKeeps`). Uniqueness needs lowercase and sortedness too: the exact
comparison of `insert_or_replace` finds every rival of its key only because all stored names
are lowercase; hence `KeptInvariant` carries the three together. Below these are the lemmas
of `ArchiveTreeProofs`: on one table (`InsertOrReplaceKeeps`, `RetainKeeps`, `SortKeeps`:
`Enumerate` is a bijection onto the indices, so a sort keeps the entries and orders them),
and on trees `DescendKeeps`, `InsertInTreeKeeps`, `OverwriteInTreeKeeps`,
`RemoveInTreeKeeps`, `SortTreeKeeps`, `PruneTreeKeeps`, `RepackageInKeeps`.

The refinement is proved on three levels: what a table holds (`TableHolds`), what a tree
holds (`TreeHolds`) and what an archive holds (`Holds`: an alias, a folded path and a
content). On each, an edit sets one member, loses those of some names, or keeps what is held
(`TreeSets`, `ArchiveLoses`, `SameInArchive`, ...). A table may list a name more than once;
what it holds of it is what its *first* entry says, the one that a lookup by folded name
finds. So each edit has to leave the first entry of a name first, unless it takes them all
or sets that one: a removal and the sort pick entries of the table they find, those of one
name in their order (`PickedFrom`, with `PickedHolds`; the sort because it is stable), and
an overwrite hits the first (`FoldedPositionIsFirst`; for `insert_or_replace`, whose lookup
is exact, because in a lowercase table the names of one key are equal,
`InsertOrReplaceCases`). The map comes in only at the end: a member is the files of one name
in *one* folder (`OneName`), because aliases are distinct and lowercase paths that fold alike
are equal (`FoldPathInjective`); so what an archive holds settles the map (`MembersSay`). The
invariant is `Good`: sound, lowercase and distinct aliases. `DoublesStayFew` counts the
entries of a name along the same lemmas (`NoMoreDoubles`, `PickedCount`): picked entries are
no more than there were, an overwrite keeps every entry's key, and an insertion happens only
where the name was not listed at all.

A session keeps `SessionSound`: the archive in memory is sound and whole, and the file *is*
one that `write` lays out, with some record sizes, of some sound whole archive in some
layout (`FileWritten`). That the first file is and every later one stays so is then shown
once, for `ImageBy`, and the rest follows from what such a file is. The difficulty is that
`write` walks the trees several times (strings, members, file ranges, counters of
folders, folder table) and relates the walks by position only. The lemmas go up as it
does: a sequence of sequences put end to end and the counters that index it (`FlatHolds`:
an element of one part is in the whole where the parts before it end); a walk visits each
folder once and a parent before its children (`VisitsAre`, `ParentComesFirst`); each folder
but a root is in the table at the place its parent's counter had (`ListedByParent`,
`FoldersArePlaced`); bytes, hashes and strings are where offsets say (`BytesFound`,
`HashesFound`, `StringFound`, the last for the pool of the modern layout as well as for
repeated strings of the legacy one). So an entry read back is the folder or file it was made
from (`FolderIsRead`, `FileIsRead`), and the tree is put together from the leaves up
(`FoldersLoaded`, `TreeReread`): `index_folder` ends because every child comes after its
parent in the table. Each edit keeps `Whole` (`EditsKeepWhole`); that an exact lowercase
insertion makes no second folder of one name is where the binary search comes in again.
`FileVerifies` follows because every checksum in memory is of the member's own stored bytes
and every hash on disk was taken of the blocks `verify` counts (`BlocksAre`). TLC checked
`SessionSound` on the instance, with what a reader makes of the file as the archive it was
written of.

The round trip (`RoundTripExact`) turns on two things that a file does not record: in which
order its members' bytes were placed, and which traversal laid it out. What is read differs
from what was written in the `order` of the files only (`ReadReorders`), which is now the
offset of the bytes; two archives that differ so write one file if they place their bytes
alike (`ReorderedImage`). Offsets tell the placing except between an empty member and the one
after it, which have the same one (`PlacesFollow`); there `write` goes by the walk, so the
placing comes back exactly if the empty one is walked first (`EmptiesLead`, `PlacesTell`).
The layout is told by the strings. `detect_layout` can take a modern file for a legacy one,
where both traversals write its strings; then the strings differ from each other
(`TextsTell`: one pool keeps no string twice), so both traversals say them in one order,
visit the folders in one order (`WalksAgree`: where depth first and breadth first differ, a
folder's string is ahead in one pool and behind in the other) and write one file
(`LayoutsAgree`). The invariant is `RoundTripSound`: `SessionSound`, and `EmptiesInOrder` of
the archive in memory and of the one the file was written of. It is kept by reading since
what lies ahead on disk was placed ahead (`ReadKeepsEmpties`), and by every edit
(`EditsKeepEmpties`): an edit may remove members and folders, add members without a place
and store others anew, but those with a place keep it and stay in the order they had
(`KeptWhole`: each table `Follow`s the one before it, folders stay `FoldersInOrder`). TLC
checked that `EmptiesInOrder` is kept before it was proved.

`WholeFilesStay` is about a check (`refuse_existing`) and a truncation (`File::create`)
that are many steps apart. Its invariant, `OutputsPending`, says that while a command is
under way its output holds no archive: only the command itself could put one there.
That is where `OutputsDistinct` is needed (no two processes are given one output, but for
files that were there to begin with, which both are refused); the commands of run
`commands` satisfy it.

`OutputsAreEdits` and `ReplaceAddsNothing` speak of the step that ends a command, and of its
base and donor as they are on disk then, though they were read steps before. `InputsStand` (by
`CommandsStand`) says that what was read is still there: whole files stay, and a file that is
being written is no one's base, because it is not whole (`StandKept`, `MoverStands`).
`CommandSound` carries what was read to the write: a command about to write holds a result that
is one of the edits of its `base`, and what it adds or grafts is found in it (`PutsSomewhere`,
`PutsFirst`). What the edits of a list do is an induction along the list (`Fits`, by
`StepsReach`): after `n` items the archive is tidy, finds at each path listed so far what was
listed last, and at every other path what the base finds. One item changes what is first found
at its own path only, because it goes to the first TOC that holds the path up to case, and in a
tidy archive its exact lowercase insertion then meets the entry lookups find, the first of the
name (`MatchParts`, `TidyMatch`, `TidyInsert`). The final sort is stable, so the first of two
doubles stays the first (`SortFindsFirst`).

Extraction. `ExtractionsKeepFiles` needs no invariant, because `extract` checks right before
each write and in the spelling it writes to (`WritesAreNew`); the proof goes through every way a
command can end, torn files included. The others need to know where a command is in its list:
`UnderWay` types what is under way, `UnpackGoesOn` and `ExtractGoesOn` say that `todo` is the
rest of the list the command began with and that the directory is right for the part that is
done. For `unpack` right is: at each place the last member so far (`Placed`), and for the
passes, beside each source done what is derived of it (`AllDerived`). A pass that writes in
place (its outputs have the extension of its inputs) could derive from what it has derived;
`DeriversAssumption` is what rules that out; `WriteMod` comes last and `ModAssumption` keeps it
off what was derived. For `extract`: the first member of each path so far, up to case and unless
encrypted (`FirstsThere`), and `seen` is the set of the paths so far.

Build. `BuildSound` relates the walk to the files it still has to visit and says that TOCs
are distinct and filled and folder tables in order; `TidySound` adds that a tree holds only
files of the paths visited so far, which come in the order of their names. `AnswersSound` is
the specification of `BuiltAsDeclared` moved into the middle of the build: for every alias
and path, what a lookup finds now is what the pushes and burns *so far* give it
(`Chosen`): the last burned, else the first pushed, else nothing. A failed proof of it showed
that an earlier form of `BurnTable` could go on after a failure; the action now has the
stage as a guard, as the code returns.

For `NoOverlap` the difficulty is that nothing in the code bounds an object at the place it
is written: the room is given out in one call and filled, field by field and row by
row, in others. `LayoutInv` therefore relates the stack of calls to the last part
given out: the calls below the top have nothing left to write in line, and the last
part ends within the blob, or within the one object that is written next, or where the
next element of a row goes. Each action keeps it by a lemma of its own (`InlineWriteKeeps`
and so on); room is given out at `Cursor`, never before the end of
the blob (`CursorPastBlob`). TLC checked `LayoutInv` on the instance before it was proved.

For `NumbersAligned`, `AlignInv` says that what is still to be written or placed lies where
its type needs it: objects in line, the next element of a row, the fields that wait for a
reference, the slots of a pointer array. What a type needs is settled first.
`TypeAlign` is recursive and the library has no induction to say that such a function exists,
so `TypeAlignExists` makes it, as the least of the functions that are at least what the
recursion makes of them, and `TypesAligned` finds 1, 4 or 8 everywhere because no set of types
is embedded in itself. Then a field needs no more than its type (`FieldsAligned`), a type no
more than the alignment it is placed on (`NeedOfType`), and each action writes numbers where
they belong (`WriteInPlace`, `WrittenInPlace`) and leaves what comes next where it needs to
be (`ContentAligned`, `NextElementAligned`). TLC checked `AlignInv` on the instance first.

`TablesExact` speaks of a blob that is finished, and it is wrong of one on the way: a pointer
is noted in one call of `place` after its target was written in another, and the bytes of the
slot could be written over by any call after that. Two invariants say why it comes out right.
`TargetInv`: what a pointer or a slot yet to be filled leads to, and the root, has been
written at its place (is in `order`) or is the next to be written by the call on top, and is
not the root. `SlotInv`: the references that are in the blob are the pointers noted, each
where it was noted (`SlotsExact`), and whatever is still to be written (an object in line,
the rest of a row, a field that waits for its reference, a string yet to be placed) is free
of the slots filled and of those that calls have set aside (`FrameFree`); no two calls have
set the same slots aside (`BlocksApart`). Every action has a lemma for each (`InlineWriteReaches`,
`InlineWriteFree` and so on). That a field's room is free follows from the room of its
object, for which the schema and the graph have to be roomy; that a part newly given out
is free, from its beginning past the end of the blob (`FreeBeyond`). When the last call has
returned nothing is next to be written, so `Placed` holds, and the tables are read off it:
`Enumerate` lists a finite set in its order (`EnumerateInOrder`), so `RFUP` ascends and has
the place of every slot (`RfupExact`), and `RNEW` has the first pointer to each object
(`FirstOfId`), once (`RnewOnce`).

`AnswersRight` is about what the loop forgets: it keeps the last star only, and never tries
an earlier one with more. What a match is, `Ends` says by recursion along the pattern (a
recursive function, whose existence and rule `EndsExist` and `EndsRule` establish with
`LeastNatural`); the proof reasons about cuts, functions that say how far in the segment
each prefix of the pattern reaches. `LoopInv` says two things of the loop: since the last
star it has matched one character with one, and every cut of the whole segment reaches the
end of that star at `mark` or later. So where the loop gets stuck a cut must reach it
later still (`StuckCuts`), which is what going back tries next; and without a star every
cut starts as the loop did, so there is none when it gives up.

`ChildrenAsListed` says what the parser makes of a document in terms of the whole document:
which element each event is in. The parser knows nothing of elements; it pushes and pops, and
never looks at which start an end belongs to. So first the document: `Depth` counts starts
and ends, the parent of an event is the last start one level up, and `Nested` says that this
is the innermost of the elements that are open (`Open`). `AllNested` takes the first event
for which that fails and finds it right behind a start, an end or another event, for each
of which it holds (`NestedStart`, `NestedEnd`, `NestedOn`); an end needs it at its parent as
well, which came earlier. Then the stacks: a vector `Holds` a value for each member of a set
of events in their order, `HoldsPush` and `HoldsPop` add and remove the greatest. The stack
holds the numbers of the open objects (`StackIs`), the flag is up in values (`ValueIs`).
`openProps` is the difficulty, since the end of a property pops it even where its start
pushed nothing. `OpenPropsAre` says two things of it: where every property that is opened holds
objects it holds the places of the open ones; and in any document its last place is that of an
open list as long as no object has begun in that list. Both are kept by every event
(`PropsOpened`, `PropsClosed`, `PropsSame`), and either, in a regular document, puts a text where
it belongs (`TextPlace`). What was found so far is right in number (`ParsedIs`) and in its
references (`RefsAre`); each arm of the loop keeps all of that by a lemma of its own
(`OpenObjectReads` and so on), which makes `RdoInv`. Proving it for every document needed the
grammar spelled out, which TLC then evaluated on the documents of the run.

*Only model-checked:* the commands on game data and decompiling (their operators are
recursive, which the prover does not take); `Terminates`, since liveness is out of the
prover's reach, as is what a recursive definition computes for every input.

## 5. Divergences

Each of these is a run that TLC ends with a counterexample; `PROJECT.json`
("findings") quotes the line that says otherwise.

* `built_order`: `compile_project` pushes sources in byte order of their names,
  lowercases them and writes the tables unsorted, so the game may not find them.
  `TidyBuildSearchable` says when it does: names are lowercase and no script shares a
  folder with a prebuilt data file.
* `empty_art`: an empty member shares its offset with its successor, so the recorded
  order is ambiguous and read-then-write moves it, where the successor is walked first.
  `RoundTripsAreExact` shows that nothing else can go wrong.
* `astray`: the end of every property pops `open_props` (`rdo.rs:341-343`), but only the start
  of a named list of objects in an object pushes it (`rdo.rs:294-298`). A property with content
  that is no list, in an object nested in a list, therefore closes the list around it, and the
  references behind it get lost, where `rdo.rs:271-273` calls these lines the authoritative
  references. The decompiler writes no such documents.
* `stale_tables`: `compile_reflect` keeps the file's `RFUP` and `RNEW` as invariant
  (`reflect_write.rs:550-551`), but they list places in the blob it replaces; a document
  that was edited leaves them stale. `TablesExact` speaks of the tables that
  are built with a blob.

Seen while modelling and left out of the runs:

* `archive.rs:637-638` says a fresh member's bytes are appended after the originals';
  as soon as one member is fresh, `write` (`archive.rs:308`) drops the recorded order
  of all and lays the blob out as walked.
* `upsert_stored` finds a member up to case and overwrites it under the caller's
  spelling (`archive.rs:653`), where the comment says casing is not preserved
  (`archive.rs:700-703`). No command calls it.
* `replace-member` finds its member up to case (`machine.rs:577`) but upserts by exact
  lowercase name: on an archive spelled with capitals it adds a second member, where
  `main.rs:127` says it replaces one.
* `write` (`archive.rs:399`) uses the record sizes of versions 10 and 11 for any version,
  where `header.rs:196` says that the crate handles versions 3 through 11.
* An attribute document that breaks off before its root closes is an error, a `.rdo`
  that does so is the graph read so far.
* Two commands given one output both pass `refuse_existing`; the later one truncates
  the earlier one's file. `WholeFilesStay` is checked with an output per process.
* `seg_match` compares characters before it looks for a star, so a star in the pattern
  takes a literal `*` of a file name as one character. `AnswersRight` is checked over
  segments without stars.
* `unpack` writes all TOCs into one directory and its derived files over members of their names;
  the later write counts, and last of all the project file. `UnpackedIsLast` speaks of members
  at places that neither may take.
* `member_toc_alias` is said to match "like `find_member`", but prefers a folded match
  in an earlier TOC to an exact one in a later.
* Of a path with several spellings `extract` writes the first member only
  (`machine.rs:271-276`), while `extract-member`, given another spelling exactly, finds that one
  (`machine.rs:139-155`).
* Where the first child of an array, the target of a pointer or the child of an offset is
  missing from the document, `align_of` indexes the map and panics (`reflect_write.rs:100`); any
  other missing child is an error. Both end the compilation, which is all the model says.

## 6. Not modelled

*Archives.* The header's name, product, signature and reserved bytes; fixed-width truncation of
aliases and 32-bit lengths; the per-file hash of version 7; compression itself (a stored form is
a content and a storage); JSON output and wording; what is in the `.aoe4mod` file `unpack`
writes last (one value here) and its refusal of names that leave the directory; archives spelled
with capitals as bases of edits and of commands, and callers of `upsert_stored` that use them
(no document says what should come of either; section 5 says what does); `read_guid`, the
scanning of `.burnproj` tags (of several such files in a directory the first listed is used,
`build.rs:299`) and `from_dir`, which no command calls.

*Game data.* Container versions and platforms other than the one written (copied
through); characters of more than one byte, escapes and the spelling of numbers in
documents (a value is one symbol); the XML and JSON text `decode-rgd` prints, which is
known here by the nodes it shows; floats that are not numbers.

*Reflection.* `parse_type`, which reads a schema from `RFTY`, and the library of bundled
schemas: the schema is a constant, whatever file it comes from. That the length of a raw
array fits its type, which the code does not look at. References across owners, which
a `.bin` keeps as places only: `DecompiledIsSource` is stated for graphs in which each
object is listed by its owner (`WellOwned`), `RecompiledIsSame` for all.

*Components left out whole.* The localization compiler (a pure text conversion), the
texture compiler (numeric encoding by external codecs) and the key hash (fixed
arithmetic, settled by test vectors).

## 7. Plan

What a next step would add, in order of importance:

1. *Versions*: the round trip for the versions below 9, where write and read agree on
   fewer fields.
2. *Schemas*: `parse_type` on `RFTY`, which would make the schema part of the file.

## Running

```
tlc -config MCArchiveEdits.cfg MCArchiveEdits.tla
tlc -config MCReflection.cfg MCReflection.tla
tlapm ArchiveEditsProofs.tla
tlapm ReflectionProofs.tla
```

Each run's module and configuration are in `PROJECT.json`.
