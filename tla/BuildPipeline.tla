--------------------------- MODULE BuildPipeline ---------------------------
(***************************************************************************)
(* compile_project of crates/sga/src/build.rs: an archive made of a mod's  *)
(* source directory.  Sources and prebuilt files are pushed into trees of  *)
(* their own, one walk after the other; then each burner goes through the  *)
(* assets, compiles what a rule of the .burnproj selects and inserts what  *)
(* comes out.  Nothing sorts the tables afterwards.                        *)
(*                                                                         *)
(* A source directory is a function from the paths of its files to what    *)
(* they hold; a name is what DirectoryTable says, and what the code reads  *)
(* off its letters is given by constants.                                  *)
(***************************************************************************)
EXTENDS ArchiveTree

CONSTANTS
  Projects,       \* the projects that may be compiled
  ByteRank,       \* of a name: its place in the byte order of file names
  Ext,            \* of a key: the extension of its names
  BurnedKey,      \* of a source's key: that of <stem>.<out_ext>
  LocalePath,     \* of a .locdb name and a .csv name: <<locale, locale.ucs>>,
                  \* or <<>> if the second is not <stem>_<locale>.csv
  SegmentMatches, \* the pairs of a pattern's segment and a name it matches
  Compiled,       \* of a source's contents: what its burner makes of them
  Rejected        \* what Compiled says where the burner fails

VARIABLES
  project,        \* what is compiled: its four directories and its rules
  stage,          \* the walk under way, or Built, or Failed
  todo,           \* the files it has still to visit, in its order
  tables,         \* the string tables of the first of them, if a .locdb
  root,           \* the tree it fills, if a walk of sources
  tocs            \* the TOCs of the archive so far

vars == <<project, stage, todo, tables, root, tocs>>

\* A source directory is finite, its files have names, and none is a directory
\* of others.
IsDirectory(files) ==
  /\ IsFiniteSet(DOMAIN files)
  /\ \A p \in DOMAIN files : p \in Seq(Names) \ {<<>>} /\ files[p] \in Data
  /\ \A p, q \in DOMAIN files : ~ IsStrictPrefix(p, q)

NoAlias == "NoAlias"

ASSUME ProjectsAssumption ==
  \A pr \in Projects :
    /\ DOMAIN pr.files = {"assets", "data", "info", "locale"}
    /\ \A base \in DOMAIN pr.files : IsDirectory(pr.files[base])
    /\ pr.rules \in Seq(Range(pr.rules))
    /\ \A r \in Range(pr.rules) : r.alias \in Aliases \cup {NoAlias}

\* File names are strings that sort by their bytes: different ones at different
\* places, and lowercase ones as folded ones do.
ASSUME NamesAssumption ==
  /\ ByteRank \in [Names -> Nat]
  /\ \A m, n \in Names :
       /\ ByteRank[m] = ByteRank[n] => m = n
       /\ IsLower(m) /\ IsLower(n) /\ ByteRank[m] < ByteRank[n] => m.key < n.key
  /\ BurnedKey \in [Keys -> Keys]
  /\ LocalePath \in [Names \X Names -> Seq(Names)]

ASSUME DataAssumption ==
  /\ {"data", "info", "locale"} \subseteq Aliases
  /\ Compiled \in [Data -> Data \cup {Rejected}]

Failed == 0
Built  == 9

AnyExt == "any"

\* The walks: four that push files, four that burn them.
SourceWalks ==
  << [base |-> "assets", alias |-> "data",   ext |-> "scar", storage |-> "Compress"],
     [base |-> "data",   alias |-> "data",   ext |-> AnyExt, storage |-> "Store"],
     [base |-> "info",   alias |-> "info",   ext |-> AnyExt, storage |-> "Store"],
     [base |-> "locale", alias |-> "locale", ext |-> AnyExt, storage |-> "Store"] >>

Burners ==
  << [burner |-> "ReflectBurner",   ext |-> "rdo"],
     [burner |-> "RRTextureBurner", ext |-> "png"],
     [burner |-> "Mod Attributes",  ext |-> "xml"],
     [burner |-> "UCS",             ext |-> "locdb"] >>

IsBurnStage(s) == s \in 5 .. 8

BurnerAt(s) == Burners[s - 4]

(***************************************************************************)
(* The orders of the walks.  Both sort a directory by file name; one goes  *)
(* down where it meets a directory, the other puts the directories on a    *)
(* stack, so that the last of them comes first, after all the files.       *)
(***************************************************************************)
Fork(p, q) ==
  CHOOSE i \in 1 .. Len(p) :
    /\ i <= Len(q) /\ p[i] # q[i]
    /\ SubSeq(p, 1, i - 1) = SubSeq(q, 1, i - 1)

\* Mutant of the next operator: a directory is walked as some other order has it.
SourceOrderReversed(p, q) ==
  p # q /\ LET i == Fork(p, q) IN ByteRank[p[i]] > ByteRank[q[i]]

SourceOrder(p, q) ==
  p # q /\ LET i == Fork(p, q) IN ByteRank[p[i]] < ByteRank[q[i]]

BurnOrder(p, q) ==
  p # q /\ LET i == Fork(p, q)
           IN  \/ Len(p) = i /\ Len(q) > i
               \/ Len(p) = i /\ Len(q) = i /\ ByteRank[p[i]] < ByteRank[q[i]]
               \/ Len(p) > i /\ Len(q) > i /\ ByteRank[p[i]] > ByteRank[q[i]]

Listed(paths, Before(_, _)) ==
  Enumerate(paths, {pair \in paths \X paths : Before(pair[1], pair[2])})

(***************************************************************************)
(* The rules: parse_burn_rules keeps those of the burner that name a TOC   *)
(* and a pattern; the first of them that matches the path counts.          *)
(***************************************************************************)
AnyDepth == "**"

IsRuleOf(r, burner) == r.burner = burner /\ r.alias # NoAlias /\ r.includes # {}

\* match_segments, from the (i+1)-st segment of a pattern and the (j+1)-st
\* component of a path on.
GlobMatches(pattern, path) ==
  LET match[i \in 0 .. Len(pattern), j \in 0 .. Len(path)] ==
        IF i = Len(pattern) THEN j = Len(path)
        ELSE IF pattern[i + 1] = AnyDepth
             THEN \E k \in j .. Len(path) : match[i + 1, k]
             ELSE /\ j < Len(path)
                  /\ <<pattern[i + 1], path[j + 1]>> \in SegmentMatches
                  /\ match[i + 1, j + 1]
  IN  match[0, 0]

RuleIndex(rules, burner, path) ==
  SelectInSeq(rules,
    LAMBDA r : IsRuleOf(r, burner) /\ \E g \in r.includes : GlobMatches(g, path))

AliasFor(burner, path) == project.rules[RuleIndex(project.rules, burner, path)].alias

(***************************************************************************)
(* What a walk visits, and what it makes of a file.                        *)
(***************************************************************************)
Assets == project.files["assets"]

PathsIn(walk) ==
  {p \in DOMAIN project.files[walk.base] :
     walk.ext \in {AnyExt, Ext[Last(p).key]}}

Selected(burner) ==
  {p \in DOMAIN Assets :
     /\ Ext[Last(p).key] = burner.ext
     /\ RuleIndex(project.rules, burner.burner, p) # 0}

TodoAt(s) ==
  IF s \in 1 .. 4 THEN Listed(PathsIn(SourceWalks[s]), SourceOrder)
  ELSE IF IsBurnStage(s) THEN Listed(Selected(BurnerAt(s)), BurnOrder)
  ELSE <<>>

\* The csv files beside a .locdb that are tables of one of its locales.
TablesOf(locdb) ==
  {p \in DOMAIN Assets :
     /\ Front(p) = Front(locdb)
     /\ Ext[Last(p).key] = "csv"
     /\ LocalePath[<<Last(locdb), Last(p)>>] # <<>>}

TablesAt(s, list) ==
  IF s = 8 /\ list # <<>> THEN TablesOf(Head(list)) ELSE {}

SourceFile(name, d, storage) ==
  [StoredFile(name, d) EXCEPT
     !.storage = storage, !.crc = {[data |-> d, storage |-> storage]}]

\* burned_output_path: the directory is kept and the name lowercased.
BurnedPath(path) ==
  Append(Front(path), [key |-> BurnedKey[Last(path).key], cased |-> FALSE])

\* Mutant of the next operator: a TOC is made of a tree without files, too.
WithAnyToc(ts, alias, tree) == Append(ts, [alias |-> alias, tree |-> tree])

WithToc(ts, alias, tree) ==
  IF tree = EmptyTree THEN ts ELSE Append(ts, [alias |-> alias, tree |-> tree])

\* Mutant of the next operator: what is burned is pushed like a source.
PlacePushed(ts, alias, rel, d) ==
  LET with == GetOrCreateToc(ts, alias)
      i    == TocIndex(with, alias)
  IN  {[with EXCEPT ![i].tree = t] :
         t \in PushInTree(with[i].tree, rel, StoredFile(Last(rel), d))}

\* get_or_create_toc and insert_or_replace, as in upsert_stored_in.
PlaceBurned(ts, alias, rel, d) == UpsertIn(ts, alias, rel, d)

(***************************************************************************)
(* The pipeline.                                                           *)
(***************************************************************************)
Init ==
  /\ project \in Projects
  /\ stage = 1
  /\ todo = TodoAt(1)
  /\ tables = {}
  /\ root = EmptyTree
  /\ tocs = <<>>

GoTo(s) ==
  /\ stage' = s
  /\ todo' = TodoAt(s)
  /\ tables' = TablesAt(s, TodoAt(s))

\* add_source_files reads, encodes and pushes one file.
AddSource ==
  /\ stage \in 1 .. 4 /\ todo # <<>>
  /\ LET walk == SourceWalks[stage]
         path == Head(todo)
         file == SourceFile(Last(path), project.files[walk.base][path], walk.storage)
     IN  root' \in PushInTree(root, path, file)
  /\ todo' = Tail(todo)
  /\ UNCHANGED <<project, stage, tables, tocs>>

\* The scripts and the prebuilt data files share a tree.
ShareRoot ==
  /\ stage = 1 /\ todo = <<>>
  /\ GoTo(2)
  /\ UNCHANGED <<project, root, tocs>>

CloseToc ==
  /\ stage \in 2 .. 4 /\ todo = <<>>
  /\ tocs' = WithToc(tocs, SourceWalks[stage].alias, root)
  /\ root' = EmptyTree
  /\ GoTo(stage + 1)
  /\ UNCHANGED project

Fail ==
  /\ stage' = Failed
  /\ UNCHANGED <<project, todo, tables, root, tocs>>

\* add_burned_files compiles and places one file, or ends the whole build.
Burn ==
  /\ stage \in 5 .. 7 /\ todo # <<>>
  /\ LET path  == Head(todo)
         bytes == Compiled[Assets[path]]
     IN  \/ bytes = Rejected /\ Fail
         \/ /\ bytes # Rejected
            /\ tocs' \in PlaceBurned(tocs, AliasFor(BurnerAt(stage).burner, path),
                                     BurnedPath(path), bytes)
            /\ todo' = Tail(todo)
            /\ UNCHANGED <<project, stage, tables, root>>

\* add_localization does so with a table, whichever the directory lists next.
BurnTable ==
  /\ stage = 8
  /\ \E table \in tables :
       LET path  == Head(todo)
           bytes == Compiled[Assets[table]]
       IN  \/ bytes = Rejected /\ Fail
           \/ /\ bytes # Rejected
              /\ tocs' \in PlaceBurned(tocs, AliasFor("UCS", path),
                                       LocalePath[<<Last(path), Last(table)>>], bytes)
              /\ tables' = tables \ {table}
              /\ UNCHANGED <<project, stage, todo, root>>

NextLocdb ==
  /\ stage = 8 /\ todo # <<>> /\ tables = {}
  /\ todo' = Tail(todo)
  /\ tables' = TablesAt(8, Tail(todo))
  /\ UNCHANGED <<project, stage, root, tocs>>

NextBurner ==
  /\ IsBurnStage(stage) /\ todo = <<>>
  /\ GoTo(stage + 1)
  /\ UNCHANGED <<project, root, tocs>>

Next ==
  AddSource \/ ShareRoot \/ CloseToc \/ Burn \/ BurnTable \/ NextLocdb \/ NextBurner

Spec == Init /\ [][Next]_vars

(***************************************************************************)
(* Properties.                                                             *)
(***************************************************************************)

\* The walk under way visits files of the project, and every tree is one.
BuildTypeOK ==
  /\ stage \in 0 .. Built
  /\ Range(todo) \subseteq UNION {DOMAIN project.files[b] : b \in DOMAIN project.files}
  /\ tables \subseteq DOMAIN Assets
  /\ IsTree(root)
  /\ IsArchive(tocs)

\* What each walk declares: a member, and the source file it comes from.
PushedBy(s) ==
  {[alias |-> SourceWalks[s].alias, rel |-> LowerPath(p), path |-> p, walk |-> s] :
     p \in PathsIn(SourceWalks[s])}

BurnedBy(s) ==
  IF s = 8
  THEN UNION {{[alias |-> AliasFor("UCS", l), path |-> l, table |-> p, walk |-> s,
                rel |-> LowerPath(LocalePath[<<Last(l), Last(p)>>])] : p \in TablesOf(l)} :
              l \in Selected(BurnerAt(8))}
  ELSE {[alias |-> AliasFor(BurnerAt(s).burner, p), path |-> p, table |-> p, walk |-> s,
         rel |-> LowerPath(BurnedPath(p))] : p \in Selected(BurnerAt(s))}

Pushes == UNION {PushedBy(s) : s \in 1 .. 4}
Burns  == UNION {BurnedBy(s) : s \in 5 .. 8}

\* Which of two comes earlier.
PushedBefore(p, q) ==
  p.walk < q.walk \/ (p.walk = q.walk /\ SourceOrder(p.path, q.path))

BurnedBefore(b, c) ==
  b.walk < c.walk \/ (b.walk = c.walk /\ BurnOrder(b.path, c.path))

PushedData(p) == project.files[SourceWalks[p.walk].base][p.path]
BurnedData(b) == Compiled[Assets[b.table]]

\* What the project declares of a member: a burned source overrides a pushed
\* file, the last of several burned ones counts and the first of several pushed
\* ones, and of two tables of one locale either.
Declared(alias, rel) ==
  LET burns  == {b \in Burns : b.alias = alias /\ b.rel = rel}
      pushes == {p \in Pushes : p.alias = alias /\ p.rel = rel}
  IN  IF burns # {}
      THEN {BurnedData(b) : b \in {b \in burns : \A c \in burns : ~ BurnedBefore(b, c)}}
      ELSE {PushedData(p) : p \in {p \in pushes : \A q \in pushes : ~ PushedBefore(q, p)}}

\* What a lookup in the TOC answers: the first file of that name.
Answer(toc, rel) ==
  IF Front(rel) \notin DOMAIN toc.tree THEN {}
  ELSE LET files == toc.tree[Front(rel)].files
           k     == Position(files, Last(rel))
       IN  IF k = 0 THEN {} ELSE {files[k].data}

AnswerIn(alias, rel) ==
  IF TocIndex(tocs, alias) = 0 THEN {} ELSE Answer(tocs[TocIndex(tocs, alias)], rel)

Members ==
  UNION {UNION {{[alias |-> toc.alias, rel |-> Append(p, toc.tree[p].files[k].name)] :
                   k \in DOMAIN toc.tree[p].files} :
                p \in DOMAIN toc.tree} :
         toc \in Range(tocs)}

\* The archive holds what the project declares, whatever walk, rule or sibling
\* came first, and nothing else.
BuiltAsDeclared ==
  stage = Built =>
    /\ \A m \in Members : Declared(m.alias, m.rel) # {}
    /\ \A m \in Members \cup Pushes \cup Burns :
         /\ Cardinality(AnswerIn(m.alias, m.rel)) = 1
         /\ AnswerIn(m.alias, m.rel) \subseteq Declared(m.alias, m.rel)

\* No TOC comes twice, and each that is made holds a file.
TocsDistinctAndFilled ==
  \A i, j \in DOMAIN tocs :
    /\ tocs[i].alias = tocs[j].alias => i = j
    /\ HoldsFiles(tocs[i].tree, <<>>)

\* Folders can always be found, however files are pushed: descend alone makes
\* them, lowercased and each in its place.
FoldersSearchable ==
  \A i \in DOMAIN tocs : \A p \in DOMAIN tocs[i].tree : TableKept(tocs[i].tree[p].folders)

Searchable == \A i \in DOMAIN tocs : Kept(tocs[i].tree)

\* A project whose names are lowercase and whose scripts have no folder in
\* common with its prebuilt data files.
Tidy ==
  LET FoldersOf(walk) == {Front(p) : p \in PathsIn(walk)}
  IN  /\ \A s \in 1 .. 4 : \A p \in PathsIn(SourceWalks[s]) : p = LowerPath(p)
      /\ FoldersOf(SourceWalks[1]) \cap FoldersOf(SourceWalks[2]) = {}

\* Of a tidy project, the file tables come out sorted and without doubles, too.
TidyBuildSearchable == Tidy => Searchable

\* The game finds the members of any project.
BuiltSearchable == stage = Built => Searchable

=============================================================================
