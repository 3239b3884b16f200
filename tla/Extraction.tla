----------------------------- MODULE Extraction -----------------------------
(***************************************************************************)
(* The commands that write members of an archive as files: extract-member  *)
(* and extract (crates/sga-archiver-cli/src/machine.rs), which refuse to   *)
(* overwrite, and unpack (main.rs), which writes every member wherever it  *)
(* goes, then files derived from some of them, and the project file of the *)
(* mod last.  A command that failed or died is followed by the next one on *)
(* the files it left.                                                      *)
(*                                                                         *)
(* A file system may tell names apart by their case, or not.               *)
(***************************************************************************)
EXTENDS ArchiveTree

CONSTANTS
  Archives,     \* the archives the commands may be given
  Disks,        \* what the output directory may hold to begin with
  Requests,     \* the commands that may be given
  MaxRuns,      \* bound on how many are, one after the other
  Torn,         \* what is left of a file whose writing was cut short
  Nothing,      \* that nothing can be derived
  Unreadable,   \* the contents that cannot be decoded
  DerivedFrom,  \* of a source's content: what is derived of it, or Nothing
  Derivers,     \* the passes over the unpacked files: of each, a function from
                \* the keys it looks at to those of its outputs' names
  ModNames,     \* of a key of a .locdb file: that of the .aoe4mod file's name
  HeaderMod,    \* the name of the .aoe4mod file made of the archive's own name
  ModText       \* what is in it

VARIABLES
  folds,        \* whether the file system ignores case
  archive,      \* the archive all commands are given
  disk,         \* the output directory: what is at each place
  request,      \* the command under way, or the last
  phase,        \* what it is doing, or how it ended
  pass,         \* of unpack: the derivers that have begun
  todo,         \* the members or files it has still to visit, in its order
  seen,         \* the folded paths extract has come across
  runs          \* how many commands have been started

vars == <<folds, archive, disk, request, phase, pass, todo, seen, runs>>

ASSUME ArchivesAssumption ==
  \A ts \in Archives :
    IsArchive(ts) /\ \A i \in DOMAIN ts : IsFiniteSet(DOMAIN ts[i].tree)

ASSUME RequestsAssumption ==
  \A r \in Requests : r.kind \in {"member", "extract", "unpack"}

\* with_extension: the passes make files of different extensions, none looks at
\* what another makes, and one that looks at what it makes writes it in place.
\* What is derived is text, of which nothing can be derived.
ASSUME DeriversAssumption ==
  /\ Derivers \in Seq(Range(Derivers))
  /\ \A n \in DOMAIN Derivers :
       /\ Derivers[n] \in [DOMAIN Derivers[n] -> Keys]
       /\ \A k \in DOMAIN Derivers[n] :
            LET out == Derivers[n][k]
            IN  /\ out \in DOMAIN Derivers[n] => Derivers[n][out] = out
                /\ \A m \in DOMAIN Derivers \ {n} :
                     out \notin DOMAIN Derivers[m] \cup Range(Derivers[m])
  /\ Data \subseteq DOMAIN DerivedFrom
  /\ \A d \in DOMAIN DerivedFrom :
       DerivedFrom[d] # Nothing =>
         /\ DerivedFrom[d] \in DOMAIN DerivedFrom
         /\ DerivedFrom[DerivedFrom[d]] = Nothing

\* No pass looks at a .aoe4mod file or makes one, and it is text.
ASSUME ModAssumption ==
  /\ ModNames \in [DOMAIN ModNames -> Keys]
  /\ HeaderMod \in Names
  /\ \A n \in DOMAIN Derivers :
       (Range(ModNames) \cup {HeaderMod.key})
         \cap (DOMAIN Derivers[n] \cup Range(Derivers[n])) = {}
  /\ ModText \in DOMAIN DerivedFrom

\* Where a path leads.
Spot(path) == IF folds THEN LowerPath(path) ELSE path

(***************************************************************************)
(* The members of an archive in the order of files(): TOC by TOC, a folder *)
(* before its subfolders.                                                  *)
(***************************************************************************)
Slots(ts) ==
  UNION {UNION {{<<i, p, k>> : k \in DOMAIN ts[i].tree[p].files} :
                p \in DOMAIN ts[i].tree} : i \in DOMAIN ts}

\* Mutant of the next operator: the TOCs the wrong way round.
LaterTocsFirst(ts) ==
  {pair \in Slots(ts) \X Slots(ts) :
     LET r == pair[1]
         s == pair[2]
     IN  \/ r[1] > s[1]
         \/ r[1] = s[1] /\ DepthFirst(ts[r[1]].tree, r[2], s[2])
         \/ r[1] = s[1] /\ r[2] = s[2] /\ r[3] < s[3]}

TableOrder(ts) ==
  {pair \in Slots(ts) \X Slots(ts) :
     LET r == pair[1]
         s == pair[2]
     IN  \/ r[1] < s[1]
         \/ r[1] = s[1] /\ DepthFirst(ts[r[1]].tree, r[2], s[2])
         \/ r[1] = s[1] /\ r[2] = s[2] /\ r[3] < s[3]}

FileOf(s) == archive[s[1]].tree[s[2]].files[s[3]]
PathOf(s) == Append(s[2], FileOf(s).name)

Members(S) == Enumerate(S, TableOrder(archive))

\* What extract selects: the paths asked for and those the filter matches.
Chosen(r) == {s \in Slots(archive) : LowerPath(PathOf(s)) \in r.wanted \cup r.filtered}

\* Mutant of the next operator: nothing is looked for.
TakenUnchecked(path) == FALSE

Taken(path) == Spot(path) \in DOMAIN disk

Decodes(file) == ~ file.encrypted /\ file.data \notin Unreadable

(***************************************************************************)
(* Derived files: with_extension next to the file they are derived from.   *)
(***************************************************************************)

\* Mutant of the next operator: the output goes to the top of the directory.
DerivedAtTop(path) ==
  <<[key |-> Derivers[pass][Last(path).key], cased |-> Last(path).cased]>>

DerivedPath(path) ==
  Append(Front(path), [key |-> Derivers[pass][Last(path).key], cased |-> Last(path).cased])

\* Mutant of the next operator: the last pass visits nothing.
ForDeriverButLast(paths, n) ==
  Retain(paths, {i \in DOMAIN paths : n < Len(Derivers) /\ Last(paths[i]).key \in DOMAIN Derivers[n]})

\* The files the n-th pass visits: those of the extensions it looks for.
ForDeriver(paths, n) ==
  Retain(paths, {i \in DOMAIN paths : Last(paths[i]).key \in DOMAIN Derivers[n]})

Written == LET order == Members(Slots(archive))
           IN  [n \in DOMAIN order |-> PathOf(order[n])]

(***************************************************************************)
(* The project file: named after the first .locdb file written, or after   *)
(* the archive where there is none, at the top of the directory.           *)
(***************************************************************************)
LocDbs == {n \in DOMAIN Written : Last(Written[n]).key \in DOMAIN ModNames}

ModName ==
  IF LocDbs = {}
  THEN HeaderMod
  ELSE LET name == Last(Written[Min(LocDbs)])
       IN  [key |-> ModNames[name.key], cased |-> name.cased]

ModPath == <<ModName>>

(***************************************************************************)
(* The next write of the command under way: a set, empty if the next thing *)
(* it does is no write.                                                    *)
(***************************************************************************)
Skipped(s) == LowerPath(PathOf(s)) \in seen \/ FileOf(s).encrypted

Refused(s) == ~ Skipped(s) /\ (Taken(PathOf(s)) \/ ~ Decodes(FileOf(s)))

MemberWrites(r) ==
  {[to |-> r.output, data |-> file.data] :
     file \in {f \in FindMember(archive, r.member) : Decodes(f) /\ ~ Taken(r.output)}}

ExtractWrites(s) ==
  IF Skipped(s) \/ Refused(s) THEN {} ELSE {[to |-> PathOf(s), data |-> FileOf(s).data]}

UnpackWrites(s) ==
  IF Decodes(FileOf(s)) THEN {[to |-> PathOf(s), data |-> FileOf(s).data]} ELSE {}

DeriveWrites(path) ==
  IF DerivedFrom[disk[Spot(path)]] = Nothing
  THEN {}
  ELSE {[to |-> DerivedPath(path), data |-> DerivedFrom[disk[Spot(path)]]]}

Writes ==
  CASE phase = "member" -> MemberWrites(request)
    [] phase = "extract" /\ todo # <<>> -> ExtractWrites(Head(todo))
    [] phase = "unpack"  /\ todo # <<>> -> UnpackWrites(Head(todo))
    [] phase = "derive"  /\ todo # <<>> -> DeriveWrites(Head(todo))
    [] phase = "describe" -> {[to |-> ModPath, data |-> ModText]}
    [] OTHER -> {}

Put(path, content) ==
  [at \in DOMAIN disk \cup {Spot(path)} |-> IF at = Spot(path) THEN content ELSE disk[at]]

(***************************************************************************)
(* The commands.                                                           *)
(***************************************************************************)
Ended == {"idle", "done", "failed", "missing", "dead"}

Init ==
  /\ folds \in BOOLEAN
  /\ archive \in Archives
  /\ disk \in Disks
  /\ request = [kind |-> "none"]
  /\ phase = "idle"
  /\ pass = 0
  /\ todo = <<>>
  /\ seen = {}
  /\ runs = 0

Begin(r) ==
  /\ phase \in Ended /\ runs < MaxRuns
  /\ request' = r
  /\ phase' = r.kind
  /\ pass' = 0
  /\ todo' = CASE r.kind = "extract" -> Members(Chosen(r))
               [] r.kind = "unpack"  -> Members(Slots(archive))
               [] OTHER -> <<>>
  /\ seen' = {}
  /\ runs' = runs + 1
  /\ UNCHANGED <<folds, archive, disk>>

EndAs(p) ==
  /\ phase' = p
  /\ UNCHANGED <<folds, archive, disk, request, pass, todo, seen, runs>>

\* extract_member: refused, not found, not decoded, or written.
ExtractMember ==
  /\ phase = "member"
  /\ \/ Writes = {} /\ EndAs("failed")
     \/ \E w \in Writes :
          /\ disk' = Put(w.to, w.data)
          /\ phase' = "done"
          /\ UNCHANGED <<folds, archive, request, pass, todo, seen, runs>>

\* One round of extract's loop.
ExtractNext ==
  /\ phase = "extract" /\ todo # <<>>
  /\ LET s == Head(todo)
     IN  \/ Refused(s) /\ EndAs("failed")
         \/ /\ ~ Refused(s)
            /\ disk' = IF Writes = {} THEN disk ELSE Put(PathOf(s), FileOf(s).data)
            /\ seen' = seen \cup {LowerPath(PathOf(s))}
            /\ todo' = Tail(todo)
            /\ UNCHANGED <<folds, archive, request, phase, pass, runs>>

ExtractEnd ==
  /\ phase = "extract" /\ todo = <<>>
  /\ EndAs(IF request.wanted \subseteq seen THEN "done" ELSE "missing")

\* extract_folder: the first member that cannot be decoded ends it.
UnpackNext ==
  /\ phase = "unpack" /\ todo # <<>>
  /\ \/ Writes = {} /\ EndAs("failed")
     \/ \E w \in Writes :
          /\ disk' = Put(w.to, w.data)
          /\ todo' = Tail(todo)
          /\ UNCHANGED <<folds, archive, request, phase, pass, seen, runs>>

\* decode_rgd_files, then decode_reflect_files, then write_aoe4mod.
NextPass ==
  /\ phase \in {"unpack", "derive"} /\ todo = <<>>
  /\ IF pass < Len(Derivers)
     THEN /\ phase' = "derive"
          /\ pass' = pass + 1
          /\ todo' = ForDeriver(Written, pass + 1)
          /\ UNCHANGED <<folds, archive, disk, request, seen, runs>>
     ELSE EndAs("describe")

\* What cannot be parsed is passed over.
Derive ==
  /\ phase = "derive" /\ todo # <<>>
  /\ \/ Writes = {} /\ UNCHANGED disk
     \/ \E w \in Writes : disk' = Put(w.to, w.data)
  /\ todo' = Tail(todo)
  /\ UNCHANGED <<folds, archive, request, phase, pass, seen, runs>>

\* write_aoe4mod: over whatever has that name, unless the archive cannot be read
\* a second time or the file cannot be written.
WriteMod ==
  /\ phase = "describe"
  /\ \/ EndAs("failed")
     \/ \E w \in Writes :
          /\ disk' = Put(w.to, w.data)
          /\ phase' = "done"
          /\ UNCHANGED <<folds, archive, request, pass, todo, seen, runs>>

\* The process is killed, between two writes or in one.
Die ==
  /\ phase \notin Ended
  /\ \/ UNCHANGED disk
     \/ \E w \in Writes : disk' = Put(w.to, Torn)
  /\ phase' = "dead"
  /\ UNCHANGED <<folds, archive, request, pass, todo, seen, runs>>

Next ==
  \/ \E r \in Requests : Begin(r)
  \/ ExtractMember
  \/ ExtractNext \/ ExtractEnd
  \/ UnpackNext \/ NextPass \/ Derive \/ WriteMod
  \/ Die

Spec == Init /\ [][Next]_vars

(***************************************************************************)
(* Properties.                                                             *)
(***************************************************************************)

\* "refusing to overwrite" (machine.rs): extract and extract-member never touch
\* a file that is there, whichever command left it, whole or torn.
ExtractionsKeepFiles ==
  [][(phase \in {"extract", "member"}) =>
       /\ DOMAIN disk \subseteq DOMAIN disk'
       /\ \A at \in DOMAIN disk : disk[at] = disk'[at]]_vars

\* The first member of a path up to case, in the order of files().
Firsts(rel) ==
  {n \in DOMAIN Written : /\ LowerPath(Written[n]) = rel
                          /\ \A m \in DOMAIN Written : LowerPath(Written[m]) = rel => n <= m}

\* An extract-member that reports success has written the member find_member
\* finds.  An extract that does has written, of each path it was asked for or its
\* filter matches, the member extract-member finds under the spelling the path has
\* first in the archive, at that place, unless it is encrypted.  (Of a path with
\* several spellings extract never gives the others, which extract-member finds
\* when it is asked for exactly them.)
DoneAgreesWithLookup ==
  phase = "done" =>
    CASE request.kind = "extract" ->
           \A rel \in request.wanted \cup {LowerPath(PathOf(s)) : s \in Chosen(request)} :
             \E n \in Firsts(rel) : \E file \in FindMember(archive, Written[n]) :
               \/ file.encrypted
               \/ /\ Spot(Written[n]) \in DOMAIN disk
                  /\ disk[Spot(Written[n])] = file.data
      [] request.kind = "member" ->
           \E file \in FindMember(archive, request.member) :
             disk[Spot(request.output)] = file.data
      [] OTHER -> TRUE

Sources(n) == {p \in Range(Written) : Last(p).key \in DOMAIN Derivers[n]}

\* The name the d-th pass gives what it makes of a file.
Derivative(d, p) ==
  Append(Front(p), [key |-> Derivers[d][Last(p).key], cased |-> Last(p).cased])

\* The places the passes may write at.
Outputs == UNION {{Spot(Derivative(d, p)) : p \in Sources(d)} : d \in DOMAIN Derivers}

\* After unpack the project file is there, whichever member had its name; a place
\* neither it nor a derived file may take holds the last member that goes there;
\* and what each pass can derive of that one is there under the derivative's name,
\* unless it has gone under for the derivative of another file with that name.
UnpackedIsLast ==
  phase = "done" /\ request.kind = "unpack" =>
    /\ Spot(ModPath) \in DOMAIN disk /\ disk[Spot(ModPath)] = ModText
    /\ \A n \in DOMAIN Written :
         LET at   == Spot(Written[n])
             last == \A m \in DOMAIN Written : Spot(Written[m]) = at => m <= n
         IN  at \notin Outputs \cup {Spot(ModPath)} /\ last =>
               /\ disk[at] = FileOf(Members(Slots(archive))[n]).data
               /\ \A d \in DOMAIN Derivers :
                    Written[n] \in Sources(d) /\ DerivedFrom[disk[at]] # Nothing =>
                      \E p \in Sources(d) :
                        LET to == Spot(Derivative(d, p))
                        IN  /\ to = Spot(Derivative(d, Written[n]))
                            /\ to \in DOMAIN disk /\ disk[to] = DerivedFrom[disk[Spot(p)]]
                            /\ DerivedFrom[disk[Spot(p)]] # Nothing

\* No command writes outside the places of the members, of what is derived of
\* them, of the one project file and of the outputs given.
NothingElsewhere ==
  \A at \in DOMAIN disk :
    \/ \E other \in Disks : at \in DOMAIN other
    \/ at \in Outputs \cup {Spot(p) : p \in Range(Written)} \cup {Spot(ModPath)}
    \/ \E r \in Requests : r.kind = "member" /\ at = Spot(r.output)

=============================================================================
