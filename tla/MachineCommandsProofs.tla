----------------------- MODULE MachineCommandsProofs -----------------------
(***************************************************************************)
(* What MachineCommands promises, for any number of processes, files and   *)
(* commands, whatever their order and wherever they die.  They lose no     *)
(* archive (WholeFilesAreKept).  Files and processes hold archives         *)
(* (CommandTypeCorrect).  And where the archives they start from are tidy, *)
(* what a command writes is its base with the members it lists and nothing *)
(* else (FinishedOutputsAreEdits), and replace-member adds nothing         *)
(* (ReplacingAddsNothing).                                                 *)
(*                                                                         *)
(* CommandSound carries from the reading of a base to the writing of the   *)
(* output that the result is one of the edits of what was read.  What the  *)
(* edits of a list do is shown item by item (Fits): an item changes what   *)
(* is first found at its own path only.                                    *)
(***************************************************************************)
EXTENDS MachineCommands, ArchiveTreeProofs

\* No two processes are given one output, under whatever spellings, but for
\* files that were there before any of them started.
OutputsDistinct ==
  \A p, q \in Processes : \A c \in Commands[p], d \in Commands[q] :
    FileOf[c.output] = FileOf[d.output] => p = q \/ FileOf[c.output] \in DOMAIN OnDisk

Steps == {"idle", "base", "donor", "create", "write"}

(***************************************************************************)
(* The inductive invariant.  What keeps a file that CreateOutput empties   *)
(* from being one a command has finished is that since the check of its    *)
(* output nobody but the process itself could have made that file.         *)
(***************************************************************************)
OutputFile(p) == FileOf[proc[p].command.output]

Unfinished(p) ==
  /\ proc[p].at \in Steps
  /\ proc[p].at # "idle" =>
       /\ proc[p].command \in Commands[p]
       /\ files[OutputFile(p)].state # "whole"

OutputsPending ==
  /\ files = [f \in DiskFiles |-> files[f]]
  /\ proc = [p \in Processes |-> proc[p]]
  /\ \A f \in DOMAIN OnDisk : files[f].state = "whole"
  /\ \A p \in Processes : Unfinished(p)

\* What WholeFilesStay says of one step.
WholeKept == \A f \in DiskFiles : files[f].state = "whole" => files'[f] = files[f]

LEMMA CommandInitPending == CommandInit => OutputsPending
  BY CommandsAssumption DEF CommandInit, OutputsPending, Unfinished, Idle, Steps, Whole

\* A step that changes no file and moves one process.
LEMMA MoveKeeps ==
  ASSUME OutputsPending, NEW p \in Processes, UNCHANGED files,
         NEW next, proc' = [proc EXCEPT ![p] = next],
         next.at \in Steps,
         next.at # "idle" =>
           /\ next.command \in Commands[p]
           /\ files[FileOf[next.command.output]].state # "whole"
  PROVE  OutputsPending'
  BY DEF OutputsPending, Unfinished, OutputFile

LEMMA FailKeeps ==
  ASSUME OutputsPending, NEW p \in Processes, Fail(p)
  PROVE  OutputsPending' /\ WholeKept
  BY MoveKeeps DEF Fail, Idle, Steps, WholeKept

LEMMA StartKeeps ==
  ASSUME OutputsPending, NEW p \in Processes, NEW c \in Commands[p], Start(p, c)
  PROVE  OutputsPending' /\ WholeKept
<1> DEFINE next == [at |-> "base", command |-> c]
<1>1. /\ proc' = [proc EXCEPT ![p] = next] /\ UNCHANGED files
      /\ files[FileOf[c.output]].state = "absent"
  BY DEF Start, OutputFree
<1>2. next.at = "base" /\ next.command = c
  OBVIOUS
<1> QED BY <1>1, <1>2, MoveKeeps DEF Steps, WholeKept

LEMMA ReadBaseKeeps ==
  ASSUME OutputsPending, NEW p \in Processes, ReadBase(p)
  PROVE  OutputsPending' /\ WholeKept
<1> DEFINE c        == proc[p].command
           next(ts) == [at |-> "donor", command |-> c, base |-> ts]
<1>1. /\ proc[p].at = "base"
      /\ \/ Fail(p)
         \/ UNCHANGED files /\ \E ts : proc' = [proc EXCEPT ![p] = next(ts)]
  BY DEF ReadBase
<1>2. CASE Fail(p)
  BY <1>2, FailKeeps
<1>3. ASSUME UNCHANGED files, NEW ts, proc' = [proc EXCEPT ![p] = next(ts)]
      PROVE  OutputsPending' /\ WholeKept
  <2>1. c \in Commands[p] /\ files[FileOf[c.output]].state # "whole"
    BY <1>1 DEF OutputsPending, Unfinished, OutputFile
  <2>2. next(ts).at = "donor" /\ next(ts).command = c
    OBVIOUS
  <2> QED BY <1>3, <2>1, <2>2, MoveKeeps DEF Steps, WholeKept
<1> QED BY <1>1, <1>2, <1>3

LEMMA EditInMemoryKeeps ==
  ASSUME OutputsPending, NEW p \in Processes, EditInMemory(p)
  PROVE  OutputsPending' /\ WholeKept
<1> DEFINE c          == proc[p].command
           next(d, ts) == [at |-> "create", command |-> c, base |-> proc[p].base,
                           donor |-> d, result |-> Finished(c, ts)]
<1>1. /\ proc[p].at = "donor"
      /\ \/ Fail(p)
         \/ UNCHANGED files /\ \E d, ts : proc' = [proc EXCEPT ![p] = next(d, ts)]
  BY DEF EditInMemory
<1>2. CASE Fail(p)
  BY <1>2, FailKeeps
<1>3. ASSUME UNCHANGED files, NEW d, NEW ts, proc' = [proc EXCEPT ![p] = next(d, ts)]
      PROVE  OutputsPending' /\ WholeKept
  <2>1. c \in Commands[p] /\ files[FileOf[c.output]].state # "whole"
    BY <1>1 DEF OutputsPending, Unfinished, OutputFile
  <2>2. next(d, ts).at = "create" /\ next(d, ts).command = c
    OBVIOUS
  <2> QED BY <1>3, <2>1, <2>2, MoveKeeps DEF Steps, WholeKept
<1> QED BY <1>1, <1>2, <1>3

\* The file emptied is the process's own output, which is not whole.
LEMMA CreateOutputKeeps ==
  ASSUME OutputsPending, NEW p \in Processes, CreateOutput(p)
  PROVE  OutputsPending' /\ WholeKept
<1>1. /\ proc[p].at = "create"
      /\ files' = [files EXCEPT ![OutputFile(p)] = Torn]
      /\ proc' = [proc EXCEPT ![p].at = "write"]
  BY DEF CreateOutput, OutputFile
<1>2. files[OutputFile(p)].state # "whole" /\ proc[p].command \in Commands[p]
  BY <1>1 DEF OutputsPending, Unfinished
<1>3. Torn.state # "whole"
  BY DEF Torn
<1>4. WholeKept
  BY <1>1, <1>2 DEF OutputsPending, WholeKept
<1>5. ASSUME NEW q \in Processes
      PROVE  Unfinished(q)'
  BY <1>1, <1>2, <1>3 DEF OutputsPending, Unfinished, OutputFile, Steps
<1>6. \A f \in DOMAIN OnDisk : files'[f].state = "whole"
  BY <1>4, CommandsAssumption DEF OutputsPending, WholeKept
<1>7. OutputsPending'
  BY <1>1, <1>5, <1>6 DEF OutputsPending
<1> QED BY <1>4, <1>7

\* The file written is nobody else's output, so the others' stay unfinished.
LEMMA WriteOutputKeeps ==
  ASSUME OutputsDistinct, OutputsPending, NEW p \in Processes, WriteOutput(p)
  PROVE  OutputsPending' /\ WholeKept
<1>1. /\ proc[p].at = "write"
      /\ \E content : files' = [files EXCEPT ![OutputFile(p)] = content]
      /\ proc' = [proc EXCEPT ![p] = Idle]
  BY DEF WriteOutput, OutputFile
<1>2. files[OutputFile(p)].state # "whole" /\ proc[p].command \in Commands[p]
  BY <1>1 DEF OutputsPending, Unfinished
<1>3. WholeKept
  BY <1>1, <1>2 DEF OutputsPending, WholeKept
<1>4. ASSUME NEW q \in Processes
      PROVE  Unfinished(q)'
  <2>1. CASE q = p
    BY <1>1, <2>1 DEF OutputsPending, Unfinished, Idle, Steps
  <2>2. CASE q # p
    <3>1. proc'[q] = proc[q] /\ Unfinished(q)
      BY <1>1, <2>2 DEF OutputsPending
    <3>2. proc[q].at # "idle" => OutputFile(q) # OutputFile(p)
      BY <1>2, <2>2, <3>1 DEF OutputsDistinct, OutputsPending, Unfinished, OutputFile
    <3>3. proc[q].at # "idle" => files'[OutputFile(q)] = files[OutputFile(q)]
      BY <1>1, <3>2 DEF OutputsPending
    <3> QED BY <3>1, <3>3 DEF Unfinished, OutputFile
  <2> QED BY <2>1, <2>2
<1>5. \A f \in DOMAIN OnDisk : files'[f].state = "whole"
  BY <1>3, CommandsAssumption DEF OutputsPending, WholeKept
<1>6. OutputsPending'
  BY <1>1, <1>4, <1>5 DEF OutputsPending
<1> QED BY <1>3, <1>6

LEMMA CommandStepKeeps ==
  ASSUME OutputsDistinct, OutputsPending, [CommandNext]_commandVars
  PROVE  OutputsPending' /\ WholeKept
<1>1. CASE UNCHANGED commandVars
  BY <1>1 DEF commandVars, OutputsPending, Unfinished, OutputFile, WholeKept
<1>2. CASE CommandNext
  <2>1. PICK p \in Processes :
          \/ \E c \in Commands[p] : Start(p, c)
          \/ ReadBase(p) \/ EditInMemory(p) \/ CreateOutput(p) \/ WriteOutput(p) \/ Die(p)
    BY <1>2 DEF CommandNext
  <2>2. Die(p) => Fail(p)
    BY DEF Die
  <2> QED BY <2>1, <2>2, StartKeeps, ReadBaseKeeps, EditInMemoryKeeps,
             CreateOutputKeeps, WriteOutputKeeps, FailKeeps
<1> QED BY <1>1, <1>2

\* Where no two processes are given one output, no command, finished, failed or
\* killed at any step, touches a file that holds an archive: the check of the
\* output, made long before it is created, still holds then.
THEOREM WholeFilesAreKept == OutputsDistinct => (CommandSpec => WholeFilesStay)
<1> SUFFICES ASSUME OutputsDistinct
             PROVE  CommandSpec => WholeFilesStay
  OBVIOUS
<1>1. CommandInit => OutputsPending
  BY CommandInitPending
<1>2. OutputsPending /\ [CommandNext]_commandVars => OutputsPending'
  BY CommandStepKeeps
<1>3. OutputsPending /\ [CommandNext]_commandVars
        => [\A f \in DiskFiles : files[f].state = "whole" => files'[f] = files[f]]_commandVars
  BY CommandStepKeeps DEF WholeKept
<1> QED BY <1>1, <1>2, <1>3, PTL DEF CommandSpec, WholeFilesStay

\* upsert_stored_in makes an archive of an archive.
LEMMA UpsertTyped ==
  ASSUME NEW ts, IsArchive(ts), NEW alias \in Aliases, NEW rel \in Seq(Names) \ {<<>>},
         NEW d \in Data, NEW w \in UpsertIn(ts, alias, rel, d)
  PROVE  IsArchive(w)
<1> DEFINE with == GetOrCreateToc(ts, alias)
           i    == TocIndex(with, alias)
           file == StoredFile(Last(rel), d)
<1>1. PICK t \in InsertInTree(with[i].tree, rel, file) : w = [with EXCEPT ![i].tree = t]
  BY DEF UpsertIn
<1>2. IsArchive(with) /\ i \in DOMAIN with
  BY TocObtained
<1>3. file \in Files
  BY LastIsName, StoredFileTyped
<1> HIDE DEF with, file, i
<1>4. IsTree(with[i].tree)
  BY <1>2, TocParts
<1>5. IsTree(t)
  BY <1>1, <1>3, <1>4, InsertPlaces DEF TreeWith
<1> QED BY <1>1, <1>2, <1>5, TreeReplaced

-----------------------------------------------------------------------------
(* The edits of a command.                                                 *)

IsEdit(c, item, ts, donor) ==
  /\ IsCommand(c) /\ c.kind \notin {"compile", "repack"} /\ IsItem(c.kind, item)
  /\ IsArchive(ts) /\ IsArchive(donor)

LEMMA TocAliasTyped ==
  ASSUME NEW ts, IsArchive(ts), NEW rel
  PROVE  MemberTocAlias(ts, rel) \subseteq Aliases
BY FoldedHoldersAre, TocParts DEF MemberTocAlias

LEMMA FirstFilledTyped ==
  ASSUME NEW ts, IsArchive(ts)
  PROVE  FirstFilledToc(ts) \in Aliases
<1> DEFINE filled == {i \in DOMAIN ts : \E p \in DOMAIN ts[i].tree : ts[i].tree[p].files # <<>>}
<1>1. CASE filled = {}
  BY <1>1, AliasesAssumption DEF FirstFilledToc
<1>2. CASE filled # {}
  <2>1. filled \subseteq Nat /\ filled \subseteq DOMAIN ts
    <3>1. DOMAIN ts \subseteq Nat
      BY TocParts
    <3> QED BY <3>1
  <2>2. Min(filled) \in filled
    <3> HIDE DEF filled
    <3> QED BY <1>2, <2>1, MinFound
  <2>3. ts[Min(filled)].alias \in Aliases
    <3> HIDE DEF filled
    <3> QED BY <2>1, <2>2, TocParts
  <2> QED BY <1>2, <2>3 DEF FirstFilledToc
<1> QED BY <1>1, <1>2

LEMMA AliasTyped ==
  ASSUME NEW c, NEW item, NEW ts, NEW donor, IsEdit(c, item, ts, donor)
  PROVE  AliasFor(c, item, ts, donor) \subseteq Aliases
<1>1. /\ c.kind \in {"replace", "set", "add", "graft"}
      /\ c.kind \in {"set", "add"} => c.alias \in Aliases \cup {NoAlias}
  BY DEF IsEdit, IsCommand
<1>2. /\ MemberTocAlias(ts, item.member) \subseteq Aliases
      /\ MemberTocAlias(donor, item.source) \subseteq Aliases
      /\ FirstFilledToc(ts) \in Aliases
  BY TocAliasTyped, FirstFilledTyped DEF IsEdit
<1> QED BY <1>1, <1>2 DEF AliasFor

LEMMA ContentTyped ==
  ASSUME NEW c, NEW item, NEW ts, NEW donor, IsEdit(c, item, ts, donor)
  PROVE  ContentFor(c, item, donor) \subseteq Data
<1>1. CASE c.kind = "graft"
  <2>1. FoundIn(donor, item.source) \subseteq Files
    BY <1>1, FoundTyped DEF IsEdit, IsItem, Members
  <2>2. \A file \in Files : file.data \in Data
    BY DEF Files
  <2> QED BY <1>1, <2>1, <2>2 DEF ContentFor
<1>2. CASE c.kind # "graft"
  BY <1>2 DEF ContentFor, IsEdit, IsItem
<1> QED BY <1>1, <1>2

\* What one item leaves is an edit of the TOC it goes to.
LEMMA ItemEditIs ==
  ASSUME NEW c, NEW item, NEW ts, NEW donor, IsEdit(c, item, ts, donor),
         NEW w \in ItemEdits(c, item, ts, donor)
  PROVE  \E alias \in AliasFor(c, item, ts, donor) : \E d \in ContentFor(c, item, donor) :
           w \in UpsertIn(ts, alias, item.member, d)
BY DEF ItemEdits

LEMMA ItemEditTyped ==
  ASSUME NEW c, NEW item, NEW ts, NEW donor, IsEdit(c, item, ts, donor),
         NEW w \in ItemEdits(c, item, ts, donor)
  PROVE  IsArchive(w)
<1>1. PICK alias \in AliasFor(c, item, ts, donor), d \in ContentFor(c, item, donor) :
        w \in UpsertIn(ts, alias, item.member, d)
  BY ItemEditIs
<1>2. alias \in Aliases /\ d \in Data
  BY <1>1, AliasTyped, ContentTyped
<1>3. IsArchive(ts) /\ item.member \in Seq(Names) \ {<<>>}
  BY DEF IsEdit, IsItem, Members
<1> QED BY <1>1, <1>2, <1>3, UpsertTyped

-----------------------------------------------------------------------------
(* The archives a list of items leaves, item by item.                      *)

Runs(c, base, donor, f, k) ==
  f = [n \in 0 .. k |->
         IF n = 0 THEN {base} ELSE UNION {ItemEdits(c, c.list[n], ts, donor) : ts \in f[n - 1]}]

LEMMA RunsStep ==
  ASSUME NEW c, NEW base, NEW donor, NEW f, NEW k \in Nat, Runs(c, base, donor, f, k)
  PROVE  /\ f[0] = {base}
         /\ \A n \in 1 .. k : f[n] = UNION {ItemEdits(c, c.list[n], ts, donor) : ts \in f[n - 1]}
<1> DEFINE F(n) == IF n = 0 THEN {base}
                   ELSE UNION {ItemEdits(c, c.list[n], ts, donor) : ts \in f[n - 1]}
<1>1. f = [n \in 0 .. k |-> F(n)]
  BY DEF Runs
<1>2. \A n \in 0 .. k : f[n] = F(n)
  <2> HIDE DEF F
  <2> QED BY <1>1
<1>3. 0 \in 0 .. k /\ \A n \in 1 .. k : n \in 0 .. k /\ n # 0
  OBVIOUS
<1> QED BY <1>2, <1>3

LEMMA RunsGoOn ==
  ASSUME NEW c, NEW base, NEW donor, NEW f, NEW k \in Nat, Runs(c, base, donor, f, k)
  PROVE  \E g : Runs(c, base, donor, g, k + 1)
<1> DEFINE g == [n \in 0 .. k + 1 |->
                   IF n = k + 1 THEN UNION {ItemEdits(c, c.list[n], ts, donor) : ts \in f[k]}
                   ELSE f[n]]
           Next(h, n) == IF n = 0 THEN {base}
                         ELSE UNION {ItemEdits(c, c.list[n], ts, donor) : ts \in h[n - 1]}
<1>1. f = [n \in 0 .. k |-> Next(f, n)]
  BY DEF Runs
<1>2. ASSUME NEW n \in 0 .. k + 1 PROVE g[n] = Next(g, n)
  <2>1. CASE n = 0
    BY <1>1, <2>1
  <2>2. CASE n \in 1 .. k
    <3>1. n \in 0 .. k /\ n # k + 1 /\ n # 0 /\ n - 1 \in 0 .. k /\ n - 1 \in 0 .. k + 1 /\ n - 1 # k + 1
      BY <2>2
    <3>2. g[n] = f[n] /\ g[n - 1] = f[n - 1]
      BY <3>1
    <3>3. f[n] = Next(f, n)
      BY <1>1, <3>1
    <3> HIDE DEF g
    <3> QED BY <3>1, <3>2, <3>3
  <2>3. CASE n = k + 1
    <3>1. k \in 0 .. k + 1 /\ k # k + 1 /\ n # 0 /\ n - 1 = k
      BY <2>3
    <3>2. g[k] = f[k] /\ g[n] = UNION {ItemEdits(c, c.list[n], ts, donor) : ts \in f[k]}
      BY <2>3, <3>1
    <3> HIDE DEF g
    <3> QED BY <3>1, <3>2
  <2>4. n = 0 \/ n \in 1 .. k \/ n = k + 1
    OBVIOUS
  <2> QED BY <2>1, <2>2, <2>3, <2>4
<1>3. g = [n \in 0 .. k + 1 |-> g[n]]
  OBVIOUS
<1>4. g = [n \in 0 .. k + 1 |-> Next(g, n)]
  <2> HIDE DEF g
  <2> QED BY <1>2, <1>3
<1>5. Runs(c, base, donor, g, k + 1)
  <2> HIDE DEF g
  <2> QED BY <1>4 DEF Runs
<1> QED BY <1>5

LEMMA RunsExist ==
  ASSUME NEW c, NEW base, NEW donor, NEW k \in Nat
  PROVE  \E f : Runs(c, base, donor, f, k)
<1> DEFINE G == {n \in Nat : \E f : Runs(c, base, donor, f, n)}
<1>1. 0 \in G
  <2> DEFINE f == [m \in 0 .. 0 |-> {base}]
  <2>1. f = [m \in 0 .. 0 |-> IF m = 0 THEN {base}
                              ELSE UNION {ItemEdits(c, c.list[m], ts, donor) : ts \in f[m - 1]}]
    OBVIOUS
  <2>2. Runs(c, base, donor, f, 0)
    <3> HIDE DEF f
    <3> QED BY <2>1 DEF Runs
  <2> QED BY <2>2
<1>2. ASSUME NEW n \in 1 .. k, n - 1 \in G PROVE n \in G
  <2>1. n \in Nat /\ n - 1 \in Nat /\ n - 1 + 1 = n
    OBVIOUS
  <2>2. PICK f : Runs(c, base, donor, f, n - 1)
    BY <1>2
  <2>3. \E g : Runs(c, base, donor, g, n - 1 + 1)
    BY <2>1, <2>2, RunsGoOn
  <2> QED BY <2>1, <2>3
<1>3. k \in G
  <2> HIDE DEF G
  <2> QED BY <1>1, <1>2, StepsReach
<1> QED BY <1>3

LEMMA EditedRuns ==
  ASSUME NEW c, NEW base, NEW donor, Len(c.list) \in Nat
  PROVE  \E f : Runs(c, base, donor, f, Len(c.list)) /\ Edited(c, base, donor) = f[Len(c.list)]
<1> DEFINE N == Len(c.list)
           body(f) == [n \in 0 .. N |->
                         IF n = 0 THEN {base}
                         ELSE UNION {ItemEdits(c, c.list[n], ts, donor) : ts \in f[n - 1]}]
           after == CHOOSE f : f = body(f)
<1>1. \A f : Runs(c, base, donor, f, N) <=> f = body(f)
  BY DEF Runs
<1>2. Edited(c, base, donor) = after[N]
  BY DEF Edited
<1>3. \E f : Runs(c, base, donor, f, N)
  BY RunsExist
<1>4. \E f : f = body(f)
  BY <1>1, <1>3
<1>5. after = body(after)
  <2> HIDE DEF body
  <2> QED BY <1>4
<1>6. Runs(c, base, donor, after, N)
  <2> HIDE DEF body, after
  <2> QED BY <1>1, <1>5
<1> QED BY <1>2, <1>6

-----------------------------------------------------------------------------
(* Tidy archives: members whose paths are lowercase, two of one name in a   *)
(* folder or not; no two TOCs with one alias.  There a lookup up to case    *)
(* finds what an exact one does.                                            *)

TidyTree(t) ==
  \A p \in DOMAIN t : t[p].files # <<>> => AllLowerPath(p) /\ AllLower(t[p].files)

Tidy(ts) ==
  /\ \A i, j \in DOMAIN ts : ts[i].alias = ts[j].alias => i = j
  /\ \A i \in DOMAIN ts : TidyTree(ts[i].tree)

\* The file found at a path: none, or the first there.
FirstNamed(table, name) ==
  IF Position(table, name) = 0 THEN {} ELSE {table[Position(table, name)]}

FileAt(t, rel) == FirstNamed(FilesIn(t, Front(rel)), Last(rel))

Have(ts, rel) == {i \in DOMAIN ts : FileAt(ts[i].tree, rel) # {}}

FirstAt(ts, rel) ==
  IF Have(ts, rel) = {} THEN {} ELSE FileAt(ts[Min(Have(ts, rel))].tree, rel)

LEMMA TidyFiles ==
  ASSUME NEW t, IsTree(t)
  PROVE  /\ \A p : FilesIn(t, p) \in Seq(Files)
         /\ TidyTree(t) => \A p : AllLower(FilesIn(t, p)) /\ (FilesIn(t, p) # <<>> => AllLowerPath(p))
         /\ (\A p : AllLower(FilesIn(t, p)) /\ (FilesIn(t, p) # <<>> => AllLowerPath(p))) => TidyTree(t)
<1>1. \A p \in DOMAIN t : t[p].files \in Seq(Files) /\ FilesIn(t, p) = t[p].files
  BY FolderParts DEF FilesIn
<1>2. \A p : p \notin DOMAIN t => FilesIn(t, p) = <<>>
  BY DEF FilesIn
<1>3. <<>> \in Seq(Files) /\ AllLower(<<>>)
  BY DEF AllLower
<1>4. TidyTree(t) => \A p : AllLower(FilesIn(t, p)) /\ (FilesIn(t, p) # <<>> => AllLowerPath(p))
  <2> SUFFICES ASSUME TidyTree(t), NEW p
               PROVE  AllLower(FilesIn(t, p)) /\ (FilesIn(t, p) # <<>> => AllLowerPath(p))
    OBVIOUS
  <2>1. CASE p \in DOMAIN t
    <3>1. CASE t[p].files = <<>>
      BY <1>1, <1>3, <2>1, <3>1
    <3>2. CASE t[p].files # <<>>
      BY <1>1, <2>1, <3>2 DEF TidyTree
    <3> QED BY <3>1, <3>2
  <2>2. CASE p \notin DOMAIN t
    BY <1>2, <1>3, <2>2
  <2> QED BY <2>1, <2>2
<1>5. (\A p : AllLower(FilesIn(t, p)) /\ (FilesIn(t, p) # <<>> => AllLowerPath(p))) => TidyTree(t)
  <2> SUFFICES ASSUME \A p : AllLower(FilesIn(t, p)) /\ (FilesIn(t, p) # <<>> => AllLowerPath(p)),
                      NEW p \in DOMAIN t, t[p].files # <<>>
               PROVE  AllLowerPath(p) /\ AllLower(t[p].files)
    BY DEF TidyTree
  <2> QED BY <1>1
<1>6. \A p : FilesIn(t, p) \in Seq(Files)
  BY <1>1, <1>2, <1>3
<1> QED BY <1>4, <1>5, <1>6

\* The first entry of a name, wherever it is.
LEMMA FirstNamedIs ==
  ASSUME NEW table \in Seq(Files), NEW name
  PROVE  /\ FirstNamed(table, name) = {} <=> \A i \in 1 .. Len(table) : table[i].name # name
         /\ \A n \in 1 .. Len(table) :
              table[n].name = name /\ (\A j \in 1 .. n - 1 : table[j].name # name)
                => FirstNamed(table, name) = {table[n]}
         /\ FirstNamed(table, name) # {} =>
              \E n \in 1 .. Len(table) :
                /\ n = Position(table, name) /\ table[n].name = name
                /\ \A j \in 1 .. n - 1 : table[j].name # name
                /\ FirstNamed(table, name) = {table[n]}
<1> DEFINE n == Position(table, name)
<1>1. /\ n \in 0 .. Len(table)
      /\ n = 0 => \A i \in 1 .. Len(table) : table[i].name # name
      /\ n # 0 => table[n].name = name
  BY PositionFound
<1>2. /\ n # 0 => \A j \in 1 .. n - 1 : table[j].name # name
      /\ \A k \in 1 .. Len(table) :
           table[k].name = name /\ (\A j \in 1 .. k - 1 : table[j].name # name) => n = k
  BY PositionIsFirst
<1>3. FirstNamed(table, name) = IF n = 0 THEN {} ELSE {table[n]}
  BY DEF FirstNamed
<1>4. n = Position(table, name)
  OBVIOUS
<1> HIDE DEF n
<1>5. FirstNamed(table, name) = {} <=> n = 0
  BY <1>3
<1>6. n = 0 <=> \A i \in 1 .. Len(table) : table[i].name # name
  BY <1>1
<1>7. ASSUME NEW k \in 1 .. Len(table), table[k].name = name, \A j \in 1 .. k - 1 : table[j].name # name
      PROVE  FirstNamed(table, name) = {table[k]}
  BY <1>2, <1>3, <1>7
<1>8. ASSUME n # 0
      PROVE  /\ n \in 1 .. Len(table) /\ table[n].name = name
             /\ \A j \in 1 .. n - 1 : table[j].name # name
             /\ FirstNamed(table, name) = {table[n]}
  BY <1>1, <1>2, <1>3, <1>8
<1> QED BY <1>4, <1>5, <1>6, <1>7, <1>8

\* insert_or_replace, name by name.
LEMMA TidyInsert ==
  ASSUME NEW table \in Seq(Files), NEW entry \in Files, AllLower(table), IsLower(entry.name),
         NEW r \in InsertOrReplace(table, entry)
  PROVE  /\ r \in Seq(Files) /\ AllLower(r)
         /\ \A name : FirstNamed(r, name) = IF name = entry.name THEN {entry} ELSE FirstNamed(table, name)
<1> DEFINE n == Position(table, entry.name)
<1>0. Named(Files)
  BY TablesAreNamed
<1>1. /\ n \in 0 .. Len(table)
      /\ n = 0 => \A i \in 1 .. Len(table) : table[i].name # entry.name
      /\ n # 0 => /\ table[n].name = entry.name
                  /\ \A j \in 1 .. n - 1 : table[j].name # entry.name
  BY PositionFound, PositionIsFirst
<1>2. CASE n # 0
  <2> HIDE DEF n
  <2>1. n \in 1 .. Len(table) /\ entry.name = table[n].name
    BY <1>1, <1>2
  <2>2. r = [table EXCEPT ![n] = entry]
    BY <1>2 DEF InsertOrReplace, n
  <2>3. n \in 1 .. Len(table) /\ entry.name.key = table[n].name.key
    BY <2>1
  <2>4. r \in Seq(Files) /\ AllLower(r)
    BY <1>0, <2>3, <2>2, OverwriteKeeps
  <2>5. Len(r) = Len(table) /\ r[n] = entry /\ \A j \in 1 .. Len(table) : j # n => r[j] = table[j]
    BY <1>0, <2>3, <2>2, OverwriteKeeps
  <2>6. /\ r \in Seq(Files) /\ Len(r) = Len(table) /\ AllLower(r) /\ r[n] = entry
        /\ \A j \in 1 .. Len(table) : j # n => r[j] = table[j]
    BY <2>4, <2>5
  <2>7. \A j \in 1 .. Len(table) : r[j].name = table[j].name
    BY <2>1, <2>6
  <2>8. FirstNamed(r, entry.name) = {entry}
    BY <1>1, <1>2, <2>1, <2>6, <2>7, FirstNamedIs
  <2>9. ASSUME NEW name, name # entry.name PROVE FirstNamed(r, name) = FirstNamed(table, name)
    <3>1. CASE FirstNamed(table, name) = {}
      <4>0. \A i \in 1 .. Len(table) : table[i].name # name
        BY <3>1, FirstNamedIs
      <4>1. \A i \in 1 .. Len(r) : r[i].name # name
        BY <2>6, <2>7, <4>0
      <4> QED BY <2>6, <3>1, <4>1, FirstNamedIs
    <3>2. CASE FirstNamed(table, name) # {}
      <4>1. PICK k \in 1 .. Len(table) :
              /\ table[k].name = name /\ \A j \in 1 .. k - 1 : table[j].name # name
              /\ FirstNamed(table, name) = {table[k]}
        BY <3>2, FirstNamedIs
      <4>2. k # n /\ r[k] = table[k]
        BY <2>1, <2>6, <2>9, <4>1
      <4>3. \A j \in 1 .. k - 1 : r[j].name # name
        BY <2>7, <4>1
      <4>4. FirstNamed(r, name) = {r[k]}
        BY <2>6, <4>1, <4>2, <4>3, FirstNamedIs
      <4> QED BY <4>1, <4>2, <4>4
    <3> QED BY <3>1, <3>2
  <2> QED BY <2>6, <2>8, <2>9
<1>3. CASE n = 0
  <2> HIDE DEF n
  <2>1. PICK at \in PartitionPoints(table, entry.name.key) : r = InsertAt(table, at + 1, entry)
    BY <1>3 DEF InsertOrReplace, n
  <2>2. r \in Seq(Files) /\ AllLower(r)
    BY <1>0, <2>1, InsertKeeps
  <2> DEFINE i == at + 1
  <2>3. i \in 1 .. Len(table) + 1 /\ Inserted(table, r, i, entry)
    <3>1. i \in 1 .. Len(table) + 1
      BY DEF PartitionPoints, Splits
    <3> QED BY <2>1, <3>1, InsertedThere
  <2> HIDE DEF i
  <2>4. /\ Len(r) = Len(table) + 1
        /\ \A j \in 1 .. Len(r) :
             r[j] = IF j < i THEN table[j] ELSE IF j = i THEN entry ELSE table[j - 1]
    BY <2>3 DEF Inserted
  <2>5. \A j \in 1 .. Len(table) : table[j].name # entry.name
    BY <1>1, <1>3
  <2>6. FirstNamed(r, entry.name) = {entry}
    <3>1. i \in 1 .. Len(r) /\ r[i] = entry
      BY <2>3, <2>4
    <3>2. \A j \in 1 .. i - 1 : r[j].name # entry.name
      BY <2>3, <2>4, <2>5
    <3> QED BY <2>2, <3>1, <3>2, FirstNamedIs
  <2>7. ASSUME NEW name, name # entry.name PROVE FirstNamed(r, name) = FirstNamed(table, name)
    <3>1. CASE FirstNamed(table, name) = {}
      <4>1. \A j \in 1 .. Len(table) : table[j].name # name
        BY <3>1, FirstNamedIs
      <4>2. ASSUME NEW j \in 1 .. Len(r) PROVE r[j].name # name
        <5>1. CASE j < i
          <6>1. j \in 1 .. Len(table) /\ r[j] = table[j]
            BY <2>3, <2>4, <5>1
          <6> QED BY <4>1, <6>1
        <5>2. CASE j = i
          BY <2>4, <2>7, <5>2
        <5>3. CASE j > i
          <6>1. j - 1 \in 1 .. Len(table) /\ r[j] = table[j - 1]
            BY <2>3, <2>4, <5>3
          <6> QED BY <4>1, <6>1
        <5> QED BY <2>3, <2>4, <5>1, <5>2, <5>3
      <4> QED BY <2>2, <3>1, <4>2, FirstNamedIs
    <3>2. CASE FirstNamed(table, name) # {}
      <4>1. PICK k \in 1 .. Len(table) :
              /\ table[k].name = name /\ \A j \in 1 .. k - 1 : table[j].name # name
              /\ FirstNamed(table, name) = {table[k]}
        BY <3>2, FirstNamedIs
      <4> DEFINE m == IF k < i THEN k ELSE k + 1
      <4>2. m \in 1 .. Len(r) /\ r[m] = table[k]
        BY <2>3, <2>4
      <4>3. ASSUME NEW j \in 1 .. m - 1 PROVE r[j].name # name
        <5>1. j \in 1 .. Len(r) /\ j < m
          BY <4>2
        <5>2. CASE j < i
          <6>1. j \in 1 .. k - 1 /\ r[j] = table[j]
            BY <2>3, <2>4, <5>1, <5>2
          <6> QED BY <4>1, <6>1
        <5>3. CASE j = i
          BY <2>4, <2>7, <5>1, <5>3
        <5>4. CASE j > i
          <6>1. j - 1 \in 1 .. k - 1 /\ r[j] = table[j - 1]
            BY <2>3, <2>4, <5>1, <5>4
          <6> QED BY <4>1, <6>1
        <5> QED BY <2>3, <5>1, <5>2, <5>3, <5>4
      <4> HIDE DEF m
      <4>4. FirstNamed(r, name) = {r[m]}
        BY <2>2, <4>1, <4>2, <4>3, FirstNamedIs
      <4> QED BY <4>1, <4>2, <4>4
    <3> QED BY <3>1, <3>2
  <2> QED BY <2>2, <2>6, <2>7
<1> QED BY <1>2, <1>3

\* insert_or_replace in a tree puts a file at its path and touches no other.
LEMMA TidyTreeInsert ==
  ASSUME NEW t, IsTree(t), TidyTree(t), NEW rel \in Seq(Names) \ {<<>>},
         NEW file \in Files, file.name = Last(rel), NEW w \in InsertInTree(t, rel, file)
  PROVE  /\ IsTree(w) /\ TidyTree(w)
         /\ \A other \in Seq(Names) \ {<<>>} :
              FileAt(w, other) = IF other = LowerPath(rel) THEN {[file EXCEPT !.name = Lower(@)]}
                                 ELSE FileAt(t, other)
<1> DEFINE dirs  == Dirs(rel)
           entry == [file EXCEPT !.name = Lower(@)]
           old   == FilesIn(t, dirs)
<1>1. PICK table \in InsertOrReplace(old, entry) : table \in Seq(Files) /\ TreeWith(t, w, dirs, table)
  BY InsertPlaces
<1>2. entry \in Files /\ entry.name = Lower(Last(rel)) /\ IsLower(entry.name)
  BY LoweredFile
<1>3. AllLowerPath(dirs)
  BY DirsAreLower DEF AllLowerPath
<1>4. old \in Seq(Files) /\ AllLower(old)
  BY TidyFiles
<1> HIDE DEF dirs, entry, old
<1>5. /\ AllLower(table)
      /\ \A name : FirstNamed(table, name) = IF name = entry.name THEN {entry} ELSE FirstNamed(old, name)
  BY <1>1, <1>2, <1>4, TidyInsert
<1>6. IsTree(w) /\ \A p : FilesIn(w, p) = IF p = dirs THEN table ELSE FilesIn(t, p)
  BY <1>1 DEF TreeWith
<1>7. TidyTree(w)
  <2>1. \A p : AllLower(FilesIn(t, p)) /\ (FilesIn(t, p) # <<>> => AllLowerPath(p))
    BY TidyFiles
  <2>2. \A p : AllLower(FilesIn(w, p)) /\ (FilesIn(w, p) # <<>> => AllLowerPath(p))
    BY <1>3, <1>5, <1>6, <2>1
  <2> QED BY <1>6, <2>2, TidyFiles
<1>8. ASSUME NEW other \in Seq(Names) \ {<<>>}
      PROVE  FileAt(w, other) = IF other = LowerPath(rel) THEN {entry} ELSE FileAt(t, other)
  <2>1. other = LowerPath(rel) <=> Front(other) = dirs /\ Last(other) = entry.name
    BY <1>2, LoweredPathIs DEF dirs
  <2>2. CASE Front(other) # dirs
    BY <1>6, <2>1, <2>2 DEF FileAt
  <2>3. CASE Front(other) = dirs
    <3>1. FilesIn(w, dirs) = table /\ old = FilesIn(t, dirs)
      BY <1>6 DEF old
    <3>2. FileAt(w, other) = IF Last(other) = entry.name THEN {entry} ELSE FileAt(t, other)
      BY <1>5, <2>3, <3>1 DEF FileAt
    <3> QED BY <2>1, <2>3, <3>2
  <2> QED BY <2>2, <2>3
<1> QED BY <1>6, <1>7, <1>8 DEF entry

LEMMA EmptyHasNone == \A name : FirstNamed(<<>>, name) = {}
<1> SUFFICES ASSUME NEW name PROVE FirstNamed(<<>>, name) = {}
  OBVIOUS
<1>1. <<>> \in Seq(Files) /\ Len(<<>>) = 0
  OBVIOUS
<1>2. Position(<<>>, name) \in 0 .. Len(<<>>)
  BY <1>1, PositionFound
<1>3. Position(<<>>, name) = 0
  BY <1>1, <1>2
<1> QED BY <1>3 DEF FirstNamed

\* An empty tree has no file.
LEMMA EmptyTreeTidy ==
  IsTree(EmptyTree) /\ TidyTree(EmptyTree) /\ \A rel : FileAt(EmptyTree, rel) = {}
<1>1. IsTree(EmptyTree)
  BY EmptyTreeSound
<1>2. \A p : FilesIn(EmptyTree, p) = <<>>
  BY DEF FilesIn, EmptyTree, EmptyFolder
<1>3. TidyTree(EmptyTree)
  BY DEF TidyTree, EmptyTree, EmptyFolder
<1>4. \A name : FirstNamed(<<>>, name) = {}
  BY EmptyHasNone
<1> QED BY <1>1, <1>2, <1>3, <1>4 DEF FileAt

\* In w, TOC k has the file at rel, and all else is as in ts.
PutAt(ts, w, k, rel, file) ==
  \A i \in DOMAIN w : \A other \in Seq(Names) \ {<<>>} :
    FileAt(w[i].tree, other) = IF i = k /\ other = rel THEN {file}
                               ELSE IF i \in DOMAIN ts THEN FileAt(ts[i].tree, other) ELSE {}

\* upsert_stored_in puts a file at its path in one TOC, an old one or a last
\* one, and touches no other path and no other TOC.
LEMMA TidyUpsert ==
  ASSUME NEW ts, IsArchive(ts), Tidy(ts), NEW alias \in Aliases, NEW rel \in Seq(Names) \ {<<>>},
         NEW d \in Data, NEW w \in UpsertIn(ts, alias, rel, d)
  PROVE  /\ IsArchive(w) /\ Tidy(w) /\ DOMAIN ts \subseteq DOMAIN w
         /\ \E k \in DOMAIN w :
              /\ \A i \in DOMAIN ts : ts[i].alias = alias => i = k
              /\ PutAt(ts, w, k, LowerPath(rel), [StoredFile(Last(rel), d) EXCEPT !.name = Lower(@)])
<1> DEFINE with == GetOrCreateToc(ts, alias)
           k    == TocIndex(with, alias)
           file == StoredFile(Last(rel), d)
<1>1. PICK t \in InsertInTree(with[k].tree, rel, file) : w = [with EXCEPT ![k].tree = t]
  BY DEF UpsertIn
<1>2. file \in Files /\ file.name = Last(rel)
  BY LastIsName, StoredFileTyped
<1>3. with = GetOrCreateToc(ts, alias)
  OBVIOUS
<1>4. DOMAIN ts = 1 .. Len(ts) /\ DOMAIN ts \subseteq Nat
  BY TocParts
<1> HIDE DEF with, file
<1>5. /\ IsArchive(with) /\ k \in DOMAIN with /\ with[k].alias = alias
      /\ DOMAIN ts \subseteq DOMAIN with /\ \A i \in DOMAIN ts : with[i] = ts[i]
  BY <1>3, <1>4, TocObtained
<1>6. \A i \in DOMAIN with \ DOMAIN ts : with[i] = [alias |-> alias, tree |-> EmptyTree] /\ k = i
  BY <1>3, <1>4, TocObtained
<1> HIDE DEF k
<1>7. /\ \A i \in DOMAIN with : IsTree(with[i].tree) /\ TidyTree(with[i].tree)
      /\ \A i \in DOMAIN with \ DOMAIN ts : \A other : FileAt(with[i].tree, other) = {}
  <2>1. \A i \in DOMAIN with \ DOMAIN ts : with[i].tree = EmptyTree
    BY <1>6
  <2>2. \A i \in DOMAIN with : IsTree(with[i].tree)
    BY <1>5, TocParts
  <2>3. \A i \in DOMAIN ts : TidyTree(with[i].tree)
    BY <1>5 DEF Tidy
  <2> QED BY <2>1, <2>2, <2>3, EmptyTreeTidy
<1>8. \A i, j \in DOMAIN with : with[i].alias = with[j].alias => i = j
  <2> SUFFICES ASSUME NEW i \in DOMAIN with, NEW j \in DOMAIN with, with[i].alias = with[j].alias
               PROVE  i = j
    OBVIOUS
  <2>1. CASE i \in DOMAIN ts /\ j \in DOMAIN ts
    BY <1>5, <2>1 DEF Tidy
  <2>2. ASSUME NEW m \in DOMAIN ts, DOMAIN with # DOMAIN ts PROVE with[m].alias # alias
    <3>1. TocIndex(ts, alias) = 0
      <4>1. with # ts
        BY <2>2
      <4> QED BY <4>1 DEF with, GetOrCreateToc
    <3>2. ts \in Seq(Range(ts))
      BY TocParts
    <3>3. ts[m].alias # alias
      BY <1>4, <3>1, <3>2, TocIndexFound
    <3> QED BY <1>5, <3>3
  <2>3. CASE i \notin DOMAIN ts /\ j \notin DOMAIN ts
    BY <1>6, <2>3
  <2>4. CASE i \notin DOMAIN ts /\ j \in DOMAIN ts
    BY <1>6, <2>2, <2>4
  <2>5. CASE i \in DOMAIN ts /\ j \notin DOMAIN ts
    BY <1>6, <2>2, <2>5
  <2> QED BY <2>1, <2>3, <2>4, <2>5
<1>9. /\ IsTree(t) /\ TidyTree(t)
      /\ \A other \in Seq(Names) \ {<<>>} :
           FileAt(t, other) = IF other = LowerPath(rel) THEN {[file EXCEPT !.name = Lower(@)]}
                              ELSE FileAt(with[k].tree, other)
  <2>1. IsTree(with[k].tree) /\ TidyTree(with[k].tree)
    BY <1>5, <1>7
  <2> QED BY <1>1, <1>2, <2>1, TidyTreeInsert
<1>10. /\ IsArchive(w) /\ DOMAIN w = DOMAIN with
       /\ \A j \in DOMAIN with : /\ w[j].alias = with[j].alias
                                 /\ w[j].tree = IF j = k THEN t ELSE with[j].tree
  <2>1. IsArchive(with) /\ k \in DOMAIN with /\ IsTree(t) /\ w = [with EXCEPT ![k].tree = t]
    BY <1>1, <1>5, <1>9
  <2>2. IsArchive(w)
    BY <2>1, TreeReplaced
  <2>3. DOMAIN w = DOMAIN with
    BY <2>1, TreeReplaced
  <2>4. \A j \in DOMAIN with : w[j].alias = with[j].alias
    BY <2>1, TreeReplaced
  <2>5. \A j \in DOMAIN with : w[j].tree = IF j = k THEN t ELSE with[j].tree
    BY <2>1, TreeReplaced
  <2> QED BY <2>2, <2>3, <2>4, <2>5
<1>11. Tidy(w)
  BY <1>7, <1>8, <1>9, <1>10 DEF Tidy
<1>12. \A i \in DOMAIN ts : ts[i].alias = alias => i = k
  BY <1>5, <1>8
<1>13. ASSUME NEW i \in DOMAIN w, NEW other \in Seq(Names) \ {<<>>}
       PROVE  FileAt(w[i].tree, other) =
                IF i = k /\ other = LowerPath(rel) THEN {[file EXCEPT !.name = Lower(@)]}
                ELSE IF i \in DOMAIN ts THEN FileAt(ts[i].tree, other) ELSE {}
  <2>1. FileAt(with[i].tree, other) = IF i \in DOMAIN ts THEN FileAt(ts[i].tree, other) ELSE {}
    BY <1>5, <1>7, <1>10
  <2> QED BY <1>9, <1>10, <2>1
<1>14. k \in DOMAIN w /\ PutAt(ts, w, k, LowerPath(rel), [file EXCEPT !.name = Lower(@)])
  BY <1>5, <1>10, <1>13 DEF PutAt
<1> QED BY <1>5, <1>10, <1>11, <1>12, <1>14 DEF file

LEMMA FirstAtIs ==
  ASSUME NEW ts, IsArchive(ts), NEW rel
  PROVE  \/ FirstAt(ts, rel) = {} /\ \A i \in DOMAIN ts : FileAt(ts[i].tree, rel) = {}
         \/ \E i \in DOMAIN ts :
              /\ FirstAt(ts, rel) = FileAt(ts[i].tree, rel) /\ FileAt(ts[i].tree, rel) # {}
              /\ i = Min(Have(ts, rel))
              /\ \A j \in DOMAIN ts : j < i => FileAt(ts[j].tree, rel) = {}
<1> DEFINE H == Have(ts, rel)
<1>1. DOMAIN ts = 1 .. Len(ts) /\ DOMAIN ts \subseteq Nat
  BY TocParts
<1>2. \A i : i \in H <=> i \in DOMAIN ts /\ FileAt(ts[i].tree, rel) # {}
  BY DEF Have
<1>3. CASE H = {}
  BY <1>2, <1>3 DEF FirstAt
<1>4. CASE H # {}
  <2>1. H \subseteq Nat
    BY <1>1, <1>2
  <2>2. Min(H) \in H /\ \A j \in H : Min(H) <= j
    <3> HIDE DEF H
    <3>1. \E n \in H : \A m \in H : n <= m
      BY <1>4, <2>1, LeastNatural
    <3> QED BY <3>1 DEF Min
  <2>3. FirstAt(ts, rel) = FileAt(ts[Min(H)].tree, rel)
    BY <1>4 DEF FirstAt
  <2>4. \A j \in DOMAIN ts : j < Min(H) => FileAt(ts[j].tree, rel) = {}
    <3> HIDE DEF H
    <3> QED BY <1>1, <1>2, <2>1, <2>2
  <2> HIDE DEF H
  <2>5. Min(H) \in DOMAIN ts /\ FileAt(ts[Min(H)].tree, rel) # {}
    BY <1>2, <2>2
  <2> QED BY <2>3, <2>4, <2>5 DEF H
<1> QED BY <1>3, <1>4

\* The first of a path is where its TOCs tell, and TOCs without it are nothing.
LEMMA FirstAtAt ==
  ASSUME NEW ts, IsArchive(ts), NEW rel, NEW i \in DOMAIN ts, FileAt(ts[i].tree, rel) # {},
         \A j \in DOMAIN ts : j < i => FileAt(ts[j].tree, rel) = {}
  PROVE  FirstAt(ts, rel) = FileAt(ts[i].tree, rel) /\ i = Min(Have(ts, rel))
<1>1. DOMAIN ts \subseteq Nat
  BY TocParts
<1>2. PICK k \in DOMAIN ts :
        /\ FirstAt(ts, rel) = FileAt(ts[k].tree, rel) /\ FileAt(ts[k].tree, rel) # {}
        /\ k = Min(Have(ts, rel))
        /\ \A j \in DOMAIN ts : j < k => FileAt(ts[j].tree, rel) = {}
  BY FirstAtIs
<1>3. k = i
  BY <1>1, <1>2
<1> QED BY <1>2, <1>3

LEMMA FirstAtSame ==
  ASSUME NEW ts, IsArchive(ts), NEW w, IsArchive(w), NEW rel, DOMAIN ts \subseteq DOMAIN w,
         \A i \in DOMAIN w : FileAt(w[i].tree, rel)
                               = IF i \in DOMAIN ts THEN FileAt(ts[i].tree, rel) ELSE {}
  PROVE  FirstAt(w, rel) = FirstAt(ts, rel)
<1>1. CASE FirstAt(w, rel) = {} /\ \A i \in DOMAIN w : FileAt(w[i].tree, rel) = {}
  BY <1>1, FirstAtIs
<1>2. CASE \E i \in DOMAIN w :
             /\ FirstAt(w, rel) = FileAt(w[i].tree, rel) /\ FileAt(w[i].tree, rel) # {}
             /\ \A j \in DOMAIN w : j < i => FileAt(w[j].tree, rel) = {}
  <2>1. PICK i \in DOMAIN w :
             /\ FirstAt(w, rel) = FileAt(w[i].tree, rel) /\ FileAt(w[i].tree, rel) # {}
             /\ \A j \in DOMAIN w : j < i => FileAt(w[j].tree, rel) = {}
    BY <1>2
  <2>2. i \in DOMAIN ts /\ FileAt(ts[i].tree, rel) = FileAt(w[i].tree, rel)
    BY <2>1
  <2>3. \A j \in DOMAIN ts : j < i => FileAt(ts[j].tree, rel) = {}
    BY <2>1
  <2>4. FirstAt(ts, rel) = FileAt(ts[i].tree, rel)
    BY <2>1, <2>2, <2>3, FirstAtAt
  <2> QED BY <2>1, <2>2, <2>4
<1> QED BY <1>1, <1>2, FirstAtIs

\* Sorting moves files within their tables only.
LEMMA SortedArchive ==
  ASSUME NEW ts, IsArchive(ts)
  PROVE  /\ IsArchive(SortArchive(ts)) /\ DOMAIN SortArchive(ts) = DOMAIN ts
         /\ \A i \in DOMAIN ts : /\ SortArchive(ts)[i].alias = ts[i].alias
                                 /\ SortArchive(ts)[i].tree = SortTree(ts[i].tree)
<1> DEFINE g == [i \in DOMAIN ts |-> SortTree(ts[i].tree)]
           w == SortArchive(ts)
<1>1. \A i \in DOMAIN ts : g[i] = SortTree(ts[i].tree) /\ IsTree(g[i])
  BY TocParts, SortTreeKeeps
<1>2. w = [i \in DOMAIN ts |-> [ts[i] EXCEPT !.tree = g[i]]]
  BY DEF SortArchive
<1> HIDE DEF g, w
<1>3. IsArchive(w)
  BY <1>1, <1>2, TreesMapped
<1>4. DOMAIN w = DOMAIN ts
  BY <1>2
<1>5. \A i \in DOMAIN ts : w[i].alias = ts[i].alias
  BY <1>1, <1>2, TreesMapped
<1>6. \A i \in DOMAIN ts : w[i].tree = g[i]
  BY <1>1, <1>2, TreesMapped
<1> QED BY <1>1, <1>3, <1>4, <1>5, <1>6 DEF w

\* The sort is stable: the first of a name stays the first.
LEMMA SortFindsFirst ==
  ASSUME NEW a \in Seq(Files), NEW name
  PROVE  FirstNamed(SortTable(a), name) = FirstNamed(a, name)
<1> DEFINE b == SortTable(a)
<1>1. b \in Seq(Files)
  BY SortKeeps, TablesAreNamed
<1>2. PICK e : PickedFrom(a, b, e) /\ \A i \in 1 .. Len(a) : \E k \in 1 .. Len(b) : e[k] = i
  BY SortPicks
<1> HIDE DEF b
<1>3. /\ \A k \in 1 .. Len(b) : e[k] \in 1 .. Len(a) /\ b[k] = a[e[k]]
      /\ \A k, l \in 1 .. Len(b) : k < l /\ b[k].name.key = b[l].name.key => e[k] < e[l]
  BY <1>2 DEF PickedFrom
<1>4. CASE FirstNamed(a, name) = {}
  <2>1. \A i \in 1 .. Len(a) : a[i].name # name
    BY <1>4, FirstNamedIs
  <2>2. ASSUME NEW k \in 1 .. Len(b) PROVE b[k].name # name
    <3>1. e[k] \in 1 .. Len(a) /\ b[k] = a[e[k]]
      BY <1>3
    <3> QED BY <2>1, <3>1
  <2> QED BY <1>1, <1>4, <2>2, FirstNamedIs DEF b
<1>5. CASE FirstNamed(a, name) # {}
  <2>1. PICK n \in 1 .. Len(a) :
          /\ a[n].name = name /\ \A j \in 1 .. n - 1 : a[j].name # name
          /\ FirstNamed(a, name) = {a[n]}
    BY <1>5, FirstNamedIs
  <2>2. PICK k \in 1 .. Len(b) : e[k] = n
    BY <1>2
  <2>3. b[k] = a[n]
    BY <1>3, <2>2
  <2>4. ASSUME NEW l \in 1 .. k - 1, b[l].name = name PROVE FALSE
    <3>1. l \in 1 .. Len(b) /\ l < k
      BY <1>1
    <3>2. e[l] \in 1 .. Len(a) /\ e[l] < n /\ a[e[l]].name = name
      BY <1>3, <2>1, <2>2, <2>3, <2>4, <3>1
    <3> QED BY <2>1, <3>2
  <2>5. FirstNamed(b, name) = {b[k]}
    BY <1>1, <2>1, <2>3, <2>4, FirstNamedIs
  <2> QED BY <2>1, <2>3, <2>5 DEF b
<1> QED BY <1>4, <1>5

LEMMA SortedTree ==
  ASSUME NEW t, IsTree(t)
  PROVE  /\ TidyTree(t) => TidyTree(SortTree(t))
         /\ \A rel : FileAt(SortTree(t), rel) = FileAt(t, rel)
<1>1. IsTree(SortTree(t)) /\ DOMAIN SortTree(t) = DOMAIN t
  BY SortTreeKeeps DEF SortTree
<1>2. \A p \in DOMAIN t : SortTree(t)[p].files = SortTable(t[p].files)
  BY DEF SortTree
<1>3. ASSUME NEW p \in DOMAIN t
      PROVE  /\ AllLower(t[p].files) => AllLower(SortTree(t)[p].files)
             /\ SortTree(t)[p].files # <<>> => t[p].files # <<>>
             /\ \A name : FirstNamed(SortTree(t)[p].files, name) = FirstNamed(t[p].files, name)
  <2> DEFINE a == t[p].files
             b == SortTable(t[p].files)
  <2>1. a \in Seq(Files) /\ Named(Files)
    BY FolderParts, TablesAreNamed
  <2> HIDE DEF a
  <2>2. /\ b \in Seq(Files) /\ (AllLower(a) => AllLower(b))
        /\ KeepsEntries(a, b) /\ KeepsEntries(b, a)
    BY <2>1, SortKeeps DEF a
  <2>3. \A name : FirstNamed(b, name) = FirstNamed(a, name)
    BY <2>1, SortFindsFirst DEF a
  <2> HIDE DEF b
  <2>4. b # <<>> => a # <<>>
    BY <2>1, <2>2 DEF KeepsEntries
  <2> QED BY <1>2, <2>2, <2>3, <2>4 DEF a, b
<1>4. TidyTree(t) => TidyTree(SortTree(t))
  BY <1>1, <1>3 DEF TidyTree
<1>5. ASSUME NEW rel PROVE FileAt(SortTree(t), rel) = FileAt(t, rel)
  <2>1. \A name : FirstNamed(FilesIn(SortTree(t), Front(rel)), name) = FirstNamed(FilesIn(t, Front(rel)), name)
    BY <1>1, <1>3 DEF FilesIn
  <2> QED BY <2>1 DEF FileAt
<1> QED BY <1>4, <1>5

LEMMA TidySorted ==
  ASSUME NEW ts, IsArchive(ts), Tidy(ts)
  PROVE  /\ Tidy(SortArchive(ts)) /\ DOMAIN SortArchive(ts) = DOMAIN ts
         /\ \A rel : FirstAt(SortArchive(ts), rel) = FirstAt(ts, rel)
         /\ \A i \in DOMAIN ts : \A rel : FileAt(SortArchive(ts)[i].tree, rel) = FileAt(ts[i].tree, rel)
<1> DEFINE w == SortArchive(ts)
<1>1. IsArchive(w) /\ DOMAIN w = DOMAIN ts /\ \A i \in DOMAIN ts : w[i].alias = ts[i].alias /\ w[i].tree = SortTree(ts[i].tree)
  BY SortedArchive
<1> HIDE DEF w
<1>2. \A i \in DOMAIN ts : /\ TidyTree(w[i].tree)
                           /\ \A rel : FileAt(w[i].tree, rel) = FileAt(ts[i].tree, rel)
  BY <1>1, SortedTree, TocParts DEF Tidy
<1>3. Tidy(w)
  BY <1>1, <1>2 DEF Tidy
<1>4. \A rel : FirstAt(w, rel) = FirstAt(ts, rel)
  BY <1>1, <1>2, FirstAtSame
<1> QED BY <1>1, <1>2, <1>3, <1>4 DEF w

\* In a tidy tree, what matches a path up to case has the folded path.
LEMMA TidyMatch ==
  ASSUME NEW t, IsTree(t), TidyTree(t), NEW rel \in Seq(Names) \ {<<>>}
  PROVE  /\ \A p, k : Matching(t, rel, p, k) =>
              Append(p, t[p].files[k].name) = LowerPath(rel) /\ FileAt(t, LowerPath(rel)) # {}
         /\ FileAt(t, LowerPath(rel)) # {} => Matches(t, rel) # {}
<1> DEFINE low == LowerPath(rel)
<1>1. low \in Seq(Names) \ {<<>>} /\ Front(low) = Dirs(rel) /\ Last(low) = Lower(Last(rel))
  BY LoweredPathIs
<1>2. Last(rel) \in Names /\ Dirs(rel) \in Seq(Names) /\ AllLowerPath(Dirs(rel)) /\ Len(Dirs(rel)) = Len(rel) - 1
  <2>1. Len(rel) \in Nat /\ Len(rel) # 0
    OBVIOUS
  <2>2. Len(Dirs(rel)) = Len(rel) - 1
    BY <2>1 DEF Dirs
  <2> QED BY <2>2, LastIsName, DirsAreLower DEF AllLowerPath
<1>3. \A i \in 1 .. Len(rel) - 1 : Dirs(rel)[i].key = rel[i].key
  <2> SUFFICES ASSUME NEW i \in 1 .. Len(rel) - 1 PROVE Dirs(rel)[i].key = rel[i].key
    OBVIOUS
  <2>1. Dirs(rel)[i] = Lower(rel[i]) /\ rel[i] \in Names
    BY DEF Dirs
  <2> QED BY <2>1, LowerIsLower
<1>4. Lower(Last(rel)) \in Names /\ Lower(Last(rel)).key = Last(rel).key /\ IsLower(Lower(Last(rel)))
  BY <1>2, LowerIsLower
<1> HIDE DEF low
<1>5. ASSUME NEW p, NEW k, Matching(t, rel, p, k)
      PROVE  Append(p, t[p].files[k].name) = low /\ FileAt(t, low) # {}
  <2> DEFINE table == t[p].files
  <2>1. p \in DOMAIN t /\ p \in Seq(Names) /\ table \in Seq(Files) /\ FilesIn(t, p) = table
    BY <1>5, FolderParts DEF Matching, FilesIn
  <2> HIDE DEF table
  <2>2. k \in 1 .. Len(table) /\ table # <<>> /\ table[k].name.key = Last(rel).key /\ DOMAIN table = 1 .. Len(table)
    BY <1>5, <2>1 DEF Matching, table
  <2>3. AllLower(table) /\ AllLowerPath(p)
    BY <2>1, <2>2, TidyFiles
  <2>4. Len(p) = Len(Dirs(rel)) /\ \A i \in 1 .. Len(p) : p[i] = Dirs(rel)[i]
    <3>1. Len(p) = Len(rel) - 1 /\ \A i \in 1 .. Len(p) : p[i].key = rel[i].key
      BY <1>5, <2>1 DEF Matching
    <3>2. ASSUME NEW i \in 1 .. Len(p) PROVE p[i] = Dirs(rel)[i]
      <4>1. p[i] \in Names /\ Dirs(rel)[i] \in Names /\ p[i].key = Dirs(rel)[i].key
        BY <1>2, <1>3, <2>1, <3>1
      <4>2. IsLower(p[i]) /\ IsLower(Dirs(rel)[i])
        BY <1>2, <2>3, <3>1 DEF AllLowerPath
      <4> QED BY <4>1, <4>2, LowerNamesByKey
    <3> QED BY <1>2, <3>1, <3>2
  <2>5. p = Dirs(rel)
    BY <1>2, <2>1, <2>4, SeqEqual
  <2>6. table[k] \in Files /\ table[k].name \in Names /\ table[k].name = Lower(Last(rel))
    <3>1. table[k] \in Files /\ table[k].name \in Names /\ IsLower(table[k].name)
      BY <2>1, <2>2, <2>3, TablesAreNamed DEF AllLower, Named
    <3> QED BY <1>4, <2>2, <3>1, LowerNamesByKey
  <2>7. FileAt(t, low) # {}
    <3>1. FirstNamed(table, table[k].name) # {}
      BY <2>1, <2>2, FirstNamedIs
    <3> QED BY <1>1, <2>1, <2>5, <2>6, <3>1 DEF FileAt
  <2>8. Append(p, table[k].name) = low
    <3>1. Append(Front(low), Last(low)) = low
      BY <1>1, FrontAndLast
    <3> QED BY <1>1, <2>5, <2>6, <3>1
  <2> QED BY <2>7, <2>8 DEF table
<1>6. ASSUME FileAt(t, low) # {} PROVE Matches(t, rel) # {}
  <2> DEFINE p == Dirs(rel)
             table == FilesIn(t, p)
  <2>1. table \in Seq(Files) /\ FirstNamed(table, Lower(Last(rel))) # {}
    BY <1>1, <1>6, TidyFiles DEF FileAt
  <2>2. p \in DOMAIN t /\ table = t[p].files
    BY <2>1, EmptyHasNone DEF FilesIn
  <2>3. PICK k \in DOMAIN table : table[k].name = Lower(Last(rel))
    BY <2>1, FirstNamedIs
  <2>4. Matching(t, rel, p, k)
    <3>1. DOMAIN p = 1 .. Len(rel) - 1
      BY <1>2
    <3> QED BY <1>2, <1>3, <1>4, <2>1, <2>2, <2>3, <3>1 DEF Matching
  <2> QED BY <2>4, MatchParts
<1> QED BY <1>5, <1>6 DEF low

LEMMA TidyHolders ==
  ASSUME NEW ts, IsArchive(ts), Tidy(ts), NEW rel \in Seq(Names) \ {<<>>}
  PROVE  FoldedHolders(ts, rel) = Have(ts, LowerPath(rel))
<1>1. ASSUME NEW i \in DOMAIN ts
      PROVE  Matches(ts[i].tree, rel) # {} <=> FileAt(ts[i].tree, LowerPath(rel)) # {}
  <2> DEFINE t == ts[i].tree
  <2>1. IsTree(t) /\ TidyTree(t)
    BY TocParts DEF Tidy
  <2> HIDE DEF t
  <2>2. Matches(t, rel) # {} => FileAt(t, LowerPath(rel)) # {}
    <3> SUFFICES ASSUME NEW s \in Matches(t, rel) PROVE FileAt(t, LowerPath(rel)) # {}
      OBVIOUS
    <3>1. Matching(t, rel, s[1], s[2])
      BY MatchParts
    <3> QED BY <2>1, <3>1, TidyMatch
  <2> QED BY <2>1, <2>2, TidyMatch DEF t
<1> QED BY <1>1 DEF FoldedHolders, Have

\* In a tidy archive a lookup of a lowercase path finds the first file there.
LEMMA TidyFind ==
  ASSUME NEW ts, IsArchive(ts), Tidy(ts), NEW rel \in Seq(Names) \ {<<>>}, rel = LowerPath(rel)
  PROVE  FindMember(ts, rel) = FirstAt(ts, rel)
<1> DEFINE exact == {i \in DOMAIN ts :
                       /\ Front(rel) \in DOMAIN ts[i].tree
                       /\ Position(ts[i].tree[Front(rel)].files, Last(rel)) # 0}
<1>1. ASSUME NEW i \in DOMAIN ts
      PROVE  /\ i \in exact <=> FileAt(ts[i].tree, rel) # {}
             /\ i \in exact => FileAt(ts[i].tree, rel)
                    = {ts[i].tree[Front(rel)].files[Position(ts[i].tree[Front(rel)].files, Last(rel))]}
  <2> DEFINE t == ts[i].tree
             table == t[Front(rel)].files
             n == Position(table, Last(rel))
  <2>1. IsTree(t) /\ TidyTree(t)
    BY TocParts DEF Tidy
  <2>2. i \in exact <=> Front(rel) \in DOMAIN t /\ n # 0
    OBVIOUS
  <2> HIDE DEF t, exact, n
  <2>3. CASE Front(rel) \notin DOMAIN t
    BY <2>2, <2>3, EmptyHasNone DEF FileAt, FilesIn, t
  <2>4. CASE Front(rel) \in DOMAIN t
    <3>1. FilesIn(t, Front(rel)) = table
      BY <2>4 DEF FilesIn
    <3> HIDE DEF table
    <3>2. FileAt(t, rel) = IF n = 0 THEN {} ELSE {table[n]}
      BY <3>1 DEF FileAt, FirstNamed, n
    <3> QED BY <2>2, <2>4, <3>2 DEF t, table, n
  <2> QED BY <2>3, <2>4
<1>2. exact = Have(ts, rel)
  <2>1. \A i : i \in exact => i \in DOMAIN ts
    OBVIOUS
  <2> HIDE DEF exact
  <2> QED BY <1>1, <2>1 DEF Have
<1>3. CASE exact = {}
  <2>1. FindMember(ts, rel) = FoundIn(ts, rel)
    BY <1>3 DEF FindMember
  <2>2. FoldedHolders(ts, rel) = {}
    BY <1>2, <1>3, TidyHolders
  <2> QED BY <1>2, <1>3, <2>1, <2>2 DEF FoundIn, FirstAt
<1>4. CASE exact # {}
  <2> DEFINE i == Min(exact)
  <2>1. FindMember(ts, rel) = {ts[i].tree[Front(rel)].files[Position(ts[i].tree[Front(rel)].files, Last(rel))]}
    BY <1>4 DEF FindMember
  <2>2. exact \subseteq Nat
    <3>1. DOMAIN ts \subseteq Nat
      BY TocParts
    <3> QED BY <3>1
  <2> HIDE DEF exact
  <2>3. i \in exact
    BY <1>4, <2>2, MinFound
  <2>4. i \in DOMAIN ts
    BY <2>3 DEF exact
  <2>5. FirstAt(ts, rel) = FileAt(ts[i].tree, rel)
    BY <1>2, <1>4 DEF FirstAt
  <2> QED BY <1>1, <2>1, <2>3, <2>4, <2>5
<1> QED BY <1>3, <1>4

-----------------------------------------------------------------------------
(* The edits of a command on a tidy archive.                               *)

\* Contents that an item gives its member, in one TOC or as the first found.
PutsSomewhere(w, rel, content) ==
  \E i \in DOMAIN w : \E file \in FileAt(w[i].tree, rel) : file.data \in content

PutsFirst(w, rel, content) == \E file \in FirstAt(w, rel) : file.data \in content

\* An item changes what is found at its own path only: one TOC has its contents
\* there, and if it replaces or sets the member, the first that has the path.
LEMMA ItemFirst ==
  ASSUME NEW c, NEW item, NEW ts, NEW donor, IsEdit(c, item, ts, donor), Tidy(ts),
         NEW w \in ItemEdits(c, item, ts, donor)
  PROVE  /\ IsArchive(w) /\ Tidy(w)
         /\ \A other \in Members : other # LowerPath(item.member) =>
              /\ FirstAt(w, other) = FirstAt(ts, other)
              /\ \A i \in DOMAIN ts : i \in DOMAIN w /\ FileAt(w[i].tree, other) = FileAt(ts[i].tree, other)
         /\ PutsSomewhere(w, LowerPath(item.member), ContentFor(c, item, donor))
         /\ c.kind \in {"replace", "set"} =>
              PutsFirst(w, LowerPath(item.member), ContentFor(c, item, donor))
<1> DEFINE low     == LowerPath(item.member)
           content == ContentFor(c, item, donor)
<1>1. PICK alias \in AliasFor(c, item, ts, donor), d \in ContentFor(c, item, donor) :
        w \in UpsertIn(ts, alias, item.member, d)
  BY ItemEditIs
<1>2. alias \in Aliases /\ d \in Data
  BY <1>1, AliasTyped, ContentTyped
<1>3. IsArchive(ts) /\ item.member \in Seq(Names) \ {<<>>} /\ low \in Seq(Names) \ {<<>>}
  BY LoweredPathIs DEF IsEdit, IsItem, Members
<1> DEFINE entry == [StoredFile(Last(item.member), d) EXCEPT !.name = Lower(@)]
<1>4. IsArchive(w) /\ Tidy(w) /\ DOMAIN ts \subseteq DOMAIN w
  BY <1>1, <1>2, <1>3, TidyUpsert
<1>5. PICK k \in DOMAIN w :
        (\A i \in DOMAIN ts : ts[i].alias = alias => i = k) /\ PutAt(ts, w, k, low, entry)
  BY <1>1, <1>2, <1>3, TidyUpsert
<1>6. entry.data = d
  <2>1. StoredFile(Last(item.member), d) \in Files /\ StoredFile(Last(item.member), d).data = d
    BY <1>2, <1>3, LastIsName, StoredFileTyped DEF StoredFile
  <2> QED BY <2>1, LoweredFile
<1> HIDE DEF entry, low, content
<1>7. ASSUME NEW other \in Members, other # low
      PROVE  /\ FirstAt(w, other) = FirstAt(ts, other)
             /\ \A i \in DOMAIN ts : i \in DOMAIN w /\ FileAt(w[i].tree, other) = FileAt(ts[i].tree, other)
  <2>1. \A i \in DOMAIN w : FileAt(w[i].tree, other)
                              = IF i \in DOMAIN ts THEN FileAt(ts[i].tree, other) ELSE {}
    BY <1>5, <1>7 DEF Members, PutAt
  <2> QED BY <1>3, <1>4, <2>1, FirstAtSame
<1>8. FileAt(w[k].tree, low) = {entry} /\ entry.data \in content
  BY <1>1, <1>3, <1>5, <1>6 DEF PutAt, content
<1>9. ASSUME c.kind \in {"replace", "set"} PROVE PutsFirst(w, low, content)
  <2>2. MemberTocAlias(ts, item.member) = IF Have(ts, low) = {} THEN {} ELSE {ts[Min(Have(ts, low))].alias}
    BY <1>3, TidyHolders DEF MemberTocAlias, low
  <2>3. ASSUME NEW j \in DOMAIN w, j < k PROVE FileAt(w[j].tree, low) = {}
    <3>1. FileAt(w[j].tree, low) = IF j \in DOMAIN ts THEN FileAt(ts[j].tree, low) ELSE {}
      <4>1. j # k
        <5>1. DOMAIN w \subseteq Nat
          BY <1>4, TocParts
        <5> QED BY <2>3, <5>1
      <4> QED BY <1>3, <1>5, <4>1 DEF PutAt
    <3>2. CASE \A i \in DOMAIN ts : FileAt(ts[i].tree, low) = {}
      BY <3>1, <3>2
    <3>3. CASE \E i \in DOMAIN ts : /\ FileAt(ts[i].tree, low) # {} /\ i = Min(Have(ts, low))
                                    /\ \A l \in DOMAIN ts : l < i => FileAt(ts[l].tree, low) = {}
      <4>1. PICK i \in DOMAIN ts : /\ FileAt(ts[i].tree, low) # {} /\ i = Min(Have(ts, low))
                                   /\ \A l \in DOMAIN ts : l < i => FileAt(ts[l].tree, low) = {}
        BY <3>3
      <4>2. Have(ts, low) # {}
        BY <4>1 DEF Have
      <4>3. AliasFor(c, item, ts, donor) = {ts[i].alias}
        <5>1. MemberTocAlias(ts, item.member) = {ts[i].alias}
          BY <2>2, <4>1, <4>2
        <5> QED BY <1>9, <5>1 DEF AliasFor
      <4>4. i = k
        BY <1>1, <1>5, <4>3
      <4> QED BY <2>3, <3>1, <4>1, <4>4
    <3> QED BY <1>3, <3>2, <3>3, FirstAtIs
  <2>4. FirstAt(w, low) = {entry}
    BY <1>4, <1>8, <2>3, FirstAtAt
  <2> QED BY <1>8, <2>4 DEF PutsFirst
<1>10. PutsSomewhere(w, low, content)
  BY <1>8 DEF PutsSomewhere
<1> QED BY <1>4, <1>7, <1>9, <1>10 DEF low, content

\* Archives that list the same: the same TOCs, folders and names, in one order.
SameNames(a, b) == Len(a) = Len(b) /\ \A k \in 1 .. Len(a) : b[k].name = a[k].name

ListedAlike(ts, w) ==
  /\ DOMAIN w = DOMAIN ts
  /\ \A i \in DOMAIN ts :
       /\ w[i].alias = ts[i].alias
       /\ DOMAIN w[i].tree = DOMAIN ts[i].tree
       /\ \A p \in DOMAIN ts[i].tree : SameNames(ts[i].tree[p].files, w[i].tree[p].files)

\* A folder that is there needs no descending to make it.
LEMMA NothingMissing ==
  ASSUME NEW t, IsTree(t), NEW dirs \in DOMAIN t
  PROVE  Descend(t, dirs) = {t}
<1>1. dirs \in Seq(Names)
  BY FolderParts
<1>2. Len(dirs) \in Nat /\ SubSeq(dirs, 1, Len(dirs)) = dirs
  BY <1>1
<1>3. Depth(t, dirs) = Len(dirs)
  <2>1. Depth(t, dirs) \in 0 .. Len(dirs)
    BY <1>1, DepthStops
  <2>2. CASE Depth(t, dirs) < Len(dirs)
    <3>1. Len(dirs) \in Depth(t, dirs) + 1 .. Len(dirs)
      BY <1>2, <2>1, <2>2
    <3>2. SubSeq(dirs, 1, Len(dirs)) \notin DOMAIN t
      BY <1>1, <3>1, MissingBelow
    <3> QED BY <1>2, <3>2
  <2> QED BY <1>2, <2>1, <2>2
<1>4. {SubSeq(dirs, 1, m) : m \in Depth(t, dirs) + 1 .. Len(dirs)} = {}
  <2>1. Depth(t, dirs) + 1 .. Len(dirs) = {}
    BY <1>2, <1>3
  <2> QED BY <2>1
<1> QED BY <1>4 DEF Descend

LEMMA ReplaceListsAlike ==
  ASSUME NEW c, NEW item, NEW ts, NEW donor, IsEdit(c, item, ts, donor), Tidy(ts),
         c.kind = "replace", NEW w \in ItemEdits(c, item, ts, donor)
  PROVE  ListedAlike(ts, w)
<1> DEFINE rel  == item.member
           low  == LowerPath(rel)
           dirs == Dirs(rel)
<1>1. PICK alias \in AliasFor(c, item, ts, donor), d \in ContentFor(c, item, donor) :
        w \in UpsertIn(ts, alias, rel, d)
  BY ItemEditIs
<1>2. alias \in Aliases /\ d \in Data
  BY <1>1, AliasTyped, ContentTyped
<1>3. IsArchive(ts) /\ rel \in Seq(Names) \ {<<>>}
  BY DEF IsEdit, IsItem, Members
<1>4. low \in Seq(Names) \ {<<>>} /\ Front(low) = dirs /\ Last(low) = Lower(Last(rel)) /\ Last(rel) \in Names
  BY <1>3, LoweredPathIs, LastIsName
<1> DEFINE file  == StoredFile(Last(rel), d)
           entry == [file EXCEPT !.name = Lower(@)]
<1>5. file \in Files /\ entry \in Files /\ entry.name = Last(low)
  BY <1>2, <1>4, StoredFileTyped, LoweredFile
<1>6. alias \in MemberTocAlias(ts, rel)
  BY <1>1 DEF AliasFor
<1>7. FoldedHolders(ts, rel) = Have(ts, low)
  BY <1>3, TidyHolders
<1>8. PICK i \in DOMAIN ts : FileAt(ts[i].tree, low) # {} /\ ts[i].alias = alias
  <2>1. Have(ts, low) # {} /\ alias = ts[Min(Have(ts, low))].alias
    BY <1>6, <1>7 DEF MemberTocAlias
  <2>2. Min(Have(ts, low)) \in DOMAIN ts /\ FileAt(ts[Min(Have(ts, low))].tree, low) # {}
    <3> HIDE DEF low
    <3>1. Have(ts, low) \subseteq Nat
      <4>1. DOMAIN ts \subseteq Nat
        BY <1>3, TocParts
      <4> QED BY <4>1 DEF Have
    <3>2. Min(Have(ts, low)) \in Have(ts, low)
      BY <2>1, <3>1, MinFound
    <3> QED BY <3>2 DEF Have
  <2> QED BY <2>1, <2>2
<1> DEFINE t == ts[i].tree
<1>9. IsTree(t) /\ TidyTree(t)
  BY <1>3, TocParts DEF Tidy
<1>10. GetOrCreateToc(ts, alias) = ts /\ TocIndex(ts, alias) = i
  <2>1. ts \in Seq(Range(ts)) /\ DOMAIN ts = 1 .. Len(ts)
    BY <1>3, TocParts
  <2>2. TocIndex(ts, alias) # 0
    BY <1>8, <2>1, TocIndexFound
  <2>3. TocIndex(ts, alias) \in 1 .. Len(ts) /\ ts[TocIndex(ts, alias)].alias = alias
    BY <2>1, <2>2, TocIndexNames
  <2> QED BY <1>8, <2>1, <2>2, <2>3 DEF GetOrCreateToc, Tidy
<1>11. PICK u \in InsertInTree(t, rel, file) : w = [ts EXCEPT ![i].tree = u]
  BY <1>1, <1>10 DEF UpsertIn
<1> HIDE DEF file, entry, low, t
<1>12. FirstNamed(FilesIn(t, dirs), entry.name) # {}
  BY <1>4, <1>5, <1>8 DEF FileAt, t
<1>13. dirs \in DOMAIN t /\ FilesIn(t, dirs) = t[dirs].files
  BY <1>12, EmptyHasNone DEF FilesIn
<1> DEFINE table == t[dirs].files
           n     == Position(table, entry.name)
<1>14. u = [t EXCEPT ![dirs].files = [table EXCEPT ![n] = entry]] /\ table \in Seq(Files)
       /\ n \in 1 .. Len(table) /\ table[n].name = entry.name
  <2>1. Descend(t, dirs) = {t}
    BY <1>9, <1>13, NothingMissing
  <2>2. PICK v \in Descend(t, dirs) :
          \E r \in InsertOrReplace(v[dirs].files, entry) : u = [v EXCEPT ![dirs].files = r]
    BY <1>11 DEF InsertInTree, entry
  <2>3. PICK r \in InsertOrReplace(table, entry) : u = [t EXCEPT ![dirs].files = r]
    <3>1. v = t
      BY <2>1, <2>2
    <3>2. \E r \in InsertOrReplace(t[dirs].files, entry) : u = [t EXCEPT ![dirs].files = r]
      BY <2>2, <3>1, Zenon
    <3> QED BY <3>2, Zenon DEF table
  <2>4. table \in Seq(Files)
    BY <1>9, <1>13, FolderParts
  <2>5. /\ n \in 0 .. Len(table)
        /\ n = 0 => \A j \in 1 .. Len(table) : table[j].name # entry.name
        /\ n # 0 => table[n].name = entry.name
    <3> HIDE DEF table
    <3> QED BY <2>4, PositionFound
  <2>6. n # 0
    BY <1>12, <1>13 DEF FirstNamed
  <2>7. r = [table EXCEPT ![n] = entry]
    BY <2>3, <2>6 DEF InsertOrReplace
  <2> HIDE DEF table, n
  <2> QED BY <2>3, <2>4, <2>5, <2>6, <2>7 DEF table
<1> DEFINE new == [table EXCEPT ![n] = entry]
<1>15. SameNames(table, new)
  <2> HIDE DEF table, n
  <2> QED BY <1>14 DEF SameNames
<1>16. ASSUME NEW p \in DOMAIN t PROVE SameNames(t[p].files, u[p].files)
  <2>1. CASE p = dirs
    <3>1. u[dirs].files = new
      <4>1. t[dirs] = [folders |-> t[dirs].folders, files |-> t[dirs].files]
        BY <1>9, <1>13, FolderParts
      <4> HIDE DEF new
      <4> QED BY <1>13, <1>14, <4>1 DEF new
    <3> QED BY <1>15, <2>1, <3>1
  <2>2. CASE p # dirs
    <3>1. u[p] = t[p]
      BY <1>14, <2>2
    <3> QED BY <3>1 DEF SameNames
  <2> QED BY <2>1, <2>2
<1>17. DOMAIN u = DOMAIN t
  BY <1>14
<1>18. IsTree(u)
  BY <1>5, <1>9, <1>11, <1>3, TidyTreeInsert, StoredFileTyped, <1>4, <1>2 DEF file
<1>19. DOMAIN w = DOMAIN ts
  BY <1>11
<1>20. ASSUME NEW j \in DOMAIN ts
       PROVE  w[j].alias = ts[j].alias /\ w[j].tree = IF j = i THEN u ELSE ts[j].tree
  <2>1. \A l \in DOMAIN ts : w[l].alias = ts[l].alias
    BY <1>3, <1>11, <1>18, TreeReplaced
  <2>2. \A l \in DOMAIN ts : w[l].tree = IF l = i THEN u ELSE ts[l].tree
    BY <1>3, <1>11, <1>18, TreeReplaced
  <2> QED BY <2>1, <2>2
<1>21. ASSUME NEW j \in DOMAIN ts
       PROVE  /\ DOMAIN w[j].tree = DOMAIN ts[j].tree
              /\ \A p \in DOMAIN ts[j].tree : SameNames(ts[j].tree[p].files, w[j].tree[p].files)
  <2>1. CASE j = i
    BY <1>16, <1>17, <1>20, <2>1 DEF t
  <2>2. CASE j # i
    BY <1>20, <2>2 DEF SameNames
  <2> QED BY <2>1, <2>2
<1> QED BY <1>19, <1>20, <1>21 DEF ListedAlike

LEMMA AlikeGoesOn ==
  ASSUME NEW a, NEW b, NEW c, ListedAlike(a, b), ListedAlike(b, c)
  PROVE  ListedAlike(a, c)
BY DEF ListedAlike, SameNames

\* The order a table is sorted in depends on its names alone.
LEMMA SortedAlike ==
  ASSUME NEW a \in Seq(Files), NEW b \in Seq(Files), SameNames(a, b)
  PROVE  [k \in DOMAIN SortTable(b) |-> SortTable(b)[k].name]
           = [k \in DOMAIN SortTable(a) |-> SortTable(a)[k].name]
<1> DEFINE K == 1 .. Len(a)
           o == Enumerate(K, NameOrder(a))
<1>1. Len(a) \in Nat /\ Len(b) = Len(a) /\ \A k \in K : b[k].name = a[k].name
  BY DEF SameNames
<1>2. NameOrder(b) = NameOrder(a)
  BY <1>1 DEF NameOrder
<1>3. \A k \in K : o[k] \in K
  <2>1. Len(a) \in Nat /\ K = 1 .. Len(a)
    OBVIOUS
  <2>4. IsFiniteSet(K) /\ Cardinality(K) = Len(a)
    <3>1. IsFiniteSet(1 .. Len(a))
      BY <2>1, FS_Interval
    <3>2. \A n \in Nat : Cardinality(1 .. n) = n
      BY FS_Interval
    <3> QED BY <2>1, <3>1, <3>2
  <2>2. StrictOrder(K, NameOrder(a))
    BY NameOrderStrict, TablesAreNamed
  <2>3. o \in [1 .. Cardinality(K) -> K]
    <3> HIDE DEF K
    <3> QED BY <2>2, <2>4, EnumerateInOrder
  <2> QED BY <2>1, <2>3, <2>4
<1>4. SortTable(a) = [k \in K |-> a[o[k]]] /\ SortTable(b) = [k \in K |-> b[o[k]]]
  BY <1>1, <1>2 DEF SortTable
<1> HIDE DEF K, o
<1> QED BY <1>1, <1>3, <1>4

\* The archive after the first n items of a list, against the base.
Fits(c, base, donor, ts, n) ==
  /\ IsArchive(ts) /\ Tidy(ts)
  /\ \A rel \in Members :
       /\ (\A m \in 1 .. n : LowerPath(c.list[m].member) # rel) => FirstAt(ts, rel) = FirstAt(base, rel)
       /\ \A m \in 1 .. n :
            LowerPath(c.list[m].member) = rel
              /\ (\A l \in m + 1 .. n : LowerPath(c.list[l].member) # rel) =>
            /\ PutsSomewhere(ts, rel, ContentFor(c, c.list[m], donor))
            /\ c.kind \in {"replace", "set"} => PutsFirst(ts, rel, ContentFor(c, c.list[m], donor))
  /\ c.kind = "replace" => ListedAlike(base, ts)

LEMMA FitsGoOn ==
  ASSUME NEW c, NEW base, NEW donor, NEW n \in Nat, n # 0, NEW ts, Fits(c, base, donor, ts, n - 1),
         IsEdit(c, c.list[n], ts, donor), NEW w \in ItemEdits(c, c.list[n], ts, donor)
  PROVE  Fits(c, base, donor, w, n)
<1> DEFINE item       == c.list[n]
           low(m)     == LowerPath(c.list[m].member)
           content(m) == ContentFor(c, c.list[m], donor)
<1>1. /\ Tidy(ts) /\ IsArchive(w) /\ Tidy(w)
      /\ \A other \in Members : other # low(n) =>
           /\ FirstAt(w, other) = FirstAt(ts, other)
           /\ \A i \in DOMAIN ts : i \in DOMAIN w /\ FileAt(w[i].tree, other) = FileAt(ts[i].tree, other)
      /\ PutsSomewhere(w, low(n), content(n))
      /\ c.kind \in {"replace", "set"} => PutsFirst(w, low(n), content(n))
  BY ItemFirst DEF Fits
<1>2. c.kind = "replace" => ListedAlike(base, w)
  <2> SUFFICES ASSUME c.kind = "replace" PROVE ListedAlike(base, w)
    OBVIOUS
  <2>1. ListedAlike(base, ts)
    BY DEF Fits
  <2>2. ListedAlike(ts, w)
    BY <1>1, ReplaceListsAlike
  <2> QED BY <2>1, <2>2, AlikeGoesOn
<1>3. ASSUME NEW rel \in Members, \A m \in 1 .. n : low(m) # rel
      PROVE  FirstAt(w, rel) = FirstAt(base, rel)
  <2>1. n \in 1 .. n /\ \A m \in 1 .. n - 1 : m \in 1 .. n
    OBVIOUS
  <2>2. low(n) # rel /\ \A m \in 1 .. n - 1 : low(m) # rel
    BY <1>3, <2>1
  <2>3. FirstAt(ts, rel) = FirstAt(base, rel)
    BY <2>2 DEF Fits
  <2> QED BY <1>1, <2>2, <2>3
<1>4. ASSUME NEW rel \in Members, NEW m \in 1 .. n,
             low(m) = rel, \A l \in m + 1 .. n : low(l) # rel
      PROVE  /\ PutsSomewhere(w, rel, content(m))
             /\ c.kind \in {"replace", "set"} => PutsFirst(w, rel, content(m))
  <2>1. CASE m = n
    BY <1>1, <1>4, <2>1
  <2>2. CASE m # n
    <3>1. /\ m \in 1 .. n - 1 /\ n \in m + 1 .. n
          /\ \A l \in m + 1 .. n - 1 : l \in m + 1 .. n
      BY <2>2
    <3>2. low(n) # rel /\ \A l \in m + 1 .. n - 1 : low(l) # rel
      BY <1>4, <3>1
    <3>3. /\ PutsSomewhere(ts, rel, content(m))
          /\ c.kind \in {"replace", "set"} => PutsFirst(ts, rel, content(m))
      BY <1>4, <3>1, <3>2 DEF Fits
    <3> HIDE DEF content, low
    <3>4. PutsSomewhere(w, rel, content(m))
      BY <1>1, <3>2, <3>3 DEF PutsSomewhere
    <3>5. c.kind \in {"replace", "set"} => PutsFirst(w, rel, content(m))
      BY <1>1, <3>2, <3>3 DEF PutsFirst
    <3> QED BY <3>4, <3>5
  <2> QED BY <2>1, <2>2
<1> QED BY <1>1, <1>2, <1>3, <1>4 DEF Fits

LEMMA ListParts ==
  ASSUME NEW c, IsCommand(c)
  PROVE  /\ Len(c.list) \in Nat /\ DOMAIN c.list = 1 .. Len(c.list)
         /\ \A n \in 1 .. Len(c.list) : IsItem(c.kind, c.list[n]) /\ c.kind \notin {"compile", "repack"}
<1>1. c.list \in Seq(Range(c.list)) /\ \A item \in Range(c.list) : IsItem(c.kind, item)
  BY DEF IsCommand
<1>2. Len(c.list) \in Nat /\ DOMAIN c.list = 1 .. Len(c.list)
  BY <1>1
<1>3. \A n \in 1 .. Len(c.list) : IsItem(c.kind, c.list[n])
  BY <1>1
<1>4. c.list # <<>> => c.kind \notin {"compile", "repack"}
  BY DEF IsCommand
<1>5. \A n \in 1 .. Len(c.list) : c.list # <<>>
  BY <1>2
<1> QED BY <1>2, <1>3, <1>4, <1>5

\* A list of items makes archives of an archive; of a tidy one, archives that
\* fit it and the list.
LEMMA EditedFits ==
  ASSUME NEW c, IsCommand(c), NEW base, IsArchive(base), NEW donor, IsArchive(donor),
         NEW ts \in Edited(c, base, donor)
  PROVE  IsArchive(ts) /\ (Tidy(base) => Fits(c, base, donor, ts, Len(c.list)))
<1> DEFINE N == Len(c.list)
           Good(n, us) == IsArchive(us) /\ (Tidy(base) => Fits(c, base, donor, us, n))
<1>1. N \in Nat /\ \A n \in 1 .. N : IsItem(c.kind, c.list[n]) /\ c.kind \notin {"compile", "repack"}
  BY ListParts
<1>2. PICK f : Runs(c, base, donor, f, N) /\ Edited(c, base, donor) = f[N]
  BY <1>1, EditedRuns
<1> DEFINE G == {n \in 0 .. N : \A us \in f[n] : Good(n, us)}
<1> HIDE DEF N
<1>3. /\ f[0] = {base}
      /\ \A n \in 1 .. N : f[n] = UNION {ItemEdits(c, c.list[n], us, donor) : us \in f[n - 1]}
  BY <1>1, <1>2, RunsStep
<1>4. 0 \in G
  <2>1. ListedAlike(base, base)
    BY DEF ListedAlike, SameNames
  <2>2. Good(0, base)
    BY <2>1 DEF Fits
  <2> HIDE DEF Good
  <2> QED BY <1>1, <1>3, <2>2
<1>5. ASSUME NEW n \in 1 .. N, n - 1 \in G PROVE n \in G
  <2>1. f[n] = UNION {ItemEdits(c, c.list[n], us, donor) : us \in f[n - 1]}
    BY <1>3
  <2>2. n \in Nat /\ n # 0 /\ n \in 0 .. N
    BY <1>1
  <2>3. ASSUME NEW w \in f[n] PROVE Good(n, w)
    <3>1. PICK us \in f[n - 1] : w \in ItemEdits(c, c.list[n], us, donor)
      BY <2>1
    <3>2. Good(n - 1, us)
      BY <1>5
    <3>3. IsEdit(c, c.list[n], us, donor)
      BY <1>1, <3>2 DEF IsEdit
    <3>4. IsArchive(w)
      BY <3>1, <3>3, ItemEditTyped
    <3>5. Tidy(base) => Fits(c, base, donor, w, n)
      BY <2>2, <3>1, <3>2, <3>3, FitsGoOn
    <3> QED BY <3>4, <3>5
  <2> HIDE DEF Good
  <2> QED BY <2>2, <2>3
<1>6. N \in G
  <2>1. 0 .. N \subseteq G
    <3> HIDE DEF G
    <3> QED BY <1>1, <1>4, <1>5, StepsReach
  <2>2. N \in 0 .. N
    BY <1>1
  <2> HIDE DEF G
  <2> QED BY <2>1, <2>2
<1> HIDE DEF Good
<1>7. Good(N, ts)
  BY <1>2, <1>6
<1> QED BY <1>7 DEF Good, N

-----------------------------------------------------------------------------
(* What the files and the processes hold.                                  *)

\* No archive that is there to begin with, and none that is compiled, has a
\* member with capitals in its path or two TOCs with one alias.
InputsTidy ==
  /\ \A f \in DOMAIN OnDisk : Tidy(OnDisk[f])
  /\ \A p \in Processes : \A c \in Commands[p] : c.kind = "compile" => Tidy(c.built)

Good(ts) == IsArchive(ts) /\ (InputsTidy => Tidy(ts))

FileIs(x) == x.state \in {"absent", "torn", "whole"} /\ Good(x.tocs)

\* A process at a step has what the step needs, and what it is to write is what
\* its command makes of what it has read.
Work(p, r) ==
  /\ r.at \in Steps
  /\ r.at # "idle" => r.command \in Commands[p]
  /\ r.at \in {"donor", "create", "write"} => Good(r.base)
  /\ r.at \in {"create", "write"} =>
       /\ r = [at |-> r.at, command |-> r.command, base |-> r.base, donor |-> r.donor,
               result |-> r.result]
       /\ IsArchive(r.donor)
       /\ \E ts \in Edited(r.command, r.base, r.donor) : r.result = Finished(r.command, ts)

CommandSound ==
  /\ files = [f \in DiskFiles |-> files[f]] /\ proc = [p \in Processes |-> proc[p]]
  /\ \A f \in DiskFiles : FileIs(files[f])
  /\ \A p \in Processes : Work(p, proc[p])

LEMMA NothingGood == Good(<<>>) /\ FileIs(Absent) /\ FileIs(Torn)
<1>1. <<>> \in Seq(Range(<<>>)) /\ DOMAIN <<>> = {}
  OBVIOUS
<1>2. Good(<<>>)
  BY <1>1 DEF Good, IsArchive, Tidy
<1> QED BY <1>2 DEF FileIs, Absent, Torn

LEMMA WholeGood ==
  ASSUME NEW ts, Good(ts)
  PROVE  FileIs(Whole(ts)) /\ Whole(ts).tocs = ts
BY DEF FileIs, Whole

LEMMA CommandsAre ==
  ASSUME NEW p \in Processes, NEW c \in Commands[p]
  PROVE  IsCommand(c) /\ FileOf[c.output] \in DiskFiles
<1>1. IsCommand(c)
  BY CommandsAssumption
<1>2. c.output \in Paths
  BY <1>1 DEF IsCommand
<1> QED BY <1>1, <1>2 DEF DiskFiles

LEMMA ResultGood ==
  ASSUME NEW c, IsCommand(c), NEW base, Good(base), NEW donor, IsArchive(donor),
         NEW ts \in Edited(c, base, donor)
  PROVE  Good(Finished(c, ts))
<1>1. IsArchive(ts) /\ (Tidy(base) => Tidy(ts))
  BY EditedFits DEF Good, Fits
<1>2. IsArchive(SortArchive(ts)) /\ (Tidy(ts) => Tidy(SortArchive(ts)))
  BY <1>1, SortedArchive, TidySorted
<1>3. CASE c.kind = "compile"
  BY <1>1, <1>3 DEF Finished, Good
<1>4. CASE c.kind # "compile"
  BY <1>1, <1>2, <1>4 DEF Finished, Good
<1> QED BY <1>3, <1>4

LEMMA WorkGood ==
  ASSUME NEW p \in Processes, NEW r, Work(p, r), r.at \in {"create", "write"}
  PROVE  Good(r.result)
<1>1. IsCommand(r.command)
  BY CommandsAre DEF Work
<1>2. PICK ts \in Edited(r.command, r.base, r.donor) : r.result = Finished(r.command, ts)
  BY DEF Work
<1>3. Good(r.base) /\ IsArchive(r.donor)
  BY DEF Work
<1> QED BY <1>1, <1>2, <1>3, ResultGood

LEMMA SoundMoves ==
  ASSUME CommandSound, NEW p \in Processes, NEW next, Work(p, next),
         proc' = [proc EXCEPT ![p] = next],
         \/ files' = files
         \/ \E f, x : FileIs(x) /\ files' = [files EXCEPT ![f] = x]
  PROVE  CommandSound'
<1>1. PICK h : proc' = h
  OBVIOUS
<1>2. h = [q \in Processes |-> h[q]] /\ \A q \in Processes : Work(q, h[q])
  <2>1. h = [proc EXCEPT ![p] = next] /\ proc = [q \in Processes |-> proc[q]]
    BY <1>1 DEF CommandSound
  <2>2. \A q \in Processes : h[q] = IF q = p THEN next ELSE proc[q]
    BY <2>1
  <2>3. DOMAIN h = Processes
    BY <2>1
  <2> QED BY <2>1, <2>2, <2>3 DEF CommandSound
<1>3. PICK g : files' = g
  OBVIOUS
<1>4. g = [f \in DiskFiles |-> g[f]] /\ \A f \in DiskFiles : FileIs(g[f])
  <2>1. CASE g = files
    BY <2>1 DEF CommandSound
  <2>2. CASE \E f, x : FileIs(x) /\ g = [files EXCEPT ![f] = x]
    <3>1. PICK f, x : FileIs(x) /\ g = [files EXCEPT ![f] = x]
      BY <2>2
    <3>2. files = [e \in DiskFiles |-> files[e]]
      BY DEF CommandSound
    <3>3. \A e \in DiskFiles : g[e] = IF e = f THEN x ELSE files[e]
      BY <3>1, <3>2
    <3>4. g = [e \in DiskFiles |-> g[e]]
      BY <3>1, <3>2
    <3> QED BY <3>1, <3>3, <3>4 DEF CommandSound
  <2> QED BY <1>3, <2>1, <2>2
<1> QED BY <1>1, <1>2, <1>3, <1>4 DEF CommandSound

LEMMA IdleWorks == \A p : Work(p, Idle)
BY DEF Work, Idle, Steps

LEMMA SoundFirst == CommandInit => CommandSound
<1> SUFFICES ASSUME CommandInit PROVE CommandSound
  OBVIOUS
<1>1. \A f \in DiskFiles : files[f] = IF f \in DOMAIN OnDisk THEN Whole(OnDisk[f]) ELSE Absent
  BY DEF CommandInit
<1>2. \A f \in DOMAIN OnDisk : Good(OnDisk[f])
  BY CommandsAssumption DEF Good, InputsTidy
<1>3. \A f \in DiskFiles : FileIs(files[f])
  BY <1>1, <1>2, NothingGood, WholeGood
<1>4. \A p \in Processes : Work(p, proc[p])
  BY IdleWorks DEF CommandInit
<1> QED BY <1>3, <1>4 DEF CommandInit, CommandSound

LEMMA FailSound ==
  ASSUME CommandSound, NEW p \in Processes, Fail(p)
  PROVE  CommandSound'
BY IdleWorks, SoundMoves DEF Fail

LEMMA StartSound ==
  ASSUME CommandSound, NEW p \in Processes, NEW c \in Commands[p], Start(p, c)
  PROVE  CommandSound'
<1> DEFINE next == [at |-> "base", command |-> c]
<1>1. proc' = [proc EXCEPT ![p] = next] /\ files' = files
  BY DEF Start
<1>2. Work(p, next)
  BY DEF Work, Steps
<1> HIDE DEF next
<1> QED BY <1>1, <1>2, SoundMoves

LEMMA ReadBaseSound ==
  ASSUME CommandSound, NEW p \in Processes, ReadBase(p)
  PROVE  CommandSound'
<1> DEFINE c        == proc[p].command
           next(ts) == [at |-> "donor", command |-> c, base |-> ts]
<1>1. /\ proc[p].at = "base"
      /\ \/ Fail(p)
         \/ c.kind = "compile" /\ proc' = [proc EXCEPT ![p] = next(c.built)] /\ files' = files
         \/ /\ c.kind # "compile" /\ files' = files
            /\ proc' = [proc EXCEPT ![p] = next(files[FileOf[c.base]].tocs)]
  BY DEF ReadBase
<1>2. c \in Commands[p] /\ IsCommand(c)
  <2>1. Work(p, proc[p])
    BY DEF CommandSound
  <2>2. c \in Commands[p]
    BY <1>1, <2>1 DEF Work
  <2> QED BY <2>2, CommandsAre
<1>3. ASSUME NEW ts, Good(ts) PROVE Work(p, next(ts))
  BY <1>2, <1>3 DEF Work, Steps
<1>4. c.kind = "compile" => Good(c.built)
  BY <1>2 DEF IsCommand, Good, InputsTidy
<1>5. c.kind # "compile" => Good(files[FileOf[c.base]].tocs)
  <2>1. c.kind # "compile" => FileOf[c.base] \in DiskFiles
    BY <1>2 DEF IsCommand, DiskFiles
  <2> QED BY <2>1 DEF CommandSound, FileIs
<1> HIDE DEF next, c
<1> QED BY <1>1, <1>3, <1>4, <1>5, FailSound, SoundMoves

LEMMA EditInMemorySound ==
  ASSUME CommandSound, NEW p \in Processes, EditInMemory(p)
  PROVE  CommandSound'
<1> DEFINE c     == proc[p].command
           base  == proc[p].base
           donor == IF c.kind = "graft" THEN files[FileOf[c.donor]] ELSE Whole(<<>>)
           next(ts) == [at |-> "create", command |-> c, base |-> base, donor |-> donor.tocs,
                        result |-> Finished(c, ts)]
<1>1. /\ proc[p].at = "donor"
      /\ \/ Fail(p)
         \/ \E ts \in Edited(c, base, donor.tocs) :
              proc' = [proc EXCEPT ![p] = next(ts)] /\ files' = files
  BY DEF EditInMemory
<1>2. c \in Commands[p] /\ IsCommand(c) /\ Good(base)
  <2>1. Work(p, proc[p])
    BY DEF CommandSound
  <2>2. c \in Commands[p] /\ Good(base)
    BY <1>1, <2>1 DEF Work
  <2> QED BY <2>2, CommandsAre
<1>3. IsArchive(donor.tocs)
  <2>1. c.kind = "graft" => FileOf[c.donor] \in DiskFiles
    BY <1>2 DEF IsCommand, DiskFiles
  <2>2. c.kind = "graft" => IsArchive(donor.tocs)
    BY <2>1 DEF CommandSound, FileIs, Good
  <2>3. IsArchive(Whole(<<>>).tocs)
    BY NothingGood, WholeGood DEF Good
  <2> QED BY <2>2, <2>3
<1>4. ASSUME NEW ts \in Edited(c, base, donor.tocs) PROVE Work(p, next(ts))
  <2> DEFINE r == next(ts)
  <2>1. /\ r = [at |-> r.at, command |-> r.command, base |-> r.base, donor |-> r.donor, result |-> r.result]
        /\ r.at = "create" /\ r.command = c /\ r.base = base /\ r.donor = donor.tocs
        /\ r.result = Finished(c, ts)
    OBVIOUS
  <2> HIDE DEF r, c, base, donor
  <2>2. Work(p, r)
    BY <1>2, <1>3, <1>4, <2>1 DEF Work, Steps
  <2> QED BY <2>2 DEF r
<1> HIDE DEF next, c, base, donor
<1>5. CASE Fail(p)
  BY <1>5, FailSound
<1>6. ASSUME NEW ts \in Edited(c, base, donor.tocs), proc' = [proc EXCEPT ![p] = next(ts)], files' = files
      PROVE  CommandSound'
  BY <1>4, <1>6, SoundMoves
<1> QED BY <1>1, <1>5, <1>6

LEMMA CreateOutputSound ==
  ASSUME CommandSound, NEW p \in Processes, CreateOutput(p)
  PROVE  CommandSound'
<1> DEFINE r    == proc[p]
           next == [r EXCEPT !.at = "write"]
<1>1. /\ r.at = "create" /\ files' = [files EXCEPT ![FileOf[r.command.output]] = Torn]
      /\ proc' = [proc EXCEPT ![p] = next]
  BY DEF CreateOutput
<1>2. Work(p, r)
  BY DEF CommandSound
<1>3. r = [at |-> r.at, command |-> r.command, base |-> r.base, donor |-> r.donor, result |-> r.result]
  BY <1>1, <1>2 DEF Work
<1>4. next = [at |-> "write", command |-> r.command, base |-> r.base, donor |-> r.donor, result |-> r.result]
  BY <1>3
<1> HIDE DEF r, next
<1>5. /\ next.at = "write" /\ next.command = r.command /\ next.base = r.base
      /\ next.donor = r.donor /\ next.result = r.result
  BY <1>4
<1>6. Work(p, next)
  BY <1>1, <1>2, <1>4, <1>5 DEF Work, Steps
<1> QED BY <1>1, <1>6, NothingGood, SoundMoves

LEMMA WriteOutputSound ==
  ASSUME CommandSound, NEW p \in Processes, WriteOutput(p)
  PROVE  CommandSound'
<1>1. /\ proc[p].at = "write" /\ proc' = [proc EXCEPT ![p] = Idle]
      /\ \/ files' = [files EXCEPT ![OutputFile(p)] = Whole(proc[p].result)]
         \/ files' = [files EXCEPT ![OutputFile(p)] = Torn]
  BY DEF WriteOutput, OutputFile
<1>2. FileIs(Whole(proc[p].result)) /\ FileIs(Torn)
  BY <1>1, WorkGood, WholeGood, NothingGood DEF CommandSound
<1> QED BY <1>1, <1>2, IdleWorks, SoundMoves

LEMMA SoundStep ==
  ASSUME CommandSound, [CommandNext]_commandVars
  PROVE  CommandSound'
<1>1. CASE UNCHANGED commandVars
  BY <1>1 DEF commandVars, CommandSound
<1>2. CASE CommandNext
  <2>1. PICK p \in Processes :
          \/ \E c \in Commands[p] : Start(p, c)
          \/ ReadBase(p) \/ EditInMemory(p) \/ CreateOutput(p) \/ WriteOutput(p) \/ Die(p)
    BY <1>2 DEF CommandNext
  <2>2. Die(p) => Fail(p)
    BY DEF Die
  <2> QED BY <2>1, <2>2, StartSound, ReadBaseSound, EditInMemorySound,
             CreateOutputSound, WriteOutputSound, FailSound
<1> QED BY <1>1, <1>2

LEMMA SoundThroughout == CommandSpec => []CommandSound
BY SoundFirst, SoundStep, PTL DEF CommandSpec

\* Files hold archives and processes what their steps need, whatever they are
\* asked to do, in what order they take their steps and where they die.
THEOREM CommandTypeCorrect == CommandSpec => []CommandTypeOK
<1>1. CommandSound => CommandTypeOK
  <2> SUFFICES ASSUME CommandSound PROVE CommandTypeOK
    OBVIOUS
  <2>1. \A f \in DiskFiles : files[f].state \in {"absent", "torn", "whole"} /\ IsArchive(files[f].tocs)
    BY DEF CommandSound, FileIs, Good
  <2>2. ASSUME NEW p \in Processes
        PROVE  /\ proc[p].at \in {"idle", "base", "donor", "create", "write"}
               /\ proc[p].at \in {"create", "write"} => IsArchive(proc[p].result)
    <3>1. Work(p, proc[p])
      BY DEF CommandSound
    <3>2. proc[p].at \in {"create", "write"} => IsArchive(proc[p].result)
      BY <3>1, WorkGood DEF Good
    <3> QED BY <3>1, <3>2 DEF Work, Steps
  <2> QED BY <2>1, <2>2 DEF CommandTypeOK
<1> QED BY <1>1, SoundThroughout, PTL

-----------------------------------------------------------------------------
(* What a finished command has written.                                    *)

LEMMA MembersAreLower ==
  ASSUME NEW out, IsArchive(out), Tidy(out), NEW i \in DOMAIN out, NEW rel \in MembersOfToc(out, i)
  PROVE  rel \in Members /\ rel = LowerPath(rel)
<1> DEFINE t == out[i].tree
<1>1. PICK p \in DOMAIN t : rel \in {Append(p, t[p].files[k].name) : k \in DOMAIN t[p].files}
  BY DEF MembersOfToc
<1>2. PICK k \in DOMAIN t[p].files : rel = Append(p, t[p].files[k].name)
  BY <1>1
<1>3. IsTree(t) /\ TidyTree(t)
  BY TocParts DEF Tidy
<1> HIDE DEF t
<1> DEFINE table == t[p].files
           name  == table[k].name
<1>4. p \in Seq(Names) /\ table \in Seq(Files) /\ FilesIn(t, p) = table
  BY <1>3, FolderParts DEF FilesIn
<1>5. table # <<>> /\ k \in 1 .. Len(table) /\ name \in Names
  <2>1. table[k] \in Files
    BY <1>4
  <2> QED BY <1>4, <2>1, TablesAreNamed DEF Named
<1>6. AllLowerPath(p) /\ IsLower(name)
  <2>1. AllLower(table) /\ AllLowerPath(p)
    BY <1>3, <1>4, <1>5, TidyFiles
  <2> QED BY <1>5, <2>1 DEF AllLower
<1> HIDE DEF name
<1>7. rel \in Seq(Names) /\ rel # <<>> /\ Len(rel) = Len(p) + 1
      /\ \A j \in 1 .. Len(rel) : rel[j] \in Names /\ IsLower(rel[j])
  BY <1>2, <1>4, <1>5, <1>6 DEF AllLowerPath, name
<1>8. \A j \in 1 .. Len(rel) : Lower(rel[j]) = rel[j]
  <2> SUFFICES ASSUME NEW j \in 1 .. Len(rel) PROVE Lower(rel[j]) = rel[j]
    OBVIOUS
  <2>1. /\ rel[j] \in Names /\ Lower(rel[j]) \in Names /\ Lower(rel[j]).key = rel[j].key
        /\ IsLower(rel[j]) /\ IsLower(Lower(rel[j]))
    BY <1>7, LowerIsLower
  <2> QED BY <2>1, LowerNamesByKey
<1> QED BY <1>7, <1>8 DEF Members, LowerPath

\* The items that list a lowercase path are those whose path folds to it.
LEMMA ListedAre ==
  ASSUME NEW c, IsCommand(c), NEW rel \in Members, rel = LowerPath(rel)
  PROVE  \A n : n \in Listed(c, rel) <=> n \in 1 .. Len(c.list) /\ LowerPath(c.list[n].member) = rel
<1>1. Len(c.list) \in Nat /\ DOMAIN c.list = 1 .. Len(c.list)
  BY ListParts
<1>2. ASSUME NEW n \in 1 .. Len(c.list)
      PROVE  n \in Listed(c, rel) <=> LowerPath(c.list[n].member) = rel
  <2> DEFINE m == c.list[n].member
  <2>1. m \in Seq(Names) /\ rel \in Seq(Names)
    BY ListParts DEF IsItem, Members
  <2> HIDE DEF m
  <2>2. n \in Listed(c, rel) <=> [i \in DOMAIN m |-> m[i].key] = [i \in DOMAIN rel |-> rel[i].key]
    BY <1>1 DEF Listed, m
  <2>3. \A i \in DOMAIN m : m[i] \in Names
    BY <2>1
  <2>4. \A i \in DOMAIN rel : rel[i] \in Names /\ rel[i] = Lower(rel[i])
    BY <2>1 DEF LowerPath
  <2>5. LowerPath(m) = rel <=> DOMAIN m = DOMAIN rel /\ \A i \in DOMAIN m : Lower(m[i]) = rel[i]
    BY <2>1 DEF LowerPath
  <2>6. \A i \in DOMAIN m : i \in DOMAIN rel => (Lower(m[i]) = rel[i] <=> m[i].key = rel[i].key)
    <3> SUFFICES ASSUME NEW i \in DOMAIN m, i \in DOMAIN rel
                 PROVE  Lower(m[i]) = rel[i] <=> m[i].key = rel[i].key
      OBVIOUS
    <3>1. /\ Lower(m[i]) \in Names /\ Lower(m[i]).key = m[i].key /\ IsLower(Lower(m[i]))
          /\ rel[i] \in Names /\ IsLower(rel[i])
      BY <2>3, <2>4, LowerIsLower
    <3> QED BY <3>1, LowerNamesByKey
  <2> QED BY <2>2, <2>5, <2>6 DEF m
<1> QED BY <1>1, <1>2 DEF Listed

\* One TOC of a tidy archive, as an archive of its own.
LEMMA TocAlone ==
  ASSUME NEW ts, IsArchive(ts), Tidy(ts), NEW i \in DOMAIN ts
  PROVE  /\ IsArchive(<<ts[i]>>) /\ Tidy(<<ts[i]>>)
         /\ \A rel : FirstAt(<<ts[i]>>, rel) = FileAt(ts[i].tree, rel)
<1> DEFINE alone == <<ts[i]>>
<1>1. DOMAIN alone = {1} /\ alone[1] = ts[i] /\ Range(alone) = {ts[i]} /\ alone \in Seq(Range(alone))
  BY DEF Range
<1> HIDE DEF alone
<1>2. IsArchive(alone)
  BY <1>1 DEF IsArchive
<1>3. Tidy(alone)
  BY <1>1 DEF Tidy
<1>4. ASSUME NEW rel PROVE FirstAt(alone, rel) = FileAt(ts[i].tree, rel)
  <2>1. CASE FileAt(ts[i].tree, rel) = {}
    BY <1>1, <1>2, <2>1, FirstAtIs
  <2>2. CASE FileAt(ts[i].tree, rel) # {}
    BY <1>1, <1>2, <2>2, FirstAtAt
  <2> QED BY <2>1, <2>2
<1> QED BY <1>2, <1>3, <1>4 DEF alone

\* What a process is to write is an edit of what it has read.
LEMMA WrittenIsEdit ==
  ASSUME InputsTidy, NEW p \in Processes, NEW r, Work(p, r), r.at = "write"
  PROVE  IsEditOf(r.command, r.base, r.donor, r.result)
<1> DEFINE c     == r.command
           base  == r.base
           donor == r.donor
           out   == r.result
           N     == Len(c.list)
<1>1. /\ c \in Commands[p] /\ IsCommand(c) /\ IsArchive(base) /\ Tidy(base) /\ IsArchive(donor)
      /\ IsArchive(out) /\ Tidy(out)
  BY CommandsAre, WorkGood DEF Work, Good
<1>2. PICK ts \in Edited(c, base, donor) : out = Finished(c, ts)
  BY DEF Work
<1> HIDE DEF c, base, donor, out
<1>3. Fits(c, base, donor, ts, N)
  BY <1>1, <1>2, EditedFits
<1>4. /\ DOMAIN out = DOMAIN ts
      /\ \A rel : FirstAt(out, rel) = FirstAt(ts, rel)
      /\ \A j \in DOMAIN ts : \A rel : FileAt(out[j].tree, rel) = FileAt(ts[j].tree, rel)
  BY <1>2, <1>3, TidySorted DEF Finished, Fits
<1>5. N \in Nat
  BY <1>1, ListParts
<1> DEFINE content(rel) == ContentFor(c, c.list[Max(Listed(c, rel))], donor)
           Holds(us, rel) == \E file \in FindMember(us, rel) : file.data \in content(rel)
<1>6. ASSUME NEW i \in DOMAIN out, NEW rel \in MembersOfToc(out, i)
      PROVE  IF Listed(c, rel) = {}
             THEN FindMember(out, rel) = FindMember(base, rel)
             ELSE /\ \E j \in DOMAIN out : Holds(<<out[j]>>, rel)
                  /\ c.kind \in {"replace", "set"} => Holds(out, rel)
  <2>1. rel \in Members /\ rel = LowerPath(rel)
    BY <1>1, MembersAreLower
  <2>2. /\ FindMember(out, rel) = FirstAt(ts, rel) /\ FindMember(base, rel) = FirstAt(base, rel)
        /\ \A j \in DOMAIN ts : FindMember(<<out[j]>>, rel) = FileAt(ts[j].tree, rel)
    <3>1. FindMember(out, rel) = FirstAt(ts, rel) /\ FindMember(base, rel) = FirstAt(base, rel)
      BY <1>1, <1>4, <2>1, TidyFind DEF Members
    <3>2. ASSUME NEW j \in DOMAIN ts PROVE FindMember(<<out[j]>>, rel) = FileAt(ts[j].tree, rel)
      <4>1. j \in DOMAIN out /\ FileAt(out[j].tree, rel) = FileAt(ts[j].tree, rel)
        BY <1>4
      <4>2. /\ IsArchive(<<out[j]>>) /\ Tidy(<<out[j]>>)
            /\ FirstAt(<<out[j]>>, rel) = FileAt(out[j].tree, rel)
        BY <1>1, <4>1, TocAlone
      <4>3. FindMember(<<out[j]>>, rel) = FirstAt(<<out[j]>>, rel)
        BY <2>1, <4>2, TidyFind DEF Members
      <4> QED BY <4>1, <4>2, <4>3
    <3> QED BY <3>1, <3>2
  <2>3. \A n : n \in Listed(c, rel) <=> n \in 1 .. N /\ LowerPath(c.list[n].member) = rel
    BY <1>1, <2>1, ListedAre
  <2> HIDE DEF N
  <2>4. CASE Listed(c, rel) = {}
    <3>1. \A m \in 1 .. N : LowerPath(c.list[m].member) # rel
      BY <2>3, <2>4
    <3>2. FirstAt(ts, rel) = FirstAt(base, rel)
      BY <1>3, <2>1, <3>1 DEF Fits
    <3> QED BY <2>2, <2>4, <3>2
  <2>5. CASE Listed(c, rel) # {}
    <3> DEFINE m == Max(Listed(c, rel))
    <3>1. Listed(c, rel) \subseteq 0 .. N
      BY <1>5, <2>3
    <3>2. m \in Listed(c, rel) /\ \A n \in Listed(c, rel) : n <= m
      BY <1>5, <2>5, <3>1, MaxFound
    <3> HIDE DEF m
    <3>3. m \in 1 .. N /\ LowerPath(c.list[m].member) = rel
      BY <2>3, <3>2
    <3>4. ASSUME NEW l \in m + 1 .. N PROVE LowerPath(c.list[l].member) # rel
      <4>1. l \in 1 .. N /\ ~ (l <= m)
        BY <1>5, <3>3
      <4> QED BY <2>3, <3>2, <4>1
    <3>5. content(rel) = ContentFor(c, c.list[m], donor)
      BY DEF m
    <3> HIDE DEF content
    <3>6. /\ PutsSomewhere(ts, rel, content(rel))
          /\ c.kind \in {"replace", "set"} => PutsFirst(ts, rel, content(rel))
      BY <1>3, <2>1, <3>3, <3>4, <3>5 DEF Fits
    <3>7. \E j \in DOMAIN out : Holds(<<out[j]>>, rel)
      BY <1>4, <2>2, <3>6 DEF PutsSomewhere
    <3>8. c.kind \in {"replace", "set"} => Holds(out, rel)
      BY <2>2, <3>6 DEF PutsFirst
    <3> QED BY <2>5, <3>7, <3>8
  <2> QED BY <2>4, <2>5
<1> QED BY <1>6 DEF IsEditOf, c, base, donor, out

LEMMA ListingsAlike ==
  ASSUME NEW base, IsArchive(base), NEW ts, IsArchive(ts), ListedAlike(base, ts)
  PROVE  Listing(SortArchive(ts)) = Listing(SortArchive(base))
<1> DEFINE names(t) == [p \in DOMAIN t |-> [k \in DOMAIN t[p].files |-> t[p].files[k].name]]
           a == SortArchive(base)
           b == SortArchive(ts)
<1>1. Listing(a) = [i \in DOMAIN a |-> [alias |-> a[i].alias, names |-> names(a[i].tree)]]
      /\ Listing(b) = [i \in DOMAIN b |-> [alias |-> b[i].alias, names |-> names(b[i].tree)]]
  BY DEF Listing
<1>2. /\ DOMAIN a = DOMAIN base /\ DOMAIN b = DOMAIN base /\ DOMAIN ts = DOMAIN base
      /\ \A i \in DOMAIN base : /\ a[i].alias = base[i].alias /\ a[i].tree = SortTree(base[i].tree)
                                /\ b[i].alias = base[i].alias /\ b[i].tree = SortTree(ts[i].tree)
  <2>1. DOMAIN a = DOMAIN base /\ DOMAIN b = DOMAIN ts
    BY SortedArchive
  <2>2. \A i \in DOMAIN base : a[i].alias = base[i].alias /\ a[i].tree = SortTree(base[i].tree)
    BY SortedArchive
  <2>3. \A i \in DOMAIN ts : b[i].alias = ts[i].alias /\ b[i].tree = SortTree(ts[i].tree)
    BY SortedArchive
  <2> HIDE DEF a, b
  <2> QED BY <2>1, <2>2, <2>3 DEF ListedAlike
<1> HIDE DEF a, b
<1>3. ASSUME NEW i \in DOMAIN base
      PROVE  names(b[i].tree) = names(a[i].tree)
  <2> DEFINE t == base[i].tree
             u == ts[i].tree
  <2>1. IsTree(t) /\ IsTree(u) /\ DOMAIN u = DOMAIN t
    BY <1>2, TocParts DEF ListedAlike
  <2>2. \A p \in DOMAIN t : SameNames(t[p].files, u[p].files)
    BY DEF ListedAlike
  <2>3. a[i].tree = SortTree(t) /\ b[i].tree = SortTree(u)
    BY <1>2
  <2> HIDE DEF t, u
  <2>4. /\ DOMAIN SortTree(t) = DOMAIN t /\ DOMAIN SortTree(u) = DOMAIN t
        /\ \A p \in DOMAIN t : SortTree(t)[p].files = SortTable(t[p].files) /\ SortTree(u)[p].files = SortTable(u[p].files)
    BY <2>1 DEF SortTree
  <2>5. ASSUME NEW p \in DOMAIN t
        PROVE  [k \in DOMAIN SortTree(u)[p].files |-> SortTree(u)[p].files[k].name]
                 = [k \in DOMAIN SortTree(t)[p].files |-> SortTree(t)[p].files[k].name]
    <3>1. t[p].files \in Seq(Files) /\ u[p].files \in Seq(Files)
      BY <2>1, FolderParts
    <3>2. [k \in DOMAIN SortTable(u[p].files) |-> SortTable(u[p].files)[k].name]
            = [k \in DOMAIN SortTable(t[p].files) |-> SortTable(t[p].files)[k].name]
      BY <2>2, <3>1, SortedAlike
    <3> QED BY <2>4, <3>2
  <2> QED BY <2>3, <2>4, <2>5
<1> HIDE DEF names
<1>4. Listing(b) = Listing(a)
  BY <1>1, <1>2, <1>3
<1> QED BY <1>4 DEF a, b

LEMMA ReplacedListing ==
  ASSUME InputsTidy, NEW p \in Processes, NEW r, Work(p, r), r.at = "write", r.command.kind = "replace"
  PROVE  Listing(r.result) = Listing(SortArchive(r.base))
<1>1. /\ IsCommand(r.command) /\ IsArchive(r.base) /\ Tidy(r.base) /\ IsArchive(r.donor)
  BY CommandsAre DEF Work, Good
<1>2. PICK ts \in Edited(r.command, r.base, r.donor) : r.result = Finished(r.command, ts)
  BY DEF Work
<1>3. IsArchive(ts) /\ ListedAlike(r.base, ts)
  BY <1>1, <1>2, EditedFits DEF Fits
<1>4. r.result = SortArchive(ts)
  BY <1>2 DEF Finished
<1> QED BY <1>1, <1>3, <1>4, ListingsAlike

(***************************************************************************)
(* What a process has read is still on disk when it writes: nobody empties *)
(* a whole file, so that a base or a donor that was read whole stays.      *)
(***************************************************************************)
InputsStand(p) ==
  LET r == proc[p]
  IN  /\ r.at \in {"donor", "create", "write"} =>
           /\ r.command.kind # "compile" => files[FileOf[r.command.base]].state = "whole"
           /\ r.base = BaseOf(r.command)
      /\ r.at \in {"create", "write"} =>
           InputsWhole(r.command) /\ r.donor = DonorOf(r.command)

CommandsStand ==
  CommandSound /\ OutputsPending /\ \A p \in Processes : InputsStand(p)

LEMMA StandFirst == CommandInit => CommandsStand
<1>1. CommandInit => \A p \in Processes : InputsStand(p)
  BY DEF CommandInit, InputsStand, Idle
<1> QED BY <1>1, SoundFirst, CommandInitPending DEF CommandsStand

\* A process that has read no more than before finds it as it was: whole files
\* stay.
LEMMA StandKept ==
  ASSUME CommandSound, WholeKept, NEW p \in Processes, InputsStand(p),
         NEW r, r = proc[p], NEW next, next = proc'[p],
         next.at \in {"donor", "create", "write"} =>
           /\ r.at \in {"donor", "create", "write"}
           /\ next.command = r.command /\ next.base = r.base,
         next.at \in {"create", "write"} => r.at \in {"create", "write"} /\ next.donor = r.donor
  PROVE  InputsStand(p)'
<1> DEFINE c == r.command
<1>1. r.at \in {"donor", "create", "write"} => IsCommand(c)
  BY CommandsAre DEF CommandSound, Work
<1>2. r.at \in {"donor", "create", "write"} /\ c.kind # "compile"
        => files'[FileOf[c.base]] = files[FileOf[c.base]]
  <2>1. IsCommand(c) /\ c.kind # "compile" => FileOf[c.base] \in DiskFiles
    BY DEF IsCommand, DiskFiles
  <2> QED BY <1>1, <2>1 DEF WholeKept, InputsStand
<1>3. r.at \in {"create", "write"} /\ c.kind = "graft"
        => files'[FileOf[c.donor]] = files[FileOf[c.donor]]
  <2>1. IsCommand(c) /\ c.kind = "graft" => FileOf[c.donor] \in DiskFiles
    BY DEF IsCommand, DiskFiles
  <2> QED BY <1>1, <2>1 DEF WholeKept, InputsStand, InputsWhole
<1> QED BY <1>2, <1>3 DEF InputsStand, InputsWhole, BaseOf, DonorOf

\* A process that reads a file takes what is there.
LEMMA MoverStands ==
  ASSUME CommandsStand, NEW p \in Processes,
         \/ \E c \in Commands[p] : Start(p, c)
         \/ ReadBase(p) \/ EditInMemory(p) \/ CreateOutput(p) \/ WriteOutput(p) \/ Fail(p),
         WholeKept
  PROVE  InputsStand(p)'
<1> DEFINE r == proc[p]
           c == r.command
<1>1. CommandSound /\ Work(p, r) /\ InputsStand(p)
  BY DEF CommandsStand, CommandSound
<1>2. \A next : proc' = [proc EXCEPT ![p] = next] => proc'[p] = next
  BY DEF CommandsStand, CommandSound
<1>3. ASSUME NEW next, proc' = [proc EXCEPT ![p] = next], next.at \in {"idle", "base"}
      PROVE  InputsStand(p)'
  <2>1. proc'[p] = next
    BY <1>2, <1>3
  <2> QED BY <1>3, <2>1 DEF InputsStand
<1>4. CASE Fail(p) \/ WriteOutput(p)
  <2>1. proc' = [proc EXCEPT ![p] = Idle] /\ Idle.at = "idle"
    BY <1>4 DEF Fail, WriteOutput, Idle
  <2> QED BY <1>3, <2>1
<1>5. CASE \E d \in Commands[p] : Start(p, d)
  <2>1. PICK d \in Commands[p] : proc' = [proc EXCEPT ![p] = [at |-> "base", command |-> d]]
    BY <1>5 DEF Start
  <2>2. [at |-> "base", command |-> d].at = "base"
    OBVIOUS
  <2> QED BY <1>3, <2>1, <2>2
<1>6. CASE ReadBase(p) /\ ~ Fail(p)
  <2>1. /\ files' = files
        /\ c.kind # "compile" => files[FileOf[c.base]].state = "whole"
        /\ proc' = [proc EXCEPT ![p] = [at |-> "donor", command |-> c, base |-> BaseOf(c)]]
    BY <1>6 DEF ReadBase, BaseOf
  <2>2. proc'[p] = [at |-> "donor", command |-> c, base |-> BaseOf(c)]
    BY <1>2, <2>1
  <2>3. /\ proc'[p].at = "donor" /\ proc'[p].command = c /\ proc'[p].base = BaseOf(c)
    BY <2>2
  <2> HIDE DEF c
  <2> QED BY <2>1, <2>3 DEF InputsStand, BaseOf
<1>7. CASE EditInMemory(p) /\ ~ Fail(p)
  <2> DEFINE donor == IF c.kind = "graft" THEN files[FileOf[c.donor]] ELSE Whole(<<>>)
             edits == IF donor.state = "whole" THEN Edited(c, r.base, donor.tocs) ELSE {}
             next(ts) == [at |-> "create", command |-> c, base |-> r.base,
                          donor |-> donor.tocs, result |-> Finished(c, ts)]
  <2>1. /\ r.at = "donor" /\ files' = files
        /\ \E ts \in edits : proc' = [proc EXCEPT ![p] = next(ts)]
    BY <1>7 DEF EditInMemory
  <2>2. PICK ts \in edits : proc' = [proc EXCEPT ![p] = next(ts)]
    BY <2>1
  <2>3. donor.state = "whole" /\ donor.tocs = DonorOf(c)
    BY <2>2 DEF DonorOf, Whole
  <2>4. /\ next(ts).at = "create" /\ next(ts).command = c /\ next(ts).base = r.base
        /\ next(ts).donor = DonorOf(c)
    BY <2>3
  <2>5. c.kind = "graft" => files[FileOf[c.donor]].state = "whole"
    BY <2>3
  <2>6. /\ c.kind # "compile" => files[FileOf[c.base]].state = "whole"
        /\ r.base = BaseOf(c)
    BY <1>1, <2>1 DEF InputsStand
  <2> HIDE DEF c, donor, edits, next
  <2>7. proc'[p] = next(ts)
    BY <1>2, <2>2
  <2> QED BY <2>1, <2>4, <2>5, <2>6, <2>7 DEF InputsStand, InputsWhole, BaseOf, DonorOf
<1>8. CASE CreateOutput(p)
  <2>1. r.at = "create" /\ proc' = [proc EXCEPT ![p] = [r EXCEPT !.at = "write"]]
    BY <1>8 DEF CreateOutput
  <2>2. r = [at |-> r.at, command |-> r.command, base |-> r.base, donor |-> r.donor, result |-> r.result]
    BY <1>1, <2>1 DEF Work
  <2> HIDE DEF r
  <2>3. proc'[p] = [r EXCEPT !.at = "write"]
    BY <1>2, <2>1
  <2>4. /\ proc'[p].at = "write" /\ proc'[p].command = r.command /\ proc'[p].base = r.base
        /\ proc'[p].donor = r.donor
    BY <2>2, <2>3
  <2>5. r = proc[p]
    BY DEF r
  <2> QED BY <1>1, <2>1, <2>4, <2>5, StandKept
<1> QED BY <1>4, <1>5, <1>6, <1>7, <1>8

LEMMA StandGoesOn ==
  ASSUME OutputsDistinct, CommandsStand, [CommandNext]_commandVars
  PROVE  CommandsStand'
<1>1. CommandSound' /\ OutputsPending' /\ WholeKept
  BY SoundStep, CommandStepKeeps DEF CommandsStand
<1>2. CASE UNCHANGED commandVars
  BY <1>1, <1>2 DEF commandVars, CommandsStand, InputsStand, InputsWhole, BaseOf, DonorOf
<1>3. CASE CommandNext
  <2>1. PICK p \in Processes :
          \/ \E c \in Commands[p] : Start(p, c)
          \/ ReadBase(p) \/ EditInMemory(p) \/ CreateOutput(p) \/ WriteOutput(p) \/ Die(p)
    BY <1>3 DEF CommandNext
  <2>2. Die(p) => Fail(p)
    BY DEF Die
  <2>3. InputsStand(p)'
    BY <1>1, <2>1, <2>2, MoverStands
  <2>4. \A q \in Processes \ {p} : proc'[q] = proc[q]
    BY <2>1 DEF CommandsStand, CommandSound, Start, ReadBase, EditInMemory, CreateOutput,
                WriteOutput, Die, Fail
  <2>5. ASSUME NEW q \in Processes \ {p} PROVE InputsStand(q)'
    BY <1>1, <2>4, StandKept DEF CommandsStand
  <2> QED BY <1>1, <2>3, <2>5 DEF CommandsStand
<1> QED BY <1>2, <1>3

\* Where no two processes are given one output and the archives that commands
\* start from are tidy, every output a command has finished is what its base
\* and donor on disk and its command line make of one another: whatever other
\* processes did since it read them, and wherever one of them died.
THEOREM FinishedOutputsAreEdits ==
  OutputsDistinct /\ InputsTidy => (CommandSpec => OutputsAreEdits)
<1> SUFFICES ASSUME OutputsDistinct, InputsTidy
             PROVE  CommandSpec => OutputsAreEdits
  OBVIOUS
<1>1. ASSUME CommandsStand, NEW p \in Processes, Finishes(p)
      PROVE  /\ InputsWhole(proc[p].command)
             /\ IsEditOf(proc[p].command, BaseOf(proc[p].command), DonorOf(proc[p].command),
                         files'[FileOf[proc[p].command.output]].tocs)
  <2>1. Work(p, proc[p]) /\ InputsStand(p) /\ proc[p].at = "write"
    BY <1>1 DEF CommandsStand, CommandSound, Finishes
  <2>2. files'[FileOf[proc[p].command.output]].tocs = proc[p].result
    BY <1>1 DEF Finishes, Whole
  <2>3. /\ InputsWhole(proc[p].command)
        /\ proc[p].base = BaseOf(proc[p].command) /\ proc[p].donor = DonorOf(proc[p].command)
    BY <2>1 DEF InputsStand
  <2> QED BY <2>1, <2>2, <2>3, WrittenIsEdit
<1>2. CommandsStand /\ [CommandNext]_commandVars
        => [\A p \in Processes : Finishes(p) =>
              LET c == proc[p].command
              IN  /\ InputsWhole(c)
                  /\ IsEditOf(c, BaseOf(c), DonorOf(c), files'[FileOf[c.output]].tocs)]_commandVars
  BY <1>1
<1>3. CommandSpec => []CommandsStand
  BY StandFirst, StandGoesOn, PTL DEF CommandSpec
<1> QED BY <1>2, <1>3, PTL DEF CommandSpec, OutputsAreEdits

\* Where no two processes are given one output and the archives that commands
\* start from are tidy, replace-member adds no member, folder or TOC to what its
\* base on disk has, in whatever case it was given the member's path.
THEOREM ReplacingAddsNothing ==
  OutputsDistinct /\ InputsTidy => (CommandSpec => ReplaceAddsNothing)
<1> SUFFICES ASSUME OutputsDistinct, InputsTidy
             PROVE  CommandSpec => ReplaceAddsNothing
  OBVIOUS
<1>1. ASSUME CommandsStand, NEW p \in Processes, Finishes(p), proc[p].command.kind = "replace"
      PROVE  Listing(files'[FileOf[proc[p].command.output]].tocs)
               = Listing(SortArchive(BaseOf(proc[p].command)))
  <2>1. Work(p, proc[p]) /\ InputsStand(p) /\ proc[p].at = "write"
    BY <1>1 DEF CommandsStand, CommandSound, Finishes
  <2>2. files'[FileOf[proc[p].command.output]].tocs = proc[p].result
    BY <1>1 DEF Finishes, Whole
  <2>3. proc[p].base = BaseOf(proc[p].command)
    BY <2>1 DEF InputsStand
  <2> QED BY <1>1, <2>1, <2>2, <2>3, ReplacedListing
<1>2. CommandsStand /\ [CommandNext]_commandVars
        => [\A p \in Processes : Finishes(p) /\ proc[p].command.kind = "replace" =>
              Listing(files'[FileOf[proc[p].command.output]].tocs)
                = Listing(SortArchive(BaseOf(proc[p].command)))]_commandVars
  BY <1>1
<1>3. CommandSpec => []CommandsStand
  BY StandFirst, StandGoesOn, PTL DEF CommandSpec
<1> QED BY <1>2, <1>3, PTL DEF CommandSpec, ReplaceAddsNothing

=============================================================================
