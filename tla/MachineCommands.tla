-------------------------- MODULE MachineCommands --------------------------
(***************************************************************************)
(* The commands that read archives and write a new one                     *)
(* (crates/sga-archiver-cli/src/machine.rs), run by several processes on   *)
(* one file system: each checks its output path, reads its inputs, edits   *)
(* in memory, creates the output and writes it, and may die in between.    *)
(*                                                                         *)
(* What a whole file holds is the archive a reader gets of it: that it is  *)
(* the one written is what ArchiveSession checks.  A torn file is one whose*)
(* writing was begun and not ended; every reader refuses it.               *)
(***************************************************************************)
EXTENDS ArchiveTree

CONSTANTS
  Processes,
  Paths,      \* the paths given on command lines
  FileOf,     \* the file each path names: two spellings may name one
  Commands,   \* the commands each process may be asked to run
  OnDisk      \* the archives that are there to begin with, by file

VARIABLES
  files,      \* what each file holds
  proc        \* what each process is doing

commandVars == <<files, proc>>

DiskFiles == {FileOf[p] : p \in Paths}

Absent    == [state |-> "absent", tocs |-> <<>>]
Torn      == [state |-> "torn",   tocs |-> <<>>]
Whole(ts) == [state |-> "whole",  tocs |-> ts]

Idle == [at |-> "idle"]

NoPath  == "no path"
NoAlias == "no alias"

(***************************************************************************)
(* The arguments the command line lets through: a list of items names each *)
(* member it puts in, and for a graft the member of the donor it is taken  *)
(* from; the contents of the others come from payload files.               *)
(***************************************************************************)
Members == Seq(Names) \ {<<>>}

IsItem(kind, item) ==
  /\ item.member \in Members
  /\ IF kind = "graft" THEN item.source \in Members ELSE item.data \in Data

IsCommand(c) ==
  /\ c.kind \in {"replace", "set", "add", "graft", "compile", "repack"}
  /\ c.output \in Paths /\ {c.base, c.donor} \subseteq Paths \cup {NoPath}
  /\ IF c.kind = "compile" THEN IsArchive(c.built) ELSE c.base \in Paths
  /\ c.kind = "graft" => c.donor \in Paths
  /\ c.kind \in {"set", "add"} => c.alias \in Aliases \cup {NoAlias}
  /\ c.list \in Seq(Range(c.list)) /\ \A item \in Range(c.list) : IsItem(c.kind, item)
  /\ c.kind \in {"compile", "repack"} => c.list = <<>>

ASSUME CommandsAssumption ==
  /\ FileOf \in [Paths -> Range(FileOf)]
  /\ DOMAIN OnDisk \subseteq DiskFiles
  /\ \A f \in DOMAIN OnDisk : IsArchive(OnDisk[f])
  /\ \A p \in Processes : \A c \in Commands[p] : IsCommand(c)

\* add-member's alias where no TOC has a file.
ASSUME AliasesAssumption == "data" \in Aliases

(***************************************************************************)
(* One item of a command's list.  The TOC it goes to and the contents it   *)
(* gets are sets: empty where the command ends with an error.              *)
(***************************************************************************)

\* Mutant of the next operator: the last TOC that holds rel.
LastTocAlias(ts, rel) ==
  IF FoldedHolders(ts, rel) = {} THEN {} ELSE {ts[Max(FoldedHolders(ts, rel))].alias}

\* member_toc_alias: the alias of the TOC that holds rel, none if no TOC does.
MemberTocAlias(ts, rel) ==
  IF FoldedHolders(ts, rel) = {} THEN {} ELSE {ts[Min(FoldedHolders(ts, rel))].alias}

FirstFilledToc(ts) ==
  LET filled == {i \in DOMAIN ts : \E p \in DOMAIN ts[i].tree : ts[i].tree[p].files # <<>>}
  IN  IF filled = {} THEN "data" ELSE ts[Min(filled)].alias

AliasFor(c, item, ts, donor) ==
  CASE c.kind = "replace" -> MemberTocAlias(ts, item.member)
    [] c.kind = "graft"   -> MemberTocAlias(donor, item.source)
    [] c.kind = "add"     -> {IF c.alias # NoAlias THEN c.alias ELSE FirstFilledToc(ts)}
    [] c.kind = "set"     -> IF MemberTocAlias(ts, item.member) # {}
                             THEN MemberTocAlias(ts, item.member)
                             ELSE {c.alias} \ {NoAlias}

ContentFor(c, item, donor) ==
  IF c.kind = "graft"
  THEN {file.data : file \in {f \in FoundIn(donor, item.source) : ~ f.encrypted}}
  ELSE {item.data}

\* The archives one item may leave of ts.
ItemEdits(c, item, ts, donor) ==
  UNION {UpsertIn(ts, alias, item.member, d) :
           alias \in AliasFor(c, item, ts, donor), d \in ContentFor(c, item, donor)}

\* The archives after the whole list, none if one of its items is an error.
Edited(c, base, donor) ==
  LET after[n \in 0 .. Len(c.list)] ==
        IF n = 0
        THEN {base}
        ELSE UNION {ItemEdits(c, c.list[n], ts, donor) : ts \in after[n - 1]}
  IN  after[Len(c.list)]

(***************************************************************************)
(* The steps of a command.                                                 *)
(***************************************************************************)
CommandInit ==
  /\ files = [f \in DiskFiles |-> IF f \in DOMAIN OnDisk THEN Whole(OnDisk[f]) ELSE Absent]
  /\ proc = [p \in Processes |-> Idle]

Fail(p) == proc' = [proc EXCEPT ![p] = Idle] /\ UNCHANGED files

\* Mutant of the next operator: only the spellings of the paths are compared.
OutputUnchecked(c) == TRUE

\* refuse_existing, after the comparison of the paths as they are spelled.  A
\* command that is refused has done nothing.
OutputFree(c) == files[FileOf[c.output]].state = "absent"

Start(p, c) ==
  /\ proc[p] = Idle
  /\ c.output \notin {c.base, c.donor}
  /\ OutputFree(c)
  /\ proc' = [proc EXCEPT ![p] = [at |-> "base", command |-> c]]
  /\ UNCHANGED files

\* Mutant of the next operator: a torn file is read as an archive with no TOC.
ReadBaseTorn(p) ==
  /\ proc[p].at = "base"
  /\ LET c  == proc[p].command
         ts == IF c.kind = "compile" THEN c.built ELSE files[FileOf[c.base]].tocs
     IN  \/ /\ c.kind # "compile" => files[FileOf[c.base]].state # "absent"
            /\ proc' = [proc EXCEPT ![p] = [at |-> "donor", command |-> c, base |-> ts]]
            /\ UNCHANGED files
         \/ c.kind # "compile" /\ files[FileOf[c.base]].state = "absent" /\ Fail(p)

\* read_eager of the base; compile_project builds its archive instead.
ReadBase(p) ==
  /\ proc[p].at = "base"
  /\ LET c == proc[p].command
         Got(ts) == proc' = [proc EXCEPT ![p] = [at |-> "donor", command |-> c, base |-> ts]]
     IN  \/ c.kind = "compile" /\ Got(c.built) /\ UNCHANGED files
         \/ /\ c.kind # "compile"
            /\ files[FileOf[c.base]].state = "whole"
            /\ Got(files[FileOf[c.base]].tocs)
            /\ UNCHANGED files
         \/ /\ c.kind # "compile"
            /\ files[FileOf[c.base]].state # "whole"
            /\ Fail(p)

\* write_eager sorts every table; compile writes its archive as it was built.
Finished(c, ts) == IF c.kind = "compile" THEN ts ELSE SortArchive(ts)

\* read_eager of the donor, where there is one, and the edits in memory: the
\* first error ends the command before it has created anything.
EditInMemory(p) ==
  /\ proc[p].at = "donor"
  /\ LET c     == proc[p].command
         donor == IF c.kind = "graft" THEN files[FileOf[c.donor]] ELSE Whole(<<>>)
         edits == IF donor.state = "whole" THEN Edited(c, proc[p].base, donor.tocs) ELSE {}
     IN  \/ edits = {} /\ Fail(p)
         \/ \E ts \in edits :
              /\ proc' = [proc EXCEPT ![p] = [at |-> "create", command |-> c,
                                              base |-> proc[p].base, donor |-> donor.tocs,
                                              result |-> Finished(c, ts)]]
              /\ UNCHANGED files

\* File::create empties the file if it has come to exist since the check.
CreateOutput(p) ==
  /\ proc[p].at = "create"
  /\ files' = [files EXCEPT ![FileOf[proc[p].command.output]] = Torn]
  /\ proc' = [proc EXCEPT ![p].at = "write"]

\* Two processes that write one file at once leave either's archive or a mix.
WriteOutput(p) ==
  /\ proc[p].at = "write"
  /\ LET f == FileOf[proc[p].command.output]
         rivals == {q \in Processes \ {p} :
                      proc[q].at = "write" /\ FileOf[proc[q].command.output] = f}
     IN  \/ files' = [files EXCEPT ![f] = Whole(proc[p].result)]
         \/ rivals # {} /\ files' = [files EXCEPT ![f] = Torn]
  /\ proc' = [proc EXCEPT ![p] = Idle]

Die(p) == proc[p] # Idle /\ Fail(p)

CommandNext ==
  \E p \in Processes :
    \/ \E c \in Commands[p] : Start(p, c)
    \/ ReadBase(p)
    \/ EditInMemory(p)
    \/ CreateOutput(p)
    \/ WriteOutput(p)
    \/ Die(p)

CommandSpec == CommandInit /\ [][CommandNext]_commandVars

(***************************************************************************)
(* Properties.                                                             *)
(***************************************************************************)

\* Files hold archives, processes what their step needs.
CommandTypeOK ==
  /\ \A f \in DiskFiles :
       files[f].state \in {"absent", "torn", "whole"} /\ IsArchive(files[f].tocs)
  /\ \A p \in Processes :
       /\ proc[p].at \in {"idle", "base", "donor", "create", "write"}
       /\ proc[p].at \in {"create", "write"} => IsArchive(proc[p].result)

\* "refusing to overwrite output": a file that holds an archive keeps it, the
\* inputs of every command included, under whatever spelling of its path the
\* output is given (machine.rs, refuse_existing; main.rs, "must not already
\* exist").  It takes outputs that only one process is given: of two that pass
\* refuse_existing for one output, the later creates it over the earlier's.
WholeFilesStay ==
  [][\A f \in DiskFiles : files[f].state = "whole" => files'[f] = files[f]]_commandVars

Listed(c, rel) ==
  {n \in DOMAIN c.list : [i \in DOMAIN c.list[n].member |-> c.list[n].member[i].key]
                           = [i \in DOMAIN rel |-> rel[i].key]}

MembersOfToc(ts, i) ==
  UNION {{Append(p, ts[i].tree[p].files[k].name) : k \in DOMAIN ts[i].tree[p].files} :
         p \in DOMAIN ts[i].tree}

\* The step that completes the output of p.
Finishes(p) ==
  /\ proc[p].at = "write" /\ proc'[p] = Idle
  /\ files'[FileOf[proc[p].command.output]] = Whole(proc[p].result)

\* The archives a command works on, as its paths tell: not what a process has
\* read of them some time ago, but what the files hold.
BaseOf(c)  == IF c.kind = "compile" THEN c.built ELSE files[FileOf[c.base]].tocs
DonorOf(c) == IF c.kind = "graft" THEN files[FileOf[c.donor]].tocs ELSE <<>>

InputsWhole(c) ==
  /\ c.kind # "compile" => files[FileOf[c.base]].state = "whole"
  /\ c.kind = "graft"   => files[FileOf[c.donor]].state = "whole"

IsEditOf(c, base, donor, out) ==
  \A i \in DOMAIN out : \A rel \in MembersOfToc(out, i) :
    LET listed  == Listed(c, rel)
        content == ContentFor(c, c.list[Max(listed)], donor)
        Holds(ts) == \E file \in FindMember(ts, rel) : file.data \in content
    IN  IF listed = {}
        THEN FindMember(out, rel) = FindMember(base, rel)
        ELSE /\ \E j \in DOMAIN out : Holds(<<out[j]>>)
             /\ c.kind \in {"replace", "set"} => Holds(out)

\* A finished output is what its inputs, as they are on disk at that moment, and
\* the command line make of one another, whatever other processes have written
\* since the command read them (machine.rs reads base and donor one after the
\* other and keeps no hold on either): its inputs are whole archives, never what
\* a command that died left; a member it does not list is found with the base's
\* contents; one that it lists has, in some TOC, the contents it is listed with
\* last, for a graft those of the donor's member; and where it is replaced or
\* set, that TOC is the one every lookup takes.
OutputsAreEdits ==
  [][\A p \in Processes : Finishes(p) =>
       LET c == proc[p].command
       IN  /\ InputsWhole(c)
           /\ IsEditOf(c, BaseOf(c), DonorOf(c), files'[FileOf[c.output]].tocs)]_commandVars

\* The names an archive lists, table by table.
Listing(ts) ==
  [i \in DOMAIN ts |->
     [alias |-> ts[i].alias,
      names |-> [p \in DOMAIN ts[i].tree |->
                   [k \in DOMAIN ts[i].tree[p].files |-> ts[i].tree[p].files[k].name]]]]

\* "Replace one existing member's bytes" (main.rs, ReplaceMember): a finished
\* replace-member has put no member, folder or TOC next to those its base has,
\* although it finds the member up to case and then upserts it in lowercase.
ReplaceAddsNothing ==
  [][\A p \in Processes : Finishes(p) /\ proc[p].command.kind = "replace" =>
       Listing(files'[FileOf[proc[p].command.output]].tocs)
         = Listing(SortArchive(BaseOf(proc[p].command)))]_commandVars

=============================================================================
