------------------------- MODULE MCMachineCommands -------------------------
(***************************************************************************)
(* Small instances of MachineCommands: a base whose members share a path   *)
(* across TOCs and within one, a donor with an encrypted member, and an    *)
(* output that is a later command's base.                                  *)
(***************************************************************************)
EXTENDS MachineCommands

N(k)    == [key |-> k, cased |-> FALSE]
Caps(k) == [key |-> k, cased |-> TRUE]

MCArtStorage == [k \in Keys |-> NotArt]

Shut(k, d) == [StoredFile(N(k), d) EXCEPT !.encrypted = TRUE]

Root(table) == <<>> :> [folders |-> <<>>, files |-> table]

Nested(table) ==
  (<<>>     :> [folders |-> <<[name |-> N(2)]>>, files |-> <<>>]) @@
  (<<N(2)>> :> [folders |-> <<>>, files |-> table])

MCOnDisk ==
  ("base"  :> <<[alias |-> "data", tree |-> Nested(<<StoredFile(N(1), "old"),
                                                     StoredFile(N(1), "new")>>)],
                [alias |-> "info", tree |-> Nested(<<StoredFile(N(1), "old"),
                                                     StoredFile(N(2), "old")>>)]>>) @@
  ("donor" :> <<[alias |-> "info", tree |-> Root(<<StoredFile(N(1), "new"),
                                                   Shut(2, "new")>>)]>>)

MCFileOf ==
  [p \in Paths |-> IF p = "./base" THEN "base" ELSE p]

Item(rel, d)     == [member |-> rel, data |-> d, source |-> <<>>]
Taken(rel, from) == [member |-> rel, data |-> "none", source |-> from]

Command(kind, base, output, list) ==
  [kind |-> kind, base |-> base, donor |-> NoPath, output |-> output,
   alias |-> NoAlias, list |-> list, built |-> <<>>]

Replace(base, output) ==
  Command("replace", base, output, <<Item(<<Caps(2), Caps(1)>>, "new")>>)

SetTwo(base, output, alias) ==
  [Command("set", base, output,
           <<Item(<<N(2), N(2)>>, "new"), Item(<<N(1), N(1)>>, "old"),
             Item(<<N(2), Caps(2)>>, "old")>>) EXCEPT !.alias = alias]

Add(base, output, alias) ==
  [Command("add", base, output, <<Item(<<N(2), N(2)>>, "new")>>) EXCEPT !.alias = alias]

Graft(base, donor, output, from) ==
  [Command("graft", base, output, <<Taken(<<N(2), N(1)>>, from)>>) EXCEPT !.donor = donor]

\* A compiled archive's tables are in the order its sources were visited, two
\* that differ in case included.
Built ==
  <<[alias |-> "data", tree |-> Nested(<<StoredFile(N(2), "new"), StoredFile(N(1), "old"),
                                         StoredFile(N(2), "old")>>)]>>

Compile(output) == [Command("compile", NoPath, output, <<>>) EXCEPT !.built = Built]

Repack(base, output) == Command("repack", base, output, <<>>)

\* Each process has an output of its own; the second starts from the first's, or
\* takes a member of it.
MCCommands ==
  [p \in Processes |->
     IF p = "first"
     THEN {Replace("base", "mid"), SetTwo("base", "mid", "data"), SetTwo("base", "mid", NoAlias),
           Graft("base", "donor", "mid", <<N(1)>>), Graft("base", "donor", "mid", <<Caps(2)>>),
           Compile("mid"), Repack("base", "./base")}
     ELSE {Repack("mid", "out"), Replace("mid", "out"), Add("mid", "out", "info"),
           Add("mid", "out", NoAlias), SetTwo("mid", "out", NoAlias),
           Graft("mid", "donor", "out", <<N(1)>>),
           Graft("base", "mid", "out", <<N(2), Caps(2)>>), Compile("out"),
           Replace("base", "./base")}]

=============================================================================
