-------------------------- MODULE MCBuildPipeline --------------------------
(***************************************************************************)
(* Every project with up to MaxFiles of the files below, under two sets of *)
(* rules: scripts in both cases and in a subfolder, sources of one output  *)
(* that differ by case, one that does not compile, two tables of a locale, *)
(* and prebuilt files that collide with what is burned.                    *)
(***************************************************************************)
EXTENDS BuildPipeline

CONSTANT MaxFiles

\* The names, numbered in folded order.
KeyOf ==
  [ai |-> 1, core_scar |-> 2, en |-> 3, en_ucs |-> 4, fx |-> 5, main_scar |-> 6,
   mod_locdb |-> 7, mod_en_csv |-> 8, unit_bin |-> 9, unit_rdo |-> 10]

Low(k) == [key |-> k, cased |-> FALSE]
Cap(k) == [key |-> k, cased |-> TRUE]

MCKeys == 1 .. 10

\* Capitals come first in byte order; mod_EN.csv begins with a small letter.
MCByteRank ==
  [n \in Names |-> IF n = Cap(KeyOf.mod_en_csv) THEN 2 * n.key + 99
                   ELSE IF n.cased THEN n.key ELSE 2 * n.key + 100]

MCExt ==
  [k \in MCKeys |->
     CASE k \in {KeyOf.core_scar, KeyOf.main_scar} -> "scar"
       [] k = KeyOf.en_ucs -> "ucs"
       [] k = KeyOf.mod_locdb -> "locdb"
       [] k = KeyOf.mod_en_csv -> "csv"
       [] k = KeyOf.unit_bin -> "bin"
       [] k = KeyOf.unit_rdo -> "rdo"
       [] OTHER -> "none"]

MCBurnedKey == [k \in MCKeys |-> IF k = KeyOf.unit_rdo THEN KeyOf.unit_bin ELSE k]

MCLocalePath ==
  [p \in Names \X Names |->
     IF p[1] = Low(KeyOf.mod_locdb) /\ p[2].key = KeyOf.mod_en_csv
     THEN <<[key |-> KeyOf.en, cased |-> p[2].cased],
            [key |-> KeyOf.en_ucs, cased |-> p[2].cased]>>
     ELSE <<>>]

Matching(ext) == {n \in Names : MCExt[n.key] = ext}

MCSegmentMatches ==
  ({"*.rdo"} \X Matching("rdo")) \cup ({"*.locdb"} \X Matching("locdb"))

\* The contents: each file below has its own; Broken does not compile.
Broken == 15
MCData == 1 .. 14 \cup {Broken} \cup {101, 102, 103, 104, 105}
MCCompiled ==
  [d \in MCData |-> IF d = Broken \/ d > 100 THEN Rejected
                    ELSE IF d \in 1 .. 5 THEN 100 + d ELSE d]

F(base, path, d) == [base |-> base, path |-> path, data |-> d]

Optional ==
  { F("assets", <<Low(KeyOf.unit_rdo)>>, 1),
    F("assets", <<Cap(KeyOf.unit_rdo)>>, 2),
    F("assets", <<Low(KeyOf.ai), Low(KeyOf.unit_rdo)>>, 3),
    F("assets", <<Cap(KeyOf.ai), Low(KeyOf.unit_rdo)>>, Broken),
    F("assets", <<Low(KeyOf.mod_locdb)>>, 14),
    F("assets", <<Low(KeyOf.mod_en_csv)>>, 4),
    F("assets", <<Cap(KeyOf.mod_en_csv)>>, 5),
    F("assets", <<Low(KeyOf.core_scar)>>, 6),
    F("assets", <<Cap(KeyOf.main_scar)>>, 7),
    F("assets", <<Cap(KeyOf.fx), Low(KeyOf.main_scar)>>, 8),
    F("data", <<Low(KeyOf.core_scar)>>, 9),
    F("data", <<Low(KeyOf.unit_bin)>>, 10),
    F("data", <<Low(KeyOf.ai), Low(KeyOf.unit_bin)>>, 11),
    F("info", <<Cap(KeyOf.unit_bin)>>, 12),
    F("locale", <<Low(KeyOf.en), Low(KeyOf.en_ucs)>>, 13) }

DirectoriesOf(S) ==
  [b \in {"assets", "data", "info", "locale"} |->
     [p \in {f.path : f \in {f \in S : f.base = b}} |->
        (CHOOSE f \in S : f.base = b /\ f.path = p).data]]

Rule(burner, alias, includes) == [burner |-> burner, alias |-> alias, includes |-> includes]

RuleSets ==
  { << Rule("ReflectBurner", "data", {<<AnyDepth, "*.rdo">>}),
       Rule("UCS", "locale", {<<AnyDepth, "*.locdb">>}) >>,
    << Rule("ReflectBurner", NoAlias, {<<AnyDepth, "*.rdo">>}),
       Rule("ReflectBurner", "info", {<<"*.rdo">>}),
       Rule("ReflectBurner", "attrib", {<<AnyDepth, "*.rdo">>}) >> }

MCProjects ==
  {[files |-> DirectoriesOf(S), rules |-> rules] :
     S \in UNION {kSubset(n, Optional) : n \in 0 .. MaxFiles}, rules \in RuleSets}

MCAliases == {"data", "info", "locale", "attrib"}

MCArtStorage == [k \in MCKeys |-> NotArt]

=============================================================================
