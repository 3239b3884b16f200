---------------------------- MODULE MCExtraction ----------------------------
(***************************************************************************)
(* Four archives: one with two members in two TOCs each and files to       *)
(* derive from; two with folders that differ by case, one of them with an  *)
(* encrypted first copy and a member that cannot be decoded; and one with  *)
(* a source beside the file derived of it, a .locdb file, after which the  *)
(* project file is named, and a member that has that name up to case.      *)
(***************************************************************************)
EXTENDS Extraction

\* The names, numbered in folded order.
KeyOf == [art |-> 1, game_aoe4mod |-> 2, game_locdb |-> 3, map_rgd |-> 4, map_xml |-> 5,
          mod_aoe4mod |-> 6, unit_bin |-> 7, unit_rdo |-> 8]

MCKeys == 1 .. 8

Low(k) == [key |-> k, cased |-> FALSE]
Cap(k) == [key |-> k, cased |-> TRUE]

\* 2 and 3 are chunks, 12 and 13 what is derived of them, 9 cannot be decoded;
\* 20 is the text of a project file.
MCData == {1, 2, 3, 4, 9}
MCUnreadable == {9}
MCDerivedFrom ==
  [d \in MCData \cup {12, 13, ModText, Torn} |->
     IF d = 2 THEN 12 ELSE IF d = 3 THEN 13 ELSE Nothing]

MCDerivers ==
  << [k \in {KeyOf.map_rgd} |-> KeyOf.map_xml],
     [k \in {KeyOf.unit_bin, KeyOf.unit_rdo} |-> KeyOf.unit_rdo] >>

MCModNames == [k \in {KeyOf.game_locdb} |-> KeyOf.game_aoe4mod]

MCHeaderMod == Low(KeyOf.mod_aoe4mod)

File(name, d) == StoredFile(name, d)
Encrypted(name, d) == [StoredFile(name, d) EXCEPT !.encrypted = TRUE]

Flat(alias, files) ==
  [alias |-> alias, tree |-> [p \in {<<>>} |-> [folders |-> <<>>, files |-> files]]]

Nested(alias, dirs, table) ==
  [alias |-> alias,
   tree |-> [p \in {<<>>} \cup {<<dirs[i]>> : i \in DOMAIN dirs} |->
               IF p = <<>>
               THEN [folders |-> [i \in DOMAIN dirs |-> [name |-> dirs[i]]], files |-> <<>>]
               ELSE [folders |-> <<>>, files |-> table[Last(p)]]]]

TwoTocs ==
  << Nested("data", <<Low(KeyOf.art)>>,
            [n \in {Low(KeyOf.art)} |-> <<File(Low(KeyOf.map_rgd), 2), File(Low(KeyOf.unit_bin), 1)>>]),
     Nested("info", <<Low(KeyOf.art)>>,
            [n \in {Low(KeyOf.art)} |-> <<File(Low(KeyOf.map_rgd), 4), File(Low(KeyOf.unit_bin), 3)>>]) >>

CasedFolders ==
  << Nested("data", <<Cap(KeyOf.art), Low(KeyOf.art)>>,
            [n \in {Cap(KeyOf.art), Low(KeyOf.art)} |->
               IF n.cased THEN <<File(Low(KeyOf.map_rgd), 1), Encrypted(Low(KeyOf.unit_bin), 2)>>
               ELSE <<File(Low(KeyOf.map_rgd), 2)>>]),
     Nested("info", <<Low(KeyOf.art)>>,
            [n \in {Low(KeyOf.art)} |-> <<File(Cap(KeyOf.unit_bin), 3)>>]),
     Flat("locale", <<File(Low(KeyOf.map_rgd), 9)>>) >>

WithoutEncrypted ==
  << Nested("data", <<Cap(KeyOf.art), Low(KeyOf.art)>>,
            [n \in {Cap(KeyOf.art), Low(KeyOf.art)} |->
               IF n.cased THEN <<File(Low(KeyOf.map_rgd), 1)>>
               ELSE <<File(Low(KeyOf.map_rgd), 2)>>]) >>

SourceAndDerived ==
  << Flat("data", <<File(Cap(KeyOf.game_locdb), 4), File(Low(KeyOf.map_rgd), 3),
                    File(Low(KeyOf.map_xml), 4), File(Low(KeyOf.unit_bin), 2),
                    File(Low(KeyOf.unit_rdo), 3)>>),
     Flat("info", <<File(Low(KeyOf.game_aoe4mod), 1), File(Cap(KeyOf.unit_bin), 1)>>) >>

MCArchives == {TwoTocs, CasedFolders, WithoutEncrypted, SourceAndDerived}

UnitBin == <<Low(KeyOf.art), Low(KeyOf.unit_bin)>>
MapRgd  == <<Low(KeyOf.art), Low(KeyOf.map_rgd)>>
TopRgd  == <<Low(KeyOf.map_rgd)>>

MCDisks == { [at \in {} |-> 1], [at \in {MapRgd} |-> 4] }

Extract(wanted, filtered) == [kind |-> "extract", wanted |-> wanted, filtered |-> filtered]
Member(rel, output) == [kind |-> "member", member |-> rel, output |-> output]

MCRequests ==
  { Extract({UnitBin}, {}),
    Extract({MapRgd, UnitBin}, {}),
    Extract({}, {MapRgd, TopRgd, <<Low(KeyOf.unit_bin)>>}),
    Extract({TopRgd}, {UnitBin}),
    Member(<<Cap(KeyOf.art), Low(KeyOf.map_rgd)>>, MapRgd),
    Member(UnitBin, TopRgd),
    [kind |-> "unpack"] }

MCAliases == {"data", "info", "locale"}

MCArtStorage == [k \in MCKeys |-> NotArt]

=============================================================================
