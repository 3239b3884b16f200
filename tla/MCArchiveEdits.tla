-------------------------- MODULE MCArchiveEdits --------------------------
(***************************************************************************)
(* A small instance of ArchiveEdits: two TOCs, folders up to two deep, four *)
(* paths, two contents; an archive that starts empty, one that was read,   *)
(* and a cooked one, with a double in a folder and a path in both TOCs.    *)
(***************************************************************************)
EXTENDS ArchiveMembers

N(k)    == [key |-> k, cased |-> FALSE]
Caps(k) == [key |-> k, cased |-> TRUE]

MCArtStorage == [k \in Keys |-> CASE k = 1 -> "Store"
                                  [] k = 3 -> "Compress"
                                  [] OTHER -> NotArt]

\* A member read from a file, packed by the editor.
Original(k, d, order) ==
  [name |-> N(k), data |-> d, storage |-> "Brotli", encrypted |-> FALSE,
   verify |-> "SHA1Blocks", crc |-> {[data |-> d, storage |-> "Brotli"]},
   order |-> order]

Encrypted(k, d, order) == [Original(k, d, order) EXCEPT !.encrypted = TRUE]

ReadTree ==
  (<<>>       :> [folders |-> <<[name |-> N(2)]>>,
                  files |-> <<Original(1, "d1", 1)>>]) @@
  (<<N(2)>>   :> [folders |-> <<>>,
                  files |-> <<Original(2, "d1", 0), Encrypted(3, "d2", 2)>>])

\* A cooked archive: a texture and its packed variant under one name.
CookedTree ==
  (<<>>       :> [folders |-> <<[name |-> N(2)]>>,
                  files |-> <<Original(3, "d1", 3)>>]) @@
  (<<N(2)>>   :> [folders |-> <<>>,
                  files |-> <<Original(1, "d1", 2), Original(1, "d2", 0),
                              Original(2, "d1", 1)>>])

\* Its second TOC holds a path of the first one again.
SecondTree == (<<>> :> [folders |-> <<>>, files |-> <<Original(3, "d2", 0)>>])

MCBases ==
  { <<>>,
    <<[alias |-> "data", tree |-> ReadTree]>>,
    <<[alias |-> "data", tree |-> CookedTree], [alias |-> "info", tree |-> SecondTree]>> }

MCTargets ==
  { [alias |-> "data", rel |-> <<N(2), Caps(1)>>],
    [alias |-> "data", rel |-> <<Caps(1), N(2), N(2)>>],
    [alias |-> "info", rel |-> <<Caps(2), N(2)>>] }

MCStoredRels == { <<N(2), N(2)>>, <<N(3)>> }

MCPredicates == { {2}, {1} }

=============================================================================
