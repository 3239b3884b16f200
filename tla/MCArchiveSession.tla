------------------------- MODULE MCArchiveSession -------------------------
(***************************************************************************)
(* A small instance of ArchiveSession.  The first file is an empty archive *)
(* or one with two TOCs, a folder of the same name as a file, two members  *)
(* of one name in one folder, textures without content, and the bytes of   *)
(* its members in another order than either traversal visits them.         *)
(***************************************************************************)
EXTENDS ArchiveSession

N(k)    == [key |-> k, cased |-> FALSE]
Caps(k) == [key |-> k, cased |-> TRUE]

MCLength == [d \in Data |-> CASE d = "empty" -> 0
                              [] d = "short" -> 1
                              [] d = "long"  -> 3]

MCArtStorage == [k \in Keys |-> CASE k = 1 -> "Store"
                                  [] k = 3 -> "Compress"
                                  [] OTHER -> NotArt]

\* A member packed by the editor; a rank stands for its place in the blob.
Original(k, d, rank) ==
  [name |-> N(k), data |-> d, storage |-> "Brotli", encrypted |-> FALSE,
   verify |-> "SHA1Blocks", crc |-> {[data |-> d, storage |-> "Brotli"]},
   order |-> rank]

\* The editor records no checksum of an encrypted member here.
Encrypted(k, d, rank) ==
  [Original(k, d, rank) EXCEPT !.encrypted = TRUE, !.crc = {}]

PackedData ==
  (<<>>           :> [folders |-> <<[name |-> N(1)], [name |-> N(2)]>>,
                      files   |-> <<Original(1, "empty", 0)>>]) @@
  (<<N(1)>>       :> [folders |-> <<[name |-> N(3)]>>,
                      files   |-> <<>>]) @@
  (<<N(1), N(3)>> :> [folders |-> <<>>,
                      files   |-> <<Original(2, "short", 2)>>]) @@
  (<<N(2)>>       :> [folders |-> <<>>,
                      files   |-> <<Original(1, "short", 1),
                                    Original(1, "empty", 3),
                                    Encrypted(3, "long", 5)>>])

PackedInfo ==
  <<>> :> [folders |-> <<>>, files |-> <<Original(2, "long", 4)>>]

MCBases ==
  { <<>>,
    <<[alias |-> "data", tree |-> PackedData], [alias |-> "info", tree |-> PackedInfo]>> }

MCTargets == { [alias |-> "info", rel |-> <<Caps(2), N(1)>>] }

MCStoredRels == { <<N(2), N(1)>> }

MCPredicates == { {2} }

\* The archives to start from are such as the proofs suppose.
ASSUME BasesWhole /\ \A b \in MCBases, l \in Layouts : EmptiesInOrder(l, b)

(***************************************************************************)
(* A texture whose empty content the packer compressed, ahead in the blob  *)
(* of a member that either traversal visits first.  Stored again, as       *)
(* repackage_art does, it takes no room: both members start at one offset. *)
(* This is no archive such as EmptiesPacked asks for.                      *)
(***************************************************************************)
EmptyArt == [k \in Keys |-> IF k = 2 THEN "Store" ELSE NotArt]

EmptyArtBases ==
  { <<[alias |-> "data",
       tree  |-> <<>> :> [folders |-> <<>>,
                          files   |-> <<Original(1, "long", 1),
                                        Original(2, "empty", 0)>>]]>> }

=============================================================================
