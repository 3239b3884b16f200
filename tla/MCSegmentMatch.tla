--------------------------- MODULE MCSegmentMatch ---------------------------
(***************************************************************************)
(* All patterns up to MaxPattern characters long and all segments up to    *)
(* MaxSegment, over two letters, one of them in both cases.                *)
(***************************************************************************)
EXTENDS SegmentMatch

MCFold ==
  [c \in Letters \cup {Star, Any} |-> IF c = "A" THEN "a" ELSE c]

=============================================================================
