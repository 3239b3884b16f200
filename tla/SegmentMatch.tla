---------------------------- MODULE SegmentMatch ----------------------------
(***************************************************************************)
(* seg_match of crates/sga/src/build.rs: the loop that matches one segment *)
(* of a burn rule's pattern with one component of a path, ignoring case,   *)
(* `*' for any run and `?' for one character.  It keeps one place to go    *)
(* back to, the last star, and so never tries an earlier star again.       *)
(***************************************************************************)
EXTENDS Integers, Sequences

CONSTANTS
  Letters,                  \* the characters of file names
  Fold,                     \* to_ascii_lowercase
  MaxPattern, MaxSegment    \* bounds on the two lengths

VARIABLES
  pattern, segment,
  pi, si,       \* the characters of each that are behind us
  star, mark,   \* where the last star is, and what it has taken so far
  answer

vars == <<pattern, segment, pi, si, star, mark, answer>>

Star == "*"
Any  == "?"
None == -1

ASSUME LettersAssumption ==
  /\ DOMAIN Fold = Letters \cup {Star, Any}
  /\ Fold[Star] = Star /\ Fold[Any] = Any
  \* a name of a file has no star in it
  /\ \A c \in Letters : Fold[c] # Star
  /\ MaxPattern \in Nat /\ MaxSegment \in Nat

Strings(chars, max) == UNION {[1 .. n -> chars] : n \in 0 .. max}

\* A star is compared like any other character: it takes a star.
TakesOne(p, c) == p = Any \/ Fold[p] = Fold[c]

Init ==
  /\ pattern \in Strings(Letters \cup {Star, Any}, MaxPattern)
  /\ segment \in Strings(Letters, MaxSegment)
  /\ pi = 0 /\ si = 0
  /\ star = None /\ mark = 0
  /\ answer = "open"

Running == answer = "open" /\ si < Len(segment)

Advances == pi < Len(pattern) /\ TakesOne(pattern[pi + 1], segment[si + 1])

MeetsStar == ~ Advances /\ pi < Len(pattern) /\ pattern[pi + 1] = Star

Stuck == ~ Advances /\ ~ MeetsStar

Advance ==
  /\ Running /\ Advances
  /\ pi' = pi + 1
  /\ si' = si + 1
  /\ UNCHANGED <<pattern, segment, star, mark, answer>>

TakeStar ==
  /\ Running /\ MeetsStar
  /\ star' = pi
  /\ mark' = si
  /\ pi' = pi + 1
  /\ UNCHANGED <<pattern, segment, si, answer>>

\* Mutants of the next operator: the star takes no more than before; it goes
\* on from where the pattern failed, in the pattern or in the segment; and it
\* meets the star itself again.
BacktrackedInPlace == [pi |-> star + 1, si |-> mark + 1, mark |-> mark]

BacktrackedKeepingPattern == [pi |-> pi, si |-> mark + 1, mark |-> mark + 1]

BacktrackedKeepingSegment == [pi |-> star + 1, si |-> si + 1, mark |-> mark + 1]

BacktrackedToStar == [pi |-> star, si |-> mark + 1, mark |-> mark + 1]

\* Where to go back to: the last star takes one character more.
Backtracked == [pi |-> star + 1, si |-> mark + 1, mark |-> mark + 1]

Backtrack ==
  /\ Running /\ Stuck /\ star # None
  /\ pi' = Backtracked.pi
  /\ si' = Backtracked.si
  /\ mark' = Backtracked.mark
  /\ UNCHANGED <<pattern, segment, star, answer>>

GiveUp ==
  /\ Running /\ Stuck /\ star = None
  /\ answer' = "no"
  /\ UNCHANGED <<pattern, segment, pi, si, star, mark>>

\* The end of the segment: what is left of the pattern must be stars.
OnlyStarsLeft == \A i \in pi + 1 .. Len(pattern) : pattern[i] = Star

Conclude ==
  /\ answer = "open" /\ si = Len(segment)
  /\ answer' = IF OnlyStarsLeft THEN "yes" ELSE "no"
  /\ UNCHANGED <<pattern, segment, pi, si, star, mark>>

Next == Advance \/ TakeStar \/ Backtrack \/ GiveUp \/ Conclude

\* One thread runs the loop, so it takes its steps.
Spec == Init /\ [][Next]_vars /\ WF_vars(Next)

(***************************************************************************)
(* Properties.                                                             *)
(***************************************************************************)

\* What a pattern means, by the comment of seg_match and whatever the loop
\* does: where in the segment s the first m characters of the pattern p may end.
Ends(p, s) ==
  LET ends[m \in 0 .. Len(p)] ==
        IF m = 0 THEN {0}
        ELSE LET before == ends[m - 1]
             IN  IF p[m] = Star
                 THEN {n \in 0 .. Len(s) : \E k \in before : k <= n}
                 ELSE {n \in 1 .. Len(s) : n - 1 \in before
                                            /\ (p[m] = Any \/ Fold[p[m]] = Fold[s[n]])}
  IN  ends

\* The first i characters of the pattern match the first j of the segment.
Matched(i, j) == j \in Ends(pattern, segment)[i]

\* No index leaves its string, and the place to go back to is behind us.
TypeOK ==
  /\ pi \in 0 .. Len(pattern) /\ si \in 0 .. Len(segment)
  /\ star \in {None} \cup 0 .. pi - 1
  /\ mark \in 0 .. si
  /\ answer \in {"open", "yes", "no"}

\* The part of the pattern behind us matches the part of the segment behind us,
\* and the part up to the last star what it has taken: going back is sound.
BehindMatches ==
  /\ Matched(pi, si)
  /\ star # None => pattern[star + 1] = Star /\ Matched(star + 1, mark)

\* Keeping the last star only never loses a match and never invents one.
AnswersRight ==
  answer # "open" => (answer = "yes") = Matched(Len(pattern), Len(segment))

\* The loop ends although it goes back.
Terminates == <>(answer # "open")

=============================================================================
