CONSTANTS
  Letters = {"a", "A", "b"}
  Fold <- MCFold
  MaxPattern = 4
  MaxSegment = 4
SPECIFICATION Spec
INVARIANTS TypeOK BehindMatches AnswersRight
PROPERTY Terminates
CHECK_DEADLOCK FALSE
