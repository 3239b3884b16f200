CONSTANTS
  Registry <- MCRegistry
  ClassByName <- MCClassByName
  HashOfName <- MCHashOfName
  ElementOf <- MCElementOf
  Graphs <- MCGraphs
  Documents <- MCDocuments
  Edits <- MCEdits
  NoBin = NoBin
SPECIFICATION ReflectionSpec
INVARIANT ReusedAreInvariant
CHECK_DEADLOCK FALSE
