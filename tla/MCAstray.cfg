CONSTANTS
  Registry <- MCRegistry
  ClassByName <- MCClassByName
  HashOfName <- MCHashOfName
  ElementOf <- MCElementOf
  Graphs <- MCGraphs
  Documents <- MCDocuments
  Edits <- NoEdits
  NoBin = NoBin
SPECIFICATION ReflectionSpec
INVARIANT ReferencesWhereListed
CHECK_DEADLOCK FALSE
