CONSTANTS
  Registry <- MCRegistry
  ClassByName <- MCClassByName
  HashOfName <- MCHashOfName
  ElementOf <- MCElementOf
  Graphs <- MCGraphs
  Documents <- MCDocuments
  Edits <- NoEdits
  NoBin = NoBin
SPECIFICATION ReflectionSpec
INVARIANTS ChildrenAsListed NoOverlap NumbersAligned TablesExact DecompiledIsSource
PROPERTY RecompiledIsSame
CHECK_DEADLOCK FALSE
