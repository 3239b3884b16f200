CONSTANTS
  HashOf <- MCHashOf
  KeyOf <- MCKeyOf
  Numbers = {"7", "8"}
  Processes = {"first", "second"}
  Paths = {"base", "mid", "out"}
  NoFile = NoFile
  Sources <- MCSources
  Base = "base"
  Commands <- MCCommands
  XmlDocuments <- MCXmlDocuments
SPECIFICATION RgdSpec
INVARIANTS PatchedReadsAgain OnlyAegdChanges ValuesInPlace PatchesUndo BurnedReadsBack
PROPERTY ImplementsValueStore
CHECK_DEADLOCK FALSE
