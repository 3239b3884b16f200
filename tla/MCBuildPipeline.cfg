CONSTANTS
  Keys <- MCKeys
  Data <- MCData
  Aliases <- MCAliases
  ArtStorage <- MCArtStorage
  Projects <- MCProjects
  ByteRank <- MCByteRank
  Ext <- MCExt
  BurnedKey <- MCBurnedKey
  LocalePath <- MCLocalePath
  SegmentMatches <- MCSegmentMatches
  Compiled <- MCCompiled
  Rejected = 0
  MaxFiles = 5
SPECIFICATION Spec
INVARIANTS BuildTypeOK BuiltAsDeclared TocsDistinctAndFilled FoldersSearchable TidyBuildSearchable
CHECK_DEADLOCK FALSE
