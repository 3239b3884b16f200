CONSTANTS
  Keys <- MCKeys
  Data <- MCData
  Aliases <- MCAliases
  ArtStorage <- MCArtStorage
  Projects <- MCProjects
  ByteRank <- MCByteRank
  Ext <- MCExt
  BurnedKey <- MCBurnedKey
  LocalePath <- MCLocalePath
  SegmentMatches <- MCSegmentMatches
  Compiled <- MCCompiled
  Rejected = 0
  MaxFiles = 2
SPECIFICATION Spec
INVARIANT BuiltSearchable
CHECK_DEADLOCK FALSE
