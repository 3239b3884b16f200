CONSTANTS
  Keys <- MCKeys
  Data <- MCData
  Aliases <- MCAliases
  ArtStorage <- MCArtStorage
  Archives <- MCArchives
  Disks <- MCDisks
  Requests <- MCRequests
  Torn = 0
  Nothing = 100
  MaxRuns = 3
  Unreadable <- MCUnreadable
  DerivedFrom <- MCDerivedFrom
  Derivers <- MCDerivers
  ModNames <- MCModNames
  HeaderMod <- MCHeaderMod
  ModText = 20
SPECIFICATION Spec
INVARIANTS DoneAgreesWithLookup UnpackedIsLast NothingElsewhere
PROPERTY ExtractionsKeepFiles
CHECK_DEADLOCK FALSE
