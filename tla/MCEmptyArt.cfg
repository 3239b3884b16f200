CONSTANTS
  Keys = {1, 2, 3}
  Data = {"empty", "short", "long"}
  Aliases = {"data", "info"}
  DefaultAlias = "data"
  Length <- MCLength
  BlockSize = 2
  ArtStorage <- EmptyArt
  Bases <- EmptyArtBases
  Targets <- MCTargets
  StoredRels <- MCStoredRels
  Predicates <- MCPredicates
  Versions = {10}
  MaxEdits = 2
SPECIFICATION SessionSpec
INVARIANT RoundTripExact
