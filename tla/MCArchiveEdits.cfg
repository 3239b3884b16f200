CONSTANTS
  Keys = {1, 2, 3}
  Data = {"d1", "d2"}
  Aliases = {"data", "info"}
  DefaultAlias = "data"
  ArtStorage <- MCArtStorage
  Bases <- MCBases
  Targets <- MCTargets
  StoredRels <- MCStoredRels
  Predicates <- MCPredicates
SPECIFICATION Spec
INVARIANTS TypeOK TablesSorted NamesLower
PROPERTIES ImplementsMemberStore DoublesNeverGrow
