SPECIFICATION Spec
CONSTANTS
  Root = ""
  Names <- LayerNames
  Patterns <- Globs
  NameMatches <- ByName
  TypeMatches <- ByType
  Models <- Net
  Fns <- OneFn
  PatternLists <- OneList
  Filters <- NoFilter
  Captures <- OnlyOutput
  SeedKinds <- BareNames
  MayFail = FALSE
  MaxFiles = 1
  MaxAttaches = 1
  MaxSeeds = 1
INVARIANTS SeedSeen
