SPECIFICATION Spec
CONSTANTS
  Root = ""
  Names <- LayerNames
  Patterns <- Globs
  NameMatches <- ByName
  TypeMatches <- ByType
  Models <- NetOrLeaf
  Fns <- TwoFns
  PatternLists <- Lists
  Filters <- SomeFilters
  Captures <- OutputOrBoth
  SeedKinds <- SuffixedKeys
  MayFail = TRUE
  MaxFiles = 2
  MaxAttaches = 2
  MaxSeeds = 1
INVARIANTS TypeOK ResolvedAtAttach SharedAccumulator Covered TempFilesTracked SeedSeen
