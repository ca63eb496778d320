SPECIFICATION Spec
CONSTANTS
  s1 = s1
  s2 = s2
  r1 = r1
  r2 = r2
  fc1 = fc1
  fc2 = fc2
  Scopes <- TwoScopes
  Keys <- TwoKeys
  Selections <- BothLayers
  Runners <- OneRunner
  Overlap = FALSE
  MayRaise = TRUE
  MaxAttaches = 2
  MaxVisits = 2
  MaxDepth = 2
INVARIANTS TypeOK StateAlive NoOrphanHooks ExitDetaches
PROPERTIES Isolation
