SPECIFICATION Spec
CONSTANTS
  s1 = s1
  s2 = s2
  r1 = r1
  r2 = r2
  fc1 = fc1
  fc2 = fc2
  Scopes <- OneScope
  Keys <- OneKey
  Selections <- OneLayer
  Runners <- OneRunner
  Overlap = TRUE
  MayRaise = FALSE
  MaxAttaches = 2
  MaxVisits = 2
  MaxDepth = 1
INVARIANTS StateAlive
