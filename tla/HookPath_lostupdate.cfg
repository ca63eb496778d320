SPECIFICATION Spec
CONSTANTS
  t1 = t1
  t2 = t2
  fc1 = fc1
  fc2 = fc2
  NoOne = NoOne
  Threads <- TwoThreads
  Keys <- OneKey
  Fires <- OneFire
  Scopes <- Reducing
  Calls <- NoCalls
  Overlap = FALSE
  MayRaise = FALSE
  Crew <- PairReducing
  MaxForwards <- ThreeReducing
  MaxCalls = 1
INVARIANTS FoldExact
