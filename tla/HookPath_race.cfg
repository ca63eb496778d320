SPECIFICATION Spec
CONSTANTS
  t1 = t1
  t2 = t2
  fc1 = fc1
  fc2 = fc2
  NoOne = NoOne
  Threads <- TwoThreads
  Keys <- OneKey
  Fires <- OneFire
  Scopes <- Keeping
  Calls <- ClearRead
  Overlap = TRUE
  MayRaise = FALSE
  Crew <- PairKeeping
  MaxForwards <- ThreeKeeping
  MaxCalls = 1
INVARIANTS CallsRaceFree
