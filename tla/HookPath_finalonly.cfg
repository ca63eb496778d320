SPECIFICATION Spec
CONSTANTS
  t1 = t1
  t2 = t2
  fc1 = fc1
  fc2 = fc2
  NoOne = NoOne
  Threads <- TwoThreads
  Keys <- OneKey
  Fires <- OneFire
  Scopes <- FinalOnly
  Calls <- FinalRead
  Overlap = FALSE
  MayRaise = FALSE
  Crew <- OneFinal
  MaxForwards <- ThreeFinal
  MaxCalls = 1
INVARIANTS UnreducedKeepAll
