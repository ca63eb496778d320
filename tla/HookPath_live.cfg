SPECIFICATION Spec
CONSTANTS
  t1 = t1
  t2 = t2
  fc1 = fc1
  fc2 = fc2
  NoOne = NoOne
  Threads <- TwoThreads
  Keys <- TwoKeys
  Fires <- TwoFires
  Scopes <- Reducing
  Calls <- AllCalls
  Overlap = TRUE
  MayRaise = TRUE
  Crew <- PairReducing
  MaxForwards <- TwoReducing
  MaxCalls = 1
PROPERTIES ForwardsReturn
