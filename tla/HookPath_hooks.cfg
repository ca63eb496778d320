SPECIFICATION Spec
CONSTANTS
  t1 = t1
  t2 = t2
  fc1 = fc1
  fc2 = fc2
  NoOne = NoOne
  Threads <- TwoThreads
  Keys <- TwoKeys
  Fires <- TwoFires
  Scopes <- AllScopes
  Calls <- SomeCalls
  Overlap = FALSE
  MayRaise = TRUE
  Crew <- SomeCrews
  MaxForwards <- SomeForwards
  MaxCalls = 2
INVARIANTS TypeOK HooksRaceFree MaxKBound NothingLost StoredOnce SampleExact FoldExact InOrder FinalIsLatest Aligned
PROPERTIES HooksOnlyAdd ImplementsLog
