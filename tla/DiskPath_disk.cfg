SPECIFICATION Spec
CONSTANTS
  t1 = t1
  t2 = t2
  a = a
  b = b
  fc1 = fc1
  fc2 = fc2
  tmpA = tmpA
  tmpB = tmpB
  Threads <- TwoThreads
  Sessions <- TwoSessions
  Hooks <- SharedLayer
  SessionOf <- FirstOf
  BaseOf <- OwnDirs
  NameOf <- SecondOf
  Fires <- SharedFires
  Scopes <- EveryOrMax
  ReadsUInt16 = TRUE
  OldFiles <- LeftOver
  Old = Old
  Garbled = Garbled
  MayFail = TRUE
  MaxForwards = 2
  MaxCalls = 2
INVARIANTS TypeOK NeverOverwritten StreamedExactly ReadbackSound ReadbackComplete MaxKPerClear RemovedIsGone
PROPERTIES WholeFilesStay
SYMMETRY ThreadSymmetry
