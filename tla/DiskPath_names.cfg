SPECIFICATION Spec
CONSTANTS
  t1 = t1
  t2 = t2
  a = a
  b = b
  fc1 = fc1
  fc2 = fc2
  tmpA = tmpA
  tmpB = tmpB
  Threads <- OneThread
  Sessions <- OneSession
  Hooks <- TwoLayers
  SessionOf <- FirstOf
  BaseOf <- OwnDirs
  NameOf <- OneName
  Fires <- TwoFires
  Scopes <- EveryScope
  ReadsUInt16 = TRUE
  OldFiles = {}
  Old = Old
  Garbled = Garbled
  MayFail = FALSE
  MaxForwards = 2
  MaxCalls = 2
INVARIANTS StreamedExactly
