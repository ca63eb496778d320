SPECIFICATION Spec
CONSTANTS
  fc1 = fc1
  fc2 = fc2
  ReadsUInt16 = TRUE
  Layers <- TwoLayers
  Model <- InOrder
  Scopes <- DiskReduced
  Targets <- OneOrBoth
  Missing = {}
  MaxForwards = 2
  MaxCalls = 4
  MaxWrites = 0
  MaxTorn = 0
  MaxDepth = 1
INVARIANTS DiskFolds
