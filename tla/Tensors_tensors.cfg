SPECIFICATION Spec
CONSTANTS
  fc1 = fc1
  fc2 = fc2
  ReadsUInt16 = TRUE
  Layers <- TwoLayers
  Model <- InOrder
  Scopes <- AllScopes
  Targets <- OneOrBoth
  Missing = {1, 8, 30}
  MaxForwards = 2
  MaxCalls = 4
  MaxWrites = 1
  MaxTorn = 1
  MaxDepth = 2
INVARIANTS TypeOK HandedStable Parity FoldClean DiskFaithful
PROPERTY ProgramTensorsIntact
