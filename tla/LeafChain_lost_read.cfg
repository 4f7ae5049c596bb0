SPECIFICATION Spec
CONSTANTS
  Indexes <- MCMultiMap
  Values = {1, 2}
  UpperThreshold = 4
  LowerThreshold = 1
  MaxDepth = 2
  Reinserts = FALSE
INVARIANTS
  ReadExact
CHECK_DEADLOCK FALSE
