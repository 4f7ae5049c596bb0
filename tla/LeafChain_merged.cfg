SPECIFICATION Spec
CONSTANTS
  Indexes <- MCIndexes
  Values = {1, 2}
  UpperThreshold = 4
  LowerThreshold = 1
  MaxDepth = 2
  Reinserts = FALSE
INVARIANTS
  TypeOK
  ConsolidationExact
  NavigateExact
PROPERTY
  SplitFair
CHECK_DEADLOCK FALSE
