SPECIFICATION Spec
CONSTANTS
  Keys = {1,2,3,4}
  UpperThreshold = 4
  LowerThreshold = 1
  MaxDeltas = 3
INVARIANTS
  TypeOK
  NavigateExact
  LeftSiblingExact
  ConsolidationExact
CHECK_DEADLOCK FALSE
