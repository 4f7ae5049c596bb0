SPECIFICATION Spec
CONSTANTS
  Threads = {t1, t2}
  Scenarios <- MCReads
  MaxId = 10
  LeafUpper = 2
  LeafLower = 0
  InnerUpper = 4
  InnerLower = 1
  LeafDepth = 1
  InnerDepth = 2
  CacheSize = 1
INVARIANTS
  ParentDefined
SYMMETRY MCSymmetry
CHECK_DEADLOCK FALSE
