SPECIFICATION Spec
CONSTANTS
  Threads = {t1, t2}
  Scenarios <- MCAll
  MaxId = 12
  LeafUpper = 2
  LeafLower = 0
  InnerUpper = 4
  InnerLower = 1
  LeafDepth = 1
  InnerDepth = 2
  CacheSize = 1
INVARIANTS
  TypeOK
  ContentsKept
  SeparatorsExact
  ReleasedUnreachable
  DeletedIsRemoved
  ScanExact
PROPERTIES
  RefinesIndex
SYMMETRY MCSymmetry
CHECK_DEADLOCK FALSE
