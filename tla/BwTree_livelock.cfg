SPECIFICATION FairSpec
CONSTANTS
  Threads = {t1, t2}
  Scenarios <- MCStale
  MaxId = 12
  LeafUpper = 2
  LeafLower = 0
  InnerUpper = 4
  InnerLower = 1
  LeafDepth = 1
  InnerDepth = 2
  CacheSize = 1
PROPERTIES
  OpsTerminate
CHECK_DEADLOCK FALSE
