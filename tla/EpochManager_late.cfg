SPECIFICATION Spec
CONSTANTS
  Threads = {t1, t2}
  Nodes = {n1, n2, n3}
  NoNode = NoNode
  MaxThreadCount = 5
  MaxEpoch = 2
  StalledJoin = TRUE
INVARIANTS
  TypeOK
  FreedOnce
  EpochsCleared
SYMMETRY MCSymmetry
