SPECIFICATION Spec
CONSTANTS
  N = 3
  Values = {0, 1}
  Uninit = Uninit
  NullSnap = NullSnap
  LabelPeriod = 8
  MaxStores = 2
INVARIANTS
  TypeOK
  GateProtectsConstruction
  CleanScanIsSnapshot
  StolenSnapshotIsNested
  WaitFree
  ReturnedCountExact
