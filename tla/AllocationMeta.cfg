SPECIFICATION Spec
CONSTANTS
  Threads = {t1, t2, t3}
  Chunks = {c0, c1, c2, c3, c4, c5}
  First = c0
  NULL = NULL
  Sizes = {2, 3}
  MaxSize = 3
  ChunkBytes = 5
  MaxSlots = 5
SYMMETRY MCSymmetry
INVARIANTS
  TypeOK
  SlotsDisjoint
  ChunksFreed
