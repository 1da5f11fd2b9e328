SPECIFICATION Spec
CONSTANTS
  w1 = w1
  w2 = w2
  Worker = {w1, w2}
  Buffer <- TwoBuffers
  SlotCount = 5
  TileCount = 4
  CanFail = FALSE
INVARIANTS
  NothingFreedInUse
