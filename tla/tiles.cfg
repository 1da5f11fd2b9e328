SPECIFICATION FairSpec
CONSTANTS
  w1 = w1
  w2 = w2
  Worker = {w1, w2}
  Buffer <- TwoBuffers
  SlotCount = 2
  TileCount = 3
  CanFail = TRUE
INVARIANTS
  TypeOK
  SlotsExclusive
  SlotPromised
  EveryTileOnce
PROPERTIES
  CallsReturn
