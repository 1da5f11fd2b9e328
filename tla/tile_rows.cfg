SPECIFICATION Spec
CONSTANTS
  Band = 4
  MaxHeight = 40
INVARIANTS
  TilesShowTheirLines
  TilesFit
