SPECIFICATION Spec
CONSTANTS
  h = h
  a = a
  b = b
  Client = {h, a, b}
  Host = h
  GuidOf <- MCGuidOf
  playerColors <- MCColors
  MaxJoins = 3
  MaxLeaves = 1
  MaxAsks = 1
CONSTRAINT Unhurried
SYMMETRY Instances
INVARIANTS
  PlayersDiffer
  HostPlayersDiffer
  HostFindsColor
  ListsAgree
  HandsAgree
  OwnHandsInTurn
CHECK_DEADLOCK FALSE
