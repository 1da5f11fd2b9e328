SPECIFICATION Spec
CONSTANTS
  h = h
  a = a
  x = x
  y = y
  Client = {h, a}
  Host = h
  Piece = {x, y}
  Turn = 3
  MaxEvents = 3
INVARIANTS
  SettledAngles
  TakesBackOwn
  OneRoundTrip
  WheelIsFree
CHECK_DEADLOCK FALSE
