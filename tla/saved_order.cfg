SPECIFICATION Spec
CONSTANTS
  Counter = {1, 2, 3, 4}
  Card = {4}
  Prototype = {5}
  Clone <- MCClone
  PrototypeOf <- MCPrototypeOf
  NewStack <- MCNewStack
  Player = {"me"}
  Place = {20}
  HomeOf <- MCHomeOf
  Setups <- MCTerrainInHand
  Turns <- MCTurns
  Messages = {"DragDropTerrain"}
  MaxMessages = 2
INVARIANTS
  SameTerrain
CHECK_DEADLOCK FALSE
