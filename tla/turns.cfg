SPECIFICATION HasteSpec
CONSTANTS
  Counter = {1, 2, 4}
  Card = {4}
  Prototype = {5}
  Clone <- MCClone
  PrototypeOf <- MCPrototypeOf
  NewStack <- MCNewStack
  Player = {"me"}
  Place = {20}
  HomeOf <- MCHomeOf
  Setups <- MCTurnSetups
  Turns <- MCTurns
  Messages = {"FlipPiece", "FlipStack", "RotatePiece", "RotateStack", "FlipTerrain", "RotateTerrain",
    "VisibleBoardChanged", "AddPlayerHand", "RemovePlayerHand", "RearrangePlayerHand"}
  MaxMessages = 3
  MaxQueue = 9
INVARIANTS
  Predictable
CHECK_DEADLOCK FALSE
