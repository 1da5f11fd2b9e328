SPECIFICATION HasteSpec
CONSTANTS
  Counter = {1, 2, 3, 4}
  Card = {4}
  Prototype = {5}
  Clone <- MCClone
  PrototypeOf <- MCPrototypeOf
  NewStack <- MCNewStack
  Player = {"me"}
  Place = {20}
  HomeOf <- MCHomeOf
  Setups <- MCSetups
  Turns <- MCTurns
  Messages = {"GrabStack"}
  MaxMessages = 2
  MaxQueue = 9
INVARIANTS
  Predictable
CHECK_DEADLOCK FALSE
