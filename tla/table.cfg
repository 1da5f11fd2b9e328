SPECIFICATION Spec
CONSTANTS
  Counter = {1, 2, 3, 4}
  Card = {4}
  Prototype = {5}
  Clone <- MCClone
  PrototypeOf <- MCPrototypeOf
  NewStack <- MCNewStack
  Player = {"me"}
  Place = {20}
  HomeOf <- MCHomeOf
  Setups <- MCSetups
  Turns <- MCTurns
  Messages = {"DragDropStack", "DragDropStackIntoOtherStack", "DragDropStackOnTopOfOtherStack", "DragDropPiece",
    "DragDropPieceOnTopOfOtherStack", "DragDropPieceIntoOtherStack", "DragDropPieceIntoSameStack", "MoveSelection",
    "DragDropStackIntoHand", "DragDropPieceIntoHand", "GrabStack", "GrabPiece", "RearrangePlayerHand",
    "AddPlayerHand", "RemovePlayerHand", "DragDropTerrain", "DragDropTerrainIntoHand", "GrabTerrain",
    "RemoveTerrain", "FlipTerrain", "RotateTerrain", "UnpunchPiece", "UnpunchStack", "UnpunchSelection",
    "FlipPiece", "FlipStack", "RotatePiece", "RotateStack", "Invert", "ShuffleResult",
    "FlipCounterSheet", "VisibleBoardChanged"}
  MaxMessages = 2
INVARIANTS
  TypeOK
  PiecesAccounted
  AttachedAreFlat
  UndoRestores
  ThrowsOnlyForTwins
  SavedGameKept
CHECK_DEADLOCK FALSE
