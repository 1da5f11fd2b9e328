SPECIFICATION HistorySpec
CONSTANTS
  h = h
  a = a
  b = b
  Client = {h, a}
  Host = h
  Kinds = {"do", "undo", "redo", "shuffle"}
  MaxRequests = 2
  MaxLoads = 1
  MaxJoins = 1
  MaxLeaves = 1
  OldSeq = 0
  UndoLimit = 2
PROPERTIES
  NumbersGrow
  ImplementsSharedTable
  RequestsAnswered
CHECK_DEADLOCK FALSE
