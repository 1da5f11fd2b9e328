SPECIFICATION Spec
CONSTANTS
  h = h
  a = a
  b = b
  Client = {h, a}
  Host = h
  Kinds = {"do", "rotate", "undo", "redo", "shuffle"}
  MaxRequests = 2
  MaxLoads = 1
  MaxJoins = 2
  MaxLeaves = 1
  OldSeq = 1
  UndoLimit = 1
INVARIANTS
  TypeOK
  AcceptedIsCurrent
  OwnChangeAppliesToBase
  UndoIsLatest
  SessionsApart
  HostLeads
  Agreement
  NobodyLockedOut
CHECK_DEADLOCK FALSE
