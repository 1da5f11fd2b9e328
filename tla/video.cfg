SPECIFICATION Spec
CONSTANTS
  Ids = 8
  MaxUnacked = 3
  MaxPictures = 10
  MaxJobs = 2
  SenderReturns = 0
  RecipientReturns = 1
  MaxReturns <- MCReturns
INVARIANTS
  SeenAsSent
  ReferenceKept
PROPERTIES
  PicturesAdvance
CHECK_DEADLOCK FALSE
