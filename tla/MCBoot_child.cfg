SPECIFICATION Spec
CONSTANTS
  NULL = NULL
  Boards <- TheBoard
  FramePeriod = 2
  FrameCosts = {1, 3}
  MaxSleep = 1
  MaxLag = 1
INVARIANT
  NoMissingChildDrawn
CHECK_DEADLOCK FALSE
