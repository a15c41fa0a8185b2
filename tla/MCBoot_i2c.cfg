SPECIFICATION FairSpec
CONSTANTS
  NULL = NULL
  Boards <- TheBoard
  FramePeriod = 2
  FrameCosts = {1, 3}
  MaxSleep = 1
  MaxLag = 1
PROPERTY
  BusIsInitialised
CHECK_DEADLOCK FALSE
