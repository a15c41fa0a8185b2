SPECIFICATION FairSpec
CONSTANTS
  NULL = NULL
  Boards <- TheBoard
  FramePeriod = 1
  FrameCosts = {5}
  MaxSleep = 1
  MaxLag = 1
PROPERTY
  BootCompletes
CHECK_DEADLOCK FALSE
