SPECIFICATION FairSpec
CONSTANTS
  NULL = NULL
  Boards <- MCBoards
  FramePeriod = 2
  FrameCosts = {1, 3}
  MaxSleep = 1
  MaxLag = 1
INVARIANT
  ScreenShowsScene
PROPERTY
  InitBeforeUse
  BootCompletesIfFramesFit
CHECK_DEADLOCK FALSE
