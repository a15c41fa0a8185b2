SPECIFICATION Spec
CONSTANTS
  NULL = NULL
  Boards <- EveryPanel
  FramePeriod = 2
  FrameCosts = {1, 3}
  MaxSleep = 1
  MaxLag = 1
INVARIANT
  PanelsGetTheirPixels
CHECK_DEADLOCK FALSE
