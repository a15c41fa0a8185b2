SPECIFICATION Spec
CONSTANTS
  HEAP_UNITS = 9
  MAX_FL = 4
  MAX_SL = 2
  WORD = 1024
  Requests <- SmallRequests
PROPERTIES
  SplitsLargeRemainders
CHECK_DEADLOCK FALSE
