SPECIFICATION Spec
CONSTANTS
  Boards <- MCBoards
  MaxDisturbed = 0
INVARIANT
  SupportedTouchStarts
CHECK_DEADLOCK FALSE
