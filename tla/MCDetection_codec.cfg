SPECIFICATION Spec
CONSTANTS
  Boards <- MCBoards
  MaxDisturbed = 0
INVARIANT
  CodecsKeepTheirNames
CHECK_DEADLOCK FALSE
