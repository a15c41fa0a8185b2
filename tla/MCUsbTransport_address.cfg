SPECIFICATION Spec
CONSTANTS
  NULL = NULL
  NumCh = 2
  Idents = 1
  MaxPlugs = 2
INVARIANTS
  SetAddressReachesPhone
CHECK_DEADLOCK FALSE
