SPECIFICATION Spec
CONSTANTS
  NULL = NULL
  NumCh = 2
  Idents = 1
  MaxPlugs = 2
INVARIANTS
  TypeOK
PROPERTIES
  StaleOnlyAfterGivingUp
CHECK_DEADLOCK FALSE
