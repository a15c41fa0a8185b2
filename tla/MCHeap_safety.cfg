SPECIFICATION Spec
CONSTANTS
  HEAP_UNITS = 9
  MAX_FL = 4
  MAX_SL = 2
  WORD = 1024
  Requests <- SmallRequests
INVARIANTS
  TypeOK
  HeapConsistent
  FindsWhatFits
PROPERTIES
  ShortOnlyInOwnClass
CHECK_DEADLOCK FALSE
