SPECIFICATION Spec
CONSTANTS
  Boards <- MCBoards
  MaxDisturbed = 1
INVARIANTS
  PrimariesAreFirst
  ClaimsAnswer
  OverlapsOnAckAlone
  KnownChipsFound
PROPERTIES
  ClaimsAreStable
CHECK_DEADLOCK FALSE
