SPECIFICATION Spec
CONSTANTS
  Tasks = {t1, t2, t3}
  Idle = idle
  NULL = null
  MaxPriority = 3
  BasePriorities = {1, 2, 3}
  TIME_SLICE_TICKS = 2
  LockTimeouts = {1, 2}
  K_FOREVER = 2
CHECK_DEADLOCK FALSE
SYMMETRY TaskSymmetry
INVARIANTS
  TypeOK
  MutualExclusion
  WaitersConsistent
  BoostEndsWithOwnership
PROPERTIES
  RaiseFindsOwner
  SchedulerRefinement
