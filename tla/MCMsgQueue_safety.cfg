SPECIFICATION Spec
CONSTANTS
  Tasks = {t1, t2, t3}
  Messages = {m1, m2}
  NoItem = none
  Capacity = 2
  SendTimeouts = {1}
  RecvTimeouts = {0, 2}
  K_FOREVER = 2
SYMMETRY QueueSymmetry
INVARIANTS
  TokenBalance
  RingConsistent
  WaitersConsistent
PROPERTIES
  LossOnlyAtRelease
  ChannelRefinement
CHECK_DEADLOCK FALSE
