SPECIFICATION FairSpec
CONSTANTS
  Tasks = {t1, t2}
  Messages = {m1}
  NoItem = none
  Capacity = 1
  SendTimeouts = {1}
  RecvTimeouts = {0}
  K_FOREVER = 2
PROPERTIES
  TimedSendReturns
CHECK_DEADLOCK FALSE
