SPECIFICATION FairSpec
CONSTANTS
  Tasks = {t1, t2}
  Idle = idle
  MaxPriority = 2
  TIME_SLICE_TICKS = 2
  MaxSleep = 2
  OneShotAlarm = TRUE
PROPERTIES
  HighestPriorityRuns
