SPECIFICATION FairSpec
CONSTANTS
  Tasks = {t1, t2, t3}
  Idle = idle
  MaxPriority = 2
  TIME_SLICE_TICKS = 2
  MaxSleep = 2
  OneShotAlarm = FALSE
INVARIANTS
  IndInv
PROPERTIES
  DispatchHighest
  NoInversionAfterTick
  SleepersWakeOnTime
  HighestPriorityRuns
