CONSTANTS
  Fd = {f1, f2}
  Mask <- const_Mask
  MaxWatchers = 2
  SchedCapacity = 2
  PumpBudget = 1
  MaxTimers = 2
  Delays <- const_Delays
  MaxClock = 2
  MaxCalls = 3
SPECIFICATION FairSpec
INVARIANTS LoopInv
PROPERTIES NothingLeftBehind TasksRun TimersFire StopEnds
CHECK_DEADLOCK FALSE
