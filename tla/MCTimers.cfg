CONSTANTS
  MaxTimers = 3
  MaxSets = 4
  Wrap <- const_Wrap
  Start <- const_Start
  MaxClock <- const_MaxClock
  Delays <- const_Delays
SPECIFICATION Spec
CHECK_DEADLOCK FALSE
INVARIANTS HeapInv
PROPERTIES FiresWhenDue CleanTickComplete
