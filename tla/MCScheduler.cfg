CONSTANTS
  Task = {t1, t2}
  NoTask = NoTask
  MAXQ <- const_MAXQ
  Capacities <- const_Capacities
  Budgets <- const_Budgets
  MaxDepth <- const_MaxDepth
SPECIFICATION FairSpec
INVARIANTS RingInv
PROPERTIES ImplementsFifo IdleMeansDrained QueuedTasksRun
