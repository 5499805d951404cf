SPECIFICATION MutexSpec
CONSTANTS
  NumTasks = 5
  NumSems = 1
  NumStacks = 5
  Prios = {5, 10, 15}
  InitCounts = {1}
  OS_SEM_COUNT_MAX = 1
  Timeouts = {"NO_WAIT", "FOREVER"}
  MaxHeld = 1
INVARIANTS RunningIsHighest BoostHasWaiter IdleMeansNobodyWaits
PROPERTY HolderRaisedOnWait
CHECK_DEADLOCK FALSE
