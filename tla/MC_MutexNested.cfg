SPECIFICATION MutexSpec
CONSTANTS
  NumTasks = 4
  NumSems = 2
  NumStacks = 5
  Prios = {5, 10, 15}
  InitCounts = {1}
  OS_SEM_COUNT_MAX = 1
  Timeouts = {"NO_WAIT", "FOREVER"}
  MaxHeld = 2
INVARIANT BoostHasWaiter
CHECK_DEADLOCK FALSE
