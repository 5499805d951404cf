SPECIFICATION MutexSpec
CONSTANTS
  NumTasks = 4
  NumSems = 2
  NumStacks = 5
  Prios = {5, 10, 15}
  InitCounts = {1}
  OS_SEM_COUNT_MAX = 1
  Timeouts = {"NO_WAIT", "FOREVER"}
  MaxHeld = 1
INVARIANT HolderCoversWaiters
CHECK_DEADLOCK FALSE
