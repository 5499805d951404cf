SPECIFICATION Spec
CONSTANTS
  NumTasks = 5
  NumSems = 2
  NumStacks = 4
  Prios = {5, 10}
  InitCounts = {0, 2}
  OS_SEM_COUNT_MAX = 1
  Timeouts = {"NO_WAIT", "FOREVER"}
INVARIANTS TypeOK ListsWellFormed NoIdleToken RunningIsReady HighestIsCurrent PoolsConserved NeverDemoted
PROPERTIES ExitedStaysExited ImplementsFifoSemaphore
