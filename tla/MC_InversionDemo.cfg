SPECIFICATION DemoSpec
CONSTANTS
  NumTasks = 9
  NumSems = 4
  NumStacks = 9
  Prios = {9}
  InitCounts = {0}
  OS_SEM_COUNT_MAX = 6
  Timeouts = {"FOREVER"}
  SHELL_SHOW_MAX_LEN = 5
  FifoLen = 2
  Kinds = {"enter"}
  MaxTyped = 4
  EarlyTyping = FALSE
  MaxPeriods = 2
  Observing = TRUE
  HighLoops = 3
  Overlapping = FALSE
  LowLoops = 2
INVARIANTS ResourceExclusive OnlyHolderRuns PriorityReturned WaitMeasured ReportsStand
PROPERTIES DemoEnds EveryCharacterIsRead
CHECK_DEADLOCK FALSE
