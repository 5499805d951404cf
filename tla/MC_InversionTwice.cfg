SPECIFICATION DemoSpec
CONSTANTS
  NumTasks = 9
  NumSems = 4
  NumStacks = 7
  Prios = {9}
  InitCounts = {0}
  OS_SEM_COUNT_MAX = 6
  Timeouts = {"FOREVER"}
  SHELL_SHOW_MAX_LEN = 5
  FifoLen = 2
  Kinds = {"enter"}
  MaxTyped = 4
  EarlyTyping = FALSE
  MaxPeriods = 0
  Observing = FALSE
  HighLoops = 3
  Overlapping = TRUE
  LowLoops = 2
INVARIANT ResourceExclusive
CHECK_DEADLOCK FALSE
