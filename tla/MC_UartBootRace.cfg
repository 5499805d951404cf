SPECIFICATION ShellSpec
CONSTANTS
  NumTasks = 2
  NumSems = 1
  NumStacks = 2
  Prios = {9}
  InitCounts = {0}
  OS_SEM_COUNT_MAX = 6
  Timeouts = {"FOREVER"}
  SHELL_SHOW_MAX_LEN = 3
  FifoLen = 2
  Kinds = {"print", "erase", "enter", "other"}
  MaxTyped = 5
  EarlyTyping = TRUE
  MaxPeriods = 0
  Observing = FALSE
INVARIANT ShellWaitsForInput
CHECK_DEADLOCK FALSE
