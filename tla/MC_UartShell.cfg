SPECIFICATION ShellSpec
CONSTANTS
  NumTasks = 2
  NumSems = 2
  NumStacks = 2
  Prios = {9}
  InitCounts = {0}
  OS_SEM_COUNT_MAX = 6
  Timeouts = {"FOREVER"}
  SHELL_SHOW_MAX_LEN = 3
  FifoLen = 2
  Kinds = {"print", "erase", "enter"}
  MaxTyped = 5
  EarlyTyping = FALSE
  MaxPeriods = 1
  Observing = TRUE
INVARIANTS ShellTypeOK TokensMatchUnread EchoIsCommand
PROPERTIES ReadsInOrder EveryCharacterIsRead HandlersEnd
CHECK_DEADLOCK FALSE
