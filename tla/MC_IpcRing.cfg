SPECIFICATION RingSpec
CONSTANTS
  NumTasks = 6
  NumSems = 4
  NumStacks = 6
  Prios = {9}
  InitCounts = {0}
  OS_SEM_COUNT_MAX = 6
  Timeouts = {"FOREVER"}
  SHELL_SHOW_MAX_LEN = 5
  FifoLen = 2
  Kinds = {"enter"}
  MaxTyped = 4
  EarlyTyping = FALSE
  MaxPeriods = 0
  Observing = FALSE
  RING_BUF_SIZE = 4
  PER_TASK = 5
  TaskPrios <- BothPrios
INVARIANTS SlotsAccounted MutualExclusion SnapshotConsistent
PROPERTIES ImplementsBoundedBuffer DemoEnds
CHECK_DEADLOCK FALSE
