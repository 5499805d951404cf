SPECIFICATION Spec
CONSTANTS
  OS_MAX_SHOW_LEN = 5
  ShortBits = 4
  IntBits = 5
  LongBits = 8
  TmpLen = 5
  Values = {0, 1, 7, 8, 15, 16, 31, 128, 255}
  Widths <- MCWidths
  Precisions <- MCPrecisions
  Texts <- MCTexts
  MaxItems = 2
  UART_BUSY_TIMEOUT = 2
INVARIANTS FieldReadsBack ScreenIsText
PROPERTIES TextIsPrefix PrintEnds
CHECK_DEADLOCK FALSE
