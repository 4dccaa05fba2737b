SPECIFICATION Spec
CONSTANTS
  Char <- MCChar
  Session <- MCSession
  LINE_SIZE = 8
  MAX_BUFFER_SIZE = 11
  MaxInterrupts = 1
INVARIANT SingleQuotesGroup
CHECK_DEADLOCK FALSE
