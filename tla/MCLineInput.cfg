SPECIFICATION Spec
CONSTANTS
  Char <- MCChar
  Session <- MCSession
  LINE_SIZE = 8
  MAX_BUFFER_SIZE = 11
  MaxInterrupts = 1
INVARIANTS TypeOK CommandIsWhatWasTyped ParsesGrammar TokensCoverLine
PROPERTY EndOfInputEnds
CHECK_DEADLOCK FALSE
