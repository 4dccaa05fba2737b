SPECIFICATION Spec
CONSTANTS
  Program <- MCProgram
  BreakAddr <- MCBreakAddr
  Entry = 0
  WORD = 2
PROPERTY ContinueIsTransparent
CHECK_DEADLOCK FALSE
