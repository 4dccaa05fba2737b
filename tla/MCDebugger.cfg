SPECIFICATION Spec
CONSTANTS
  Program <- MCProgram
  BreakAddr <- MCBreakAddr
  Entry = 0
  WORD = 2
INVARIANTS TypeOK TrapsMatchList ExitIsNoticed QuitLeavesNoChild
PROPERTIES Transparent BreakpointStops CommandReturns
CHECK_DEADLOCK FALSE
