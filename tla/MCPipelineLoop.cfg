SPECIFICATION Spec
CONSTANTS
  Line <- MCLine
  Pid <- MCPid
  Shell = 0
  MAX_FD = 8
PROPERTY LoopGoesOn
CHECK_DEADLOCK FALSE
