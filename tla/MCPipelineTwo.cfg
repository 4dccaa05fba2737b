SPECIFICATION Spec
CONSTANTS
  Line <- MCTwoPipelines
  Pid <- MCPid
  Shell = 0
  MAX_FD = 8
INVARIANT OutputGoesToNext
CHECK_DEADLOCK FALSE
