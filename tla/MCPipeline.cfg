SPECIFICATION Spec
CONSTANTS
  Line <- MCLine
  Pid <- MCPid
  Shell = 0
  MAX_FD = 8
INVARIANTS TypeOK PromptOwnsTerminal NoDescriptorLeft PipeJoinsNeighbours ForegroundIsDone
PROPERTY LineReturns
CHECK_DEADLOCK FALSE
