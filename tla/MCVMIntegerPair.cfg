SPECIFICATION Spec
CONSTANTS
  Files <- AllFiles
  Sources <- MCSources
  MAX_LABELS = 2
  INT_WIDTH = 6
  MEM_SIZE = 20
  STACK_SIZE = 3
  WIDTH = 12
  Addr <- MCAddr
  BreakArgs = {2, 9}
INVARIANT
  GcFollowsObjects
