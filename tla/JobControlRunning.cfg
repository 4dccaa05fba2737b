CONSTANTS
  Pid = {2, 3, 4}
  MAX_JOBS = 2
  Shell = 1
  NoPid = 0
SPECIFICATION Spec
INVARIANT RunningIsExecuting
