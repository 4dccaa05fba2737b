SPECIFICATION FairSpec
CONSTANTS
  o1 = o1
  o2 = o2
  Obj = {o1, o2}
  Null = Null
  STACK_SIZE = 2
INVARIANTS
  TypeOK
  ReachableIsAllocated
  MarkFrontier
  NoStaleMark
  CountMatchesList
PROPERTIES
  GcIsComplete
  Refines
  GcReturns
