SPECIFICATION Spec
CONSTANTS
  TaskCapacity = 2
  LogicalLimit = 4
  ParContextCapacity = 1
  ParValueCapacity = 2
  ActiveLimit = 1
  Locals <- MCLocals
  Programs <- MCPrograms
  BatchSizes <- MCBatchSizes
  MaxHandle = 4
  StackBound = 2
INVARIANTS
  WorkFollowsTable
  
  CanonicalWindow
  NoStrandedWork

  
CHECK_DEADLOCK FALSE
