SPECIFICATION Spec
CONSTANTS
  t1 = t1
  t2 = t2
  b1 = b1
  Threads <- MCOneThread
  Priorities <- MCPriorities
  Blocks <- MCOneBlock
  PreallocatedNodes = 3
  StorageNodes = 3
  MaxPush = 5
  MaxPending = 4
  Reuse = TRUE
  ClearFirst = TRUE
INVARIANTS NodeLifecycle
CHECK_DEADLOCK FALSE
