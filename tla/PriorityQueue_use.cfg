SPECIFICATION Spec
CONSTANTS
  t1 = t1
  t2 = t2
  b1 = b1
  Threads <- MCThreads
  Priorities <- MCPriorities
  Blocks <- MCOneBlock
  PreallocatedNodes = 2
  StorageNodes = 4
  MaxPush = 5
  MaxPending = 4
  Reuse = FALSE
  ClearFirst = TRUE
INVARIANTS NodeLifecycle
PROPERTIES ImplementsSortedQueue
SYMMETRY Symmetry
CHECK_DEADLOCK FALSE
