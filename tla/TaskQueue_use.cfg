SPECIFICATION Spec
CHECK_DEADLOCK FALSE
CONSTANTS
  t1 = t1
  t2 = t2
  t3 = t3
  Tasks = {t1, t2, t3}
  Producers = {p1, p2}
  NWorkers = 2
  LocalQueue = FALSE
  Cancelable = TRUE
  Waitable = TRUE
  Prio <- PrioMC
  Urgent = {t3}
  Refused = {t1}
  HasComplete = {t1, t3}
  Async = {}
  MapKeys = {}
  OwnerCalls = {"spawn", "update", "waitForAll", "wait", "finalize", "cancel"}
  Batch = FALSE
  Careful = TRUE
  NoTask = NoTask
  NoWorker = NoWorker
INVARIANTS TypeOK CounterExact
PROPERTIES WaitForAllDrains ImplementsTaskPool
