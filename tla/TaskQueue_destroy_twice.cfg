SPECIFICATION Spec
CHECK_DEADLOCK FALSE
CONSTANTS
  t1 = t1
  t2 = t2
  t3 = t3
  Tasks = {t1}
  Producers = {p1}
  NWorkers = 1
  LocalQueue = FALSE
  Cancelable = TRUE
  Waitable = FALSE
  Prio <- PrioMC
  Urgent = {}
  Refused = {}
  HasComplete = {t1, t3}
  Async = {}
  MapKeys = {}
  OwnerCalls = {"spawn", "waitForAll", "cancel", "destroy"}
  Batch = FALSE
  Careful = TRUE
  NoTask = NoTask
  NoWorker = NoWorker
INVARIANTS NoFault
