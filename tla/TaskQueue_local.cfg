SPECIFICATION Spec
CHECK_DEADLOCK FALSE
CONSTANTS
  t1 = t1
  t2 = t2
  t3 = t3
  Tasks = {t1, t2, t3}
  Producers = {p1}
  NWorkers = 2
  LocalQueue = TRUE
  Cancelable = FALSE
  Waitable = FALSE
  Prio <- PrioMC
  Urgent = {t3}
  Refused = {}
  HasComplete = {t1, t3}
  Async = {t3}
  MapKeys = {0, 2}
  OwnerCalls = {"spawn", "cancel", "destroy"}
  Batch = FALSE
  Careful = FALSE
  NoTask = NoTask
  NoWorker = NoWorker
INVARIANTS LocalNotMissed WorkersEnd
PROPERTIES ImplementsTaskPool
