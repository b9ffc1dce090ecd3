SPECIFICATION FairSpec
CHECK_DEADLOCK FALSE
CONSTANTS
  t1 = t1
  t2 = t2
  t3 = t3
  Tasks = {t1}
  Producers = {p1}
  NWorkers = 1
  LocalQueue = FALSE
  Cancelable = FALSE
  Waitable = FALSE
  Prio <- PrioMC
  Urgent = {}
  Refused = {}
  HasComplete = {}
  Async = {}
  MapKeys = {}
  OwnerCalls = {"spawn"}
  Batch = FALSE
  Careful = TRUE
  NoTask = NoTask
  NoWorker = NoWorker
PROPERTIES PerformedIsExecuted
