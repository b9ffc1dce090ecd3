SPECIFICATION FairSpec
CHECK_DEADLOCK FALSE
CONSTANTS
  t1 = t1
  t2 = t2
  t3 = t3
  Tasks = {t1, t2, t3}
  Producers = {p1, p2}
  NWorkers = 2
  LocalQueue = FALSE
  Cancelable = TRUE
  Waitable = FALSE
  Prio <- PrioMC
  Urgent = {t3}
  Refused = {}
  HasComplete = {t1, t3}
  Async = {}
  MapKeys = {}
  OwnerCalls = {"spawn", "waitForAll"}
  Batch = TRUE
  Careful = TRUE
  NoTask = NoTask
  NoWorker = NoWorker
PROPERTIES BatchEnds
