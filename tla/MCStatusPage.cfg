CONSTANTS
  disk = disk
  load = load
  w1 = w1
  Names <- MCNames
  Executors <- MCWorkers
  QueueCount = 0
  MaxRuns = 1
  StatusOf <- MCStatusOf
  MaxRequests = 2
SPECIFICATION FairStatusSpec
INVARIANTS PageIsExplained
PROPERTIES ServerStops
CHECK_DEADLOCK FALSE
