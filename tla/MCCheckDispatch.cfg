CONSTANTS
  disk = disk
  load = load
  w1 = w1
  w2 = w2
  Names <- MCNames
  Executors <- MCWorkers
  QueueCount = 2
  MaxRuns = 2
SPECIFICATION FairSpec
INVARIANTS NamesAccountedFor OneRunAtATime EveryRunInOrder StoredAfterPublished
PROPERTIES EveryNameReleased EveryJobEnds
CHECK_DEADLOCK FALSE
