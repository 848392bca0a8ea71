\* Two coordinators over a queue of two entries, one entry per batch.
SPECIFICATION FairSpec
CONSTANTS
  c1 = c1
  c2 = c2
  Coordinator <- TwoCoordinators
  MaxEntries = 2
  FlushThreshold = 2
  MaxBatchEntries = 1
  MaxBatches = 2
  MaxRecorded = 3
  MaxFaults = 1
INVARIANTS TypeOK NothingIsLost DropsAreReported
PROPERTIES LifecycleSpec LogsAreDelivered
CHECK_DEADLOCK FALSE
