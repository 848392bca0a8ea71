\* One coordinator over a queue of two entries that fills with summaries.
SPECIFICATION Spec
CONSTANTS
  c1 = c1
  c2 = c2
  Coordinator <- OneCoordinator
  MaxEntries = 2
  FlushThreshold = 2
  MaxBatchEntries = 1
  MaxBatches = 2
  MaxRecorded = 5
  MaxFaults = 1
INVARIANT EditsEnd
CHECK_DEADLOCK FALSE
