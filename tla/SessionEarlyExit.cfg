SPECIFICATION Spec
CONSTANTS
  Partitions = 2
  MaxRequests = 1
  Lines <- L3Batch
  Requests <- SomeRequests
INVARIANTS EarlyExitIsCovered
CHECK_DEADLOCK FALSE
