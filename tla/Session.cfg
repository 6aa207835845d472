SPECIFICATION Spec
CONSTANTS
  Partitions = 2
  MaxRequests = 2
  Lines <- AllLines
  Requests <- SomeRequests
INVARIANTS TypeOK AckedIsCarried DumpsComplete ConnectedPeerIsTold PartitionsPaired
INVARIANTS ReadsAreTrue MemoryIsTrue CountedColumnsArePresent
PROPERTIES SessionEnds
CHECK_DEADLOCK FALSE
