SPECIFICATION Spec
CONSTANTS
  Partitions = 2
  MaxRequests = 1
  Lines <- Telluride
  Requests <- SomeRequests
INVARIANTS VariantKept
CHECK_DEADLOCK FALSE
