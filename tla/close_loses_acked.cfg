SPECIFICATION Spec
CONSTANTS
  Clients = {c1}
  Closers = {k1}
  Free = Free
  Provider = "JSONFile"
  Deferred = TRUE
  BulkMaxSize = 2
  ChannelBufferSize = 1
  MaxRecordsByStream = 0
  MaxBatch = 1
  MaxRequests = 2
  MaxFaults = 0
CHECK_DEADLOCK FALSE
INVARIANTS CloseSavesAcknowledged
