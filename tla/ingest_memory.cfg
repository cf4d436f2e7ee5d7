SPECIFICATION FairSpec
CONSTANTS
  Clients = {c1, c2}
  Closers = {k1}
  Free = Free
  Provider = "InMemory"
  Deferred = TRUE
  BulkMaxSize = 2
  ChannelBufferSize = 1
  MaxRecordsByStream = 3
  MaxBatch = 2
  MaxRequests = 3
  MaxFaults = 0
CHECK_DEADLOCK FALSE
INVARIANTS StoredOnce
PROPERTIES PutReturns AcknowledgedEventuallyStored CloseReturns
