SPECIFICATION Spec
CONSTANTS
  Clients = {c1, c2}
  Closers = {k1}
  Free = Free
  Provider = "JSONFile"
  Deferred = TRUE
  BulkMaxSize = 2
  ChannelBufferSize = 1
  MaxRecordsByStream = 0
  MaxBatch = 2
  MaxRequests = 3
  MaxFaults = 1
SYMMETRY Symmetry
CHECK_DEADLOCK FALSE
INVARIANTS TypeOK InFlightContiguous NothingLost MetaNeverAhead DistinctIds CloseFlushesBuffer
PROPERTIES ImplementsStreamLog
