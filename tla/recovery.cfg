SPECIFICATION RecoverySpec
CONSTANTS
  Clients = {c1}
  Closers = {k1}
  Free = Free
  Provider = "JSONFile"
  Deferred = TRUE
  BulkMaxSize = 2
  ChannelBufferSize = 1
  MaxRecordsByStream = 0
  MaxBatch = 1
  MaxRequests = 3
  MaxFaults = 1
  MaxRestarts = 1
  MaxCrashes = 1
CHECK_DEADLOCK FALSE
INVARIANTS DamageBounded AnnouncedIsStored IncreasingAfterOrderlyStops
