SPECIFICATION FairSpec
CONSTANTS
  Requests = {t1, t2}
  Streams = {u1, u2, u3}
  Free = Free
  NoStream = NoStream
  MaxAllowedStreams = 1
  MaxIteratorsPerStream = 1
  MaxCalls = 4
  MaxFaults = 1
  MaxStops = 1
  MaxCrashes = 1
CHECK_DEADLOCK FALSE
INVARIANTS RunningHasFiles DeletedNeverReturns QuiescentAgree LimitsKept CreatedIsCatalogued OrderlyStopCanStart
PROPERTIES RequestReturns
