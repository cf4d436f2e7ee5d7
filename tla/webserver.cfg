SPECIFICATION FairSpec
CONSTANTS
  Requests = {t1, t2}
  Batches = {b1, b2}
  BadBatches = {b2}
  NoBatch = NoBatch
  ChannelSize = 1
  MaxCalls = 3
CHECK_DEADLOCK FALSE
INVARIANTS StoredAtMostOnce SeenHasReason
PROPERTIES DrainingEnds
