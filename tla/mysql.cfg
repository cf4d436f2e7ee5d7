SPECIFICATION FairSpec
CONSTANTS
  Streams = {u1, u2}
  NoStream = NoStream
  MaxOpenConns = 1
  BulkMaxSize = 2
  MaxMessages = 3
  MaxFaults = 2
  MaxEnds = 1
CHECK_DEADLOCK FALSE
INVARIANTS RowDescribesTable ReadableIsCommitted AcceptedIsKept CreatedSurvives
PROPERTIES BufferIsSaved
