SPECIFICATION Spec
CONSTANTS
  Readers = {r1, r2}
  Providers = {"InMemory"}
  IteratorTypes = {"FIRST_MESSAGE"}
  Skipped = {}
  MaxRecords = 1
  MaxWait = 0
  ReadAhead = 3
  TornReads = FALSE
  MayClose = FALSE
  MaxWritten = 2
  MaxFaults = 0
CHECK_DEADLOCK FALSE
INVARIANTS OneReaderAtATime
