SPECIFICATION PollingSpec
CONSTANTS
  Readers = {r1}
  Providers = {"JSONFile", "InMemory", "MySQL"}
  IteratorTypes = {"FIRST_MESSAGE", "LAST_MESSAGE", "AFTER_LAST_MESSAGE", "AT_MESSAGE_ID"}
  Skipped = {3}
  MaxRecords = 2
  MaxWait = 2
  ReadAhead = 3
  TornReads = TRUE
  MayClose = TRUE
  MaxWritten = 5
  MaxFaults = 2
CHECK_DEADLOCK FALSE
INVARIANTS DeliveredExactly DeliveredInOrder
PROPERTIES GetReturns EveryRecordDelivered
