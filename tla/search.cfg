SPECIFICATION FairSearchSpec
CONSTANTS
  Provider = "JSONFile"
  KeySeqs <- MCKeySeqsOrEmpty
  Targets <- MCTargets
  MaxRows = 6
  MaxKey = 6
CHECK_DEADLOCK FALSE
INVARIANTS FoundIsRight NotFoundIsAbsent
PROPERTIES SearchEnds
