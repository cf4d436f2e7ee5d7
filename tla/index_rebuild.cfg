SPECIFICATION Spec
CONSTANTS
  WordBase = 16
  Second = 2
  Lengths = {1, 2}
  MaxRecords = 3
  MaxBuilds = 2
  MaxDate = 1
CHECK_DEADLOCK FALSE
INVARIANTS RebuiltIndexDescribesData SeekAfterRebuild
