SPECIFICATION FairSpec
CONSTANTS
  MaxLogFiles = 3
  MaxLogRecords = 2
  FullFiles = 2
  Limit = 3
  MaxEvents = 8
INVARIANTS RetainsSuffix RetentionBounds TailInOrder TailIsNewest
PROPERTY ShutdownFlushes
CHECK_DEADLOCK FALSE
