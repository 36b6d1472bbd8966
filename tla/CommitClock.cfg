\* Every thread may have ended.
SPECIFICATION FairSpec
CONSTANTS
  NumThreads = 2
  Epsilon = 1
  MaxVersion = 4
CHECK_DEADLOCK FALSE
INVARIANTS
  TypeOK
  SnapshotWithinClock
  ProtectedWriterNotPassed
  ClockInv
PROPERTIES
  SnapshotsNeverGoBack
  LastReaderCatchesUp
