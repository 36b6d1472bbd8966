\* Every thread may have ended.
SPECIFICATION FairSpec
CONSTANTS
  NumThreads = 2
  Epsilon = 0
  MaxVersion = 4
CHECK_DEADLOCK FALSE
PROPERTY
  CompletedWorkBecomesVisible
