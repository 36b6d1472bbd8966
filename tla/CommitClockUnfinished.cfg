\* Every thread may have ended.
SPECIFICATION Spec
CONSTANTS
  NumThreads = 2
  Epsilon = 1
  MaxVersion = 3
CHECK_DEADLOCK FALSE
INVARIANT
  OnlyCompletedWorkIsVisible
