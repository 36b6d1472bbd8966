CONSTANTS
  t1 = t1
  t2 = t2
  t3 = t3
  Threads = {t1, t2, t3}
  FanOut = 7
  NumRecords = 8
  MaxKey = 60
  Starts <- ThinTrees
SPECIFICATION Spec
INVARIANT NobodyPanics
