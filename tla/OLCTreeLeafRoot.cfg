CONSTANTS
  t1 = t1
  t2 = t2
  t3 = t3
  Threads = {t1, t2, t3}
  FanOut = 5
  NumRecords = 2
  MaxKey = 20
  Starts <- LeafRoots
SPECIFICATION Spec
INVARIANT InsertedIsFound
