CONSTANTS
  t1 = t1
  t2 = t2
  t3 = t3
  Threads = {t1, t2, t3}
  FanOut = 7
  NumRecords = 8
  MaxKey = 60
  Starts <- Trees
SPECIFICATION Spec
INVARIANTS TypeOK RecordsAreHome PagesFit FencesAreTrue
PROPERTIES ImplementsDirectory CallsEnd
