\* A retired page of the lightweight flavour is never latched again.
CHECK_DEADLOCK FALSE
SPECIFICATION FairSpec
CONSTANTS
  t1 = t1
  t2 = t2
  t3 = t3
  Threads <- ThreeThreads
  NoThread = NoThread
  MaxCount = 2
INVARIANTS
  TypeOK
  MutualExclusion
  LatchInv
  ValidReadIsConsistent
PROPERTIES
  UpgradeKeepsWhatWasRead
  ImplementsExclusiveLatch
  PageReadableAgain
