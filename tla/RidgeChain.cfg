SPECIFICATION FairSpec
CONSTANTS
  r1 = r1
  r2 = r2
  x = x
  y = y
  Readers <- OneReader
  Values <- TwoValues
  NoValue = NoValue
  MaxVersion = 5
  SENTINEL_LEVEL = 7
INVARIANTS
  TypeOK
  RidgesAreNearest
  NoBrokenLink
  RidgeInv
PROPERTIES
  ImplementsRecordContract
  ReadsEnd
