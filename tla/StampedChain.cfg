SPECIFICATION Spec
CONSTANTS
  r1 = r1
  r2 = r2
  x = x
  y = y
  Readers <- OneReader
  Values <- TwoValues
  NoValue = NoValue
  MaxVersion = 5
INVARIANTS
  TypeOK
  LifeSpansAreDisjoint
PROPERTY
  ImplementsRecordContract
