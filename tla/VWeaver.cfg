CONSTANTS
  w1 = w1
  w2 = w2
  r1 = r1
  Threads = {w1, w2, r1}
  Fences <- TwoLeaves
  Loaded = {1, 2, 4, 5}
  Scripts <- Races
SPECIFICATION Spec
INVARIANTS TypeOK LinksSeeAllOlder ScansSeeTheirSnapshot
PROPERTIES LinksNeverChange CallsEnd
