CONSTANTS
  c1 = c1
  c2 = c2
  c3 = c3
  i1 = i1
  i2 = i2
  x = x
  y = y
  Ids = {i1, i2}
  Contents = {x, y}
  Calls = {c1, c2, c3}
  MaxFailures = 2
  MaxCrashes = 1
  CloseMayFail = FALSE
  None = None
  Torn = Torn
SPECIFICATION FairSpec
INVARIANTS
  OneErrorLeavesNoOrphan
PROPERTIES
  ImplementsPort
  OnlyOrphansBlockRetries
CHECK_DEADLOCK FALSE
