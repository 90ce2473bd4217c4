CONSTANTS
  c1 = c1
  c2 = c2
  c3 = c3
  i1 = i1
  i2 = i2
  x = x
  y = y
  Ids = {i1}
  Contents = {x, y}
  Calls = {c1}
  MaxFailures = 0
  MaxCrashes = 1
  CloseMayFail = FALSE
  None = None
  Torn = Torn
SPECIFICATION FairSpec
PROPERTIES
  RetriesConverge
CHECK_DEADLOCK FALSE
