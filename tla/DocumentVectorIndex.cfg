CONSTANTS
  c1 = c1
  c2 = c2
  p1 = p1
  p2 = p2
  x = x
  y = y
  long = long
  Ids = {p1, p2}
  Fingerprints = {x, y, long}
  WrongSize = {long}
  Calls = {c1, c2}
  MaxFailures = 1
  StaleReads = TRUE
  NoPoint = NoPoint
SPECIFICATION FairSpec
PROPERTIES
  ImplementsPort
  RetriesConverge
CHECK_DEADLOCK FALSE
