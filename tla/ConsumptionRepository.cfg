CONSTANTS
  c1 = c1
  c2 = c2
  c3 = c3
  k1 = k1
  k2 = k2
  x = x
  y = y
  Identities = {k1, k2}
  Observations = {x, y}
  Batches <- MCBatches
  Calls = {c1, c2, c3}
  PoolSize = 2
  MaxFailures = 1
  MaxRetries = 1
  None = None
SPECIFICATION FairSpec
INVARIANTS
  StoredInWholeBatches
PROPERTIES
  ImplementsPort
  CallsEnd
CHECK_DEADLOCK FALSE
