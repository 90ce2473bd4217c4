SPECIFICATION HandoffSpec
CONSTANTS
  Workflows = {w1, w2}
  Callers = {c1, c2}
  f1 = f1
  f2 = f2
  f3 = f3
  Objects <- MCObjects
  Content <- MCContent
  MaxAttempts = 2
  None = None
INVARIANTS
  HandoffIsCoherent
CHECK_DEADLOCK FALSE
