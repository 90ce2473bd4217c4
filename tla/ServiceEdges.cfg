SPECIFICATION EdgesSpec
CONSTANTS
  r1 = r1
  r2 = r2
  r3 = r3
  t1 = t1
  t2 = t2
  good = good
  bad = bad
  Nil = Nil
  Requests <- MCRequests
  Task <- MCTask
  Headers <- MCHeaders
  Valid <- MCValid
  v = v
  w = w
  u = u
  plain = plain
  padded = padded
  blank = blank
  c1 = c1
  c2 = c2
  c3 = c3
  Calls <- MCCalls
  Spellings <- MCSpellings
  Normal <- MCNormal
  BlankKey = BlankKey
  Values = {v, w, u}
  Unencodable = {u}
  Ttls = {0, 5}
  MicrosPerMilli = 3
  MaxTime = 11
  MaxLosses = 1
SYMMETRY MCSymmetry
INVARIANTS
  ResponseCarriesRequestId
  LoggedOnceAsAnswered
  HitIsLive
  NoEarlyMiss
CHECK_DEADLOCK FALSE
