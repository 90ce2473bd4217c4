CONSTANTS
  w1 = w1
  i1 = i1
  i2 = i2
  i3 = i3
  a1 = a1
  f1 = f1
  f2 = f2
  r1 = r1
  r2 = r2
  Workflows = {w1}
  Invocations = {i1, i2, i3}
  IngestionAgents = {a1}
  ForecastingAgents = {f1, f2}
  Results = {r1, r2}
  Causes = {"dependency_unavailable", "ValueError"}
  ApplicationCodes = {"dependency_unavailable"}
  Unattributed = Unattributed
  IngestionPlans = {w1}
  ForecastingPlans = {w1}
  PolicyActions = {"retry", "fallback", "fail"}
  None = None
  InitialSnapshots <- MCInitialSnapshots
SPECIFICATION FairSpec
INVARIANTS
  SnapshotsAreBacked
  AdvancedInvocationsAgree
  FailureHasOneCause
PROPERTIES
  AnsweredInvocationsEnd
CHECK_DEADLOCK FALSE
