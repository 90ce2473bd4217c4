CONSTANTS
  b1 = b1
  b2 = b2
  b3 = b3
  Branches <- MCBranches
  Results = {r1, r2}
  Causes = {application, unexpected}
  Unattributed = Unattributed
  Nothing = Nothing
SPECIFICATION FairSpec
INVARIANTS
  TypeOK
  ErrorsExact
PROPERTIES
  NoAgentStartsAfterAbort
  KeepsPromise
  AbortedExecuteAnswers
CHECK_DEADLOCK FALSE
