SPECIFICATION Spec
CONSTANTS
  j1 = j1
  j2 = j2
  q1 = q1
  A = A
  B = B
  Blank = Blank
  Unreadable = Unreadable
  None = None
  Refused = Refused
  Jobs = {j1, j2}
  Queries = {q1}
  Workloads <- MCWorkloads
  Document <- OneDocument
  HttpBatches <- MCBatches
  Questions <- MCQuestions
  VectorSize = 2
  MaxHits = 2
INVARIANTS
  VectorsBelongToTheirText
  WholeDocumentOrQuarantine
  UnchangedContentNeverConflicts
  ConstraintsAreGrounded
