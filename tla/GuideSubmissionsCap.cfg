SPECIFICATION Spec
CONSTANTS
  r1 = r1
  r2 = r2
  r3 = r3
  r4 = r4
  None = None
  Requests <- FourRequests
  QuestionCount = 1
  MaxResubmissions = 1
  Concurrency = 2
  MaxVersion = 1
  MaxRevived = 1
SYMMETRY SymmetryOfFour
INVARIANT CapRespected
CHECK_DEADLOCK FALSE
