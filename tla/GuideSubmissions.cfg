SPECIFICATION Spec
CONSTANTS
  r1 = r1
  r2 = r2
  r3 = r3
  r4 = r4
  None = None
  Requests <- ThreeRequests
  QuestionCount = 2
  MaxResubmissions = 0
  Concurrency = 2
  MaxVersion = 2
  MaxRevived = 1
SYMMETRY SymmetryOfThree
INVARIANT AttemptsNumbered
INVARIANT CapOvershoot
INVARIANT ScanRowsQueued
INVARIANT RecordedVersionRequested
CHECK_DEADLOCK FALSE
