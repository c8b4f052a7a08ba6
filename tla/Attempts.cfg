SPECIFICATION Spec
CONSTANTS
  r1 = r1
  r2 = r2
  r3 = r3
  None = None
  Requests <- ThreeRequests
  Photos = {p1, p2}
  TopicPhotos = {p1}
  MaxReceive = 2
  MaxReports = 1
SYMMETRY SymmetryOfThree
INVARIANT AnsweredIsRecorded
INVARIANT CountIsExact
INVARIANT OnlyOverlapLosesAnswers
INVARIANT SettledIsMarked
CHECK_DEADLOCK FALSE
