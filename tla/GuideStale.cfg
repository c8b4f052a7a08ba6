SPECIFICATION Spec
CONSTANTS
  r1 = r1
  r2 = r2
  r3 = r3
  r4 = r4
  q1 = q1
  q2 = q2
  s1 = s1
  None = None
  Requests <- FourRequests
  Questions <- TwoQuestions
  Students <- OneStudent
  Concurrency = 2
SYMMETRY Symmetry
PROPERTY StatusFollowsTransitions
