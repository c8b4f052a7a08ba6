SPECIFICATION FairSpec
CONSTANTS
  Editors = {e1, e2, e3}
  Questions = {q1, q2}
  None = None
  MaxRegenerations = 1
INVARIANT LatestIsCurrent
INVARIANT AcknowledgedEditsKept
PROPERTY ImplementsAnswerKey
PROPERTY EditsEnd
CHECK_DEADLOCK FALSE
