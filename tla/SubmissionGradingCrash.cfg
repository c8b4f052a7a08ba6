SPECIFICATION Spec
CONSTANTS
  Messages = {1}
  Submissions = {"s"}
  SubmissionOf <- OneResult
  CorrectMessages = {}
  WithTopic = {"s"}
  Workers = {w1}
  BatchSize = 1
  MaxReceive = 2
  Overlap = FALSE
  None = None
INVARIANT NoDuplicateAttempts
CHECK_DEADLOCK FALSE
