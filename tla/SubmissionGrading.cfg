SPECIFICATION FairSpec
CONSTANTS
  Messages = {1, 2}
  Submissions = {"s"}
  SubmissionOf <- TwoResults
  CorrectMessages = {1}
  WithTopic = {"s"}
  Workers = {w1, w2}
  BatchSize = 2
  MaxReceive = 2
  Overlap = TRUE
  None = None
INVARIANT TypeOK
INVARIANT GradedIsComplete
INVARIANT DeletedIsGraded
INVARIANT MasteryHasEvidence
PROPERTY ImplementsResultQueue
PROPERTY ResultsSettle
CHECK_DEADLOCK FALSE
