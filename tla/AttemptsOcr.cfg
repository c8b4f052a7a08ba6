SPECIFICATION Spec
CONSTANTS
  r1 = r1
  r2 = r2
  r3 = r3
  None = None
  Requests <- TwoRequests
  Photos = {p1}
  TopicPhotos = {p1}
  MaxReceive = 2
  MaxReports = 1
INVARIANT PhotosAreClassified
CHECK_DEADLOCK FALSE
