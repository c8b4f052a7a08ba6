SPECIFICATION Spec
CONSTANTS
  NoRecord = NoRecord
  NoSub = NoSub
  NearOne <- MCNearOne
  Topics <- MCTopics
  CourseUnits <- MCUnits
  SubOf <- MCSubOf
  DomainOf <- MCDomainOf
  Prerequisites <- MCPrerequisites
  Parameters <- MCParameters
  Pool <- MCPool
  NewItems <- MCNewItems
  MaxNewItems = 1
  WrongAnswers <- MCWrong
  Drills <- MCDocumented
  TopN = 2
  Window = 0
  MaxAnswers = 3
  LastDay = 1
  NoDrill = NoDrill
  Requests = {r1, r2, r3}
  Passwords = {p}
  MaxCodes = 2
  NoUser = NoUser
  Nothing = Nothing
  Codes = {1, 2, 3}
  Seeded = {3}
  Entries <- MCEntries
  BatchSize = 2
  PageSize = 1
  MaxUpdates = 2
  MaxImports = 1
  Students = {s1}
  GuideQuestions = {q1}
  MaxSubmissions = 2
  Graders = {g1, g2}
  ErrorTags = {t1}
  NoTag = NoTag
  MaxOverrides = 1
SYMMETRY Symmetry
INVARIANT ClassifiedAsDocumented
CHECK_DEADLOCK FALSE
