SPECIFICATION Spec
CONSTANTS
  t1 = t1
  t2 = t2
  u1 = u1
  u2 = u2
  j1 = j1
  j2 = j2
  k1 = k1
  k2 = k2
  None = None
  Courses = {c1}
  Invites = {i1}
  Students = {s1}
  Topics <- TwoTopics
  Units <- TwoUnits
  Joins <- TwoJoins
  Cycles <- TwoCycles
  MaxUses = 1
  MaxDay = 1
  MaxDue = 2
SYMMETRY Symmetry
INVARIANT UsesAreCounted
INVARIANT OneOpenAlertPerDay
INVARIANT EndedCycleHasAlerted
CHECK_DEADLOCK FALSE
