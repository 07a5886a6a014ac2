SPECIFICATION Spec
CONSTANTS
  u1 = u1
  c1 = c1
  Students = {u1}
  Courses = {c1}
  MaxSubs = 1
  MaxSaves = 2
  MaxStops = 1
  Deletions <- UserAndCourse
INVARIANTS TypeOK PairsAgree Erased SnapshotReachable
PROPERTIES FrozenStays
CHECK_DEADLOCK FALSE
