CONSTANTS
  u1 = u1
  r1 = r1
  r2 = r2
  w1 = w1
  w2 = w2
  i1 = i1
  NoJob = NoJob
  Users = {u1}
  Requests = {r1}
  Workers = {w1, w2}
  Instances = {i1}
  StartTokens = {5}
  Owner <- MCOwner
  Kind <- MCKind
  MaxReceive = 3
  MaxCrashes = 1
  Faults = {"abort", "duplicate", "erase", "late"}
SPECIFICATION Spec
SYMMETRY Symmetry
INVARIANTS DoneHasResult NothingLost
CHECK_DEADLOCK FALSE
