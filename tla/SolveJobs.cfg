CONSTANTS
  u1 = u1
  r1 = r1
  r2 = r2
  w1 = w1
  w2 = w2
  i1 = i1
  NoJob = NoJob
  Users = {u1}
  Requests = {r1, r2}
  Workers = {w1, w2}
  Instances = {i1}
  StartTokens = {5, 8}
  Owner <- MCOwner
  Kind <- MCKind
  MaxReceive = 2
  MaxCrashes = 1
  Faults = {"abort"}
SPECIFICATION FairSpec
INVARIANTS TypeOK NoOverlap RefundedOnce DeliveredWasPaid
PROPERTIES TerminalIsFinal KeepsPromise JobSettles FailedCostsNothing
CHECK_DEADLOCK FALSE
