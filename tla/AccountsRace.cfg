CONSTANTS
  f1 = f1
  f2 = f2
  f3 = f3
  s1 = s1
  s2 = s2
  d1 = d1
  d2 = d2
  e1 = e1
  e2 = e2
  i1 = i1
  i2 = i2
  Nobody = Nobody
  Email <- MCEmail
  ClaimKey <- MCClaimKey
  FounderSeen <- MCSeen
  Leaver <- MCLeaver
  Actor <- MCActor
  Founders = {f1, f2, f3}
  Signups = {s1, s2}
  Deletions = {d1}
  Edits = {}
  Instances = {i1}
  FounderRole <- MCOneAdmin
  Target <- MCTokensTarget
  NewRole <- MCSame
  Sweep = TRUE
  Faults = {"scan", "crash"}
SPECIFICATION Spec
INVARIANTS TypeOK ClaimBacked UniqueEmail
CHECK_DEADLOCK FALSE
