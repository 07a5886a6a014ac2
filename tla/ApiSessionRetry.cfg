CONSTANTS
  t1 = t1
  t2 = t2
  r1 = r1
  r2 = r2
  r3 = r3
  r4 = r4
  NoUser = NoUser
  Tab <- MCTab
  Tabs = {t1}
  Requests = {r1, r2, r3}
  AuthCalls = {r3}
  Users = {ada}
  MaxTokens = 3
SPECIFICATION Spec
INVARIANTS TypeOK RetryBounded
