CONSTANTS
  t1 = t1
  t2 = t2
  r1 = r1
  r2 = r2
  r3 = r3
  r4 = r4
  NoUser = NoUser
  Tab <- MCTab
  Tabs = {t1, t2}
  Requests = {r1, r2}
  AuthCalls = {}
  Users = {ada}
  MaxTokens = 2
SPECIFICATION FairSpec
INVARIANTS LeaderInv
PROPERTIES RequestsSettle
