CONSTANTS
  a1 = a1
  a2 = a2
  s1 = s1
  s2 = s2
  c1 = c1
  c2 = c2
  m1 = m1
  m2 = m2
  NoAction = NoAction
  Actions = {a1}
  Sweepers = {s1, s2}
  Clients = {c1, c2}
  Members = {m1, m2}
  IntentOf <- MCIntentOf
  PolicyOf <- MCPolicyOf
  Limit = 1
  MaxFaults = 1
SPECIFICATION Spec
CHECK_DEADLOCK FALSE
INVARIANTS NoTaskPastRevalidation TaskFollowsRow
PROPERTY ImplementsDeferredTask
