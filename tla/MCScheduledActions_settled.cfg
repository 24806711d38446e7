CONSTANTS
  a1 = a1
  a2 = a2
  s1 = s1
  s2 = s2
  c1 = c1
  c2 = c2
  m1 = m1
  m2 = m2
  NoAction = NoAction
  Actions = {a1, a2}
  Sweepers = {s1}
  Clients = {c1}
  Members = {m1}
  IntentOf <- MCIntentOf
  PolicyOf <- MCPolicyOf
  Limit = 1
  MaxFaults = 1
SPECIFICATION FairSpec
CHECK_DEADLOCK FALSE
INVARIANT OneOpenTaskPerIntent
PROPERTY DueIsSettled
