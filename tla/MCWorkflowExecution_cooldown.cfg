CONSTANTS
  e1 = e1
  e2 = e2
  e3 = e3
  w1 = w1
  w2 = w2
  c1 = c1
  NoCustomer = NoCustomer
  Workers = {w1}
  Events = {e1, e2, e3}
  Customers = {c1}
  CustomerOf <- MCCustomerOf
  NumRules = 2
  Kind <- MCKind
  Shadow = {}
  Composable = {1}
  CooldownLimit <- MCLimit
  Matches <- MCMatches
  Volatile <- MCSometimes
  PolicySkips = TRUE
  Repairs = TRUE
  MaxFaults = 0
  MaxCrashes = 0
  MaxDeletes = 1
  MaxNow = 1
SPECIFICATION Spec
CHECK_DEADLOCK FALSE
INVARIANTS CooldownRespected NotesKept
