CONSTANTS
  e1 = e1
  e2 = e2
  e3 = e3
  w1 = w1
  w2 = w2
  c1 = c1
  NoCustomer = NoCustomer
  Workers = {w1, w2}
  Events = {e1, e2}
  Customers = {c1}
  CustomerOf <- MCCustomerOf
  NumRules = 3
  Kind <- MCKind3
  Shadow = {2}
  Composable = {}
  CooldownLimit <- MCLimit
  Matches <- MCMatches
  Volatile <- MCNever
  PolicySkips = TRUE
  Repairs = FALSE
  MaxFaults = 1
  MaxCrashes = 1
  MaxDeletes = 0
  MaxNow = 1
SPECIFICATION Spec
CHECK_DEADLOCK FALSE
INVARIANTS FirstMatchWins RecordKeepsTasks SuppressedForReason
PROPERTY SettledOnce
