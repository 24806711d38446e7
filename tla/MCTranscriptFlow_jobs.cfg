CONSTANTS
  e1 = e1
  w1 = w1
  w2 = w2
  c1 = c1
  NoCustomer = NoCustomer
  NoWorker = NoWorker
  Workers = {w1, w2}
  Events = {e1}
  Customers = {c1}
  CustomerOf <- MCCustomerOf
  NumRules = 3
  Kind <- MCKind
  Shadow = {}
  Composable = {1}
  CooldownLimit <- MCNoLimit
  Matches <- MCMatches
  Volatile <- MCNever
  PolicySkips = FALSE
  Repairs = TRUE
  MaxFaults = 2
  MaxCrashes = 1
  MaxDeletes = 0
  MaxNow = 0
  MaxTries = 2
  MaxRepairs = 1
SPECIFICATION FairFlow
CHECK_DEADLOCK FALSE
INVARIANTS EvaluationHonest
PROPERTIES MatchedGetsTask 
