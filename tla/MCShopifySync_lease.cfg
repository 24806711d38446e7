CONSTANTS
  w1 = w1
  w2 = w2
  q1 = q1
  q2 = q2
  orders = orders
  NoRes = NoRes
  Resources = {orders}
  Workers = {w1, w2}
  Requests = {q1}
  Kinds = {"initial", "rolling"}
  Disturbances = {"dead", "slow", "credentials", "log"}
  MaxFailures = 1
  MaxQueue = 1
  MaxPages = 1
  MaxFaults = 1
SPECIFICATION FairSpec
CHECK_DEADLOCK FALSE
INVARIANT LeaseExclusive

PROPERTY StaleLeaseRecovered
