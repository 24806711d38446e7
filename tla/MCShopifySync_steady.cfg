CONSTANTS
  w1 = w1
  w2 = w2
  q1 = q1
  q2 = q2
  orders = orders
  NoRes = NoRes
  Resources = {orders}
  Workers = {w1, w2}
  Requests = {q1, q2}
  Kinds = {"rolling", "status"}
  Disturbances = {}
  MaxFailures = 2
  MaxQueue = 2
  MaxPages = 2
  MaxFaults = 2
SPECIFICATION Spec
CHECK_DEADLOCK FALSE
SYMMETRY Symmetric
INVARIANTS OneWorkerPerResource FailuresHadRuns
