CONSTANTS
  None = None
  Mails = {m1}
  Callers = {c1}
  Workers = {k1}
  Admins = {a1}
  Events = {e1, e2}
  Hooks = {h1, h2}
  MaxTries = 2
  MaxFaults = 1
  MaxManual = 1
SYMMETRY MCSymmetry
SPECIFICATION EventSpec
INVARIANTS NoMailVanishes SentOncePerDoubt AppliedOnce 

CHECK_DEADLOCK FALSE
