CONSTANTS
  a = a
  None = None
  Contacts = {a}
  Members <- MCMembers
  Rows = {r1, r2}
  Clerks = {k1, k2}
  Workers = {w1}
  Staff = {s1}
  LaterJobs = {"later"}
  Cap = 1
  Attempts = 2
  MaxRequests = 2
  MaxChanges = 3
  MaxFaults = 1
SYMMETRY MCSymmetry
SPECIFICATION Spec
INVARIANTS BarredIsUnreachable LiftedIsSendable CapUnlessOverlapped ScheduledHasJob
PROPERTIES StoppedIsSilent
CHECK_DEADLOCK FALSE
