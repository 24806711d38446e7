CONSTANTS
  w1 = w1
  w2 = w2
  m1 = m1
  m2 = m2
  None = None
  Mails = {m1, m2}
  Callers = {c1, c2}
  Workers = {}
  Admins = {}
  Webhooks = {w1, w2}
  MailsOf <- MCMailsOf
  MaxTries = 1
  MaxFaults = 2
  MaxManual = 0
  MaxRepeats = 1
SPECIFICATION FairSpec
INVARIANTS ClaimedOnce ProcessedMeansDone
PROPERTIES WebhookSettles
CHECK_DEADLOCK FALSE
