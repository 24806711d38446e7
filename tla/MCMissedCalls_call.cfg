CONSTANTS
  missed = missed
  answered = answered
  Poll = Poll
  Poller = Poller
  Webhooks = {missed, answered}
  Kind <- MCKind
  Missing = {missed}
  Workers = {w1, w2}
  Runs = {r1}
  Limit = 1
  MaxTries = 2
  MaxFaults = 1
SPECIFICATION FairSpec
INVARIANTS AnsweredNotMissed CallbackClosesTask
PROPERTIES ResolvedIsQuiet MissedIsChased
CHECK_DEADLOCK FALSE
