SPECIFICATION FairSpec
CONSTANTS
  Servers = {s1}
  Alerts = {a1}
  NoAlert = NoAlert
  MaxRuns = 2
  Legacy = 0
  MaxAttempts = 1
  LeaseTerm = 1
  StaleAfter = 2
  Slots = 1
  MaxReviews = 1
  MaxFaults = 1
PROPERTIES
  EveryRunEnds
CHECK_DEADLOCK FALSE
