SPECIFICATION Spec
CONSTANTS
  Servers = {s1}
  Alerts = {a1}
  NoAlert = NoAlert
  MaxRuns = 2
  Legacy = 0
  MaxAttempts = 2
  LeaseTerm = 1
  StaleAfter = 2
  Slots = 2
  MaxReviews = 1
  MaxFaults = 1
INVARIANTS
  OneActiveRunPerAlert
CHECK_DEADLOCK FALSE
