SPECIFICATION Spec
CONSTANTS
  Servers = {s1, s2}
  Alerts = {a1}
  NoAlert = NoAlert
  MaxRuns = 2
  Legacy = 1
  MaxAttempts = 3
  LeaseTerm = 1
  StaleAfter = 2
  Slots = 2
  MaxReviews = 1
  MaxFaults = 1
SYMMETRY Symmetry
INVARIANTS
  TypeOK
  OneLeaseHolder
  SettledWithResult
PROPERTIES
  OnlyHolderEnds
  ImplementsFencedTask
CHECK_DEADLOCK FALSE
