SPECIFICATION AnySpec
CONSTANTS
  Workers = {w1, w2}
  MaxRuns = 2
  MaxStages = 3
  MaxAttempts = 3
  Values = {"a", "b"}
  Configs = {"c1", "c2"}
  MaxDeploys = 1
  Alerts = {a1, a2}
  NoAlert = NoAlert
  Contexts <- Evidence
  Verifications <- Verified
  Answers <- Prompted
  DiagnosticModel = TRUE
  MaxIterations = 4
  Threshold = 75
  RecursionLimit = 24
  MaxTries = 2
SYMMETRY Symmetry
INVARIANTS
  CompletedRunIsChain
  ConflictHasCause
  ReviewNotBypassed
  DiagnosisCharged
  LineageTree
  FinishedRunIsCompleted
CHECK_DEADLOCK FALSE
