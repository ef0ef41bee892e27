SPECIFICATION Spec
CONSTANTS
  Workers = {w1}
  MaxRuns = 2
  MaxStages = 2
  MaxAttempts = 3
  Values = {"a"}
  Configs = {"c1", "c2"}
  MaxDeploys = 2
INVARIANT OwnSnapshotsOnly
CHECK_DEADLOCK FALSE
