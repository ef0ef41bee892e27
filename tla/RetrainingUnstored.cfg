SPECIFICATION RetrainingSpec
CONSTANTS
  Handlers = {h}
  Tasks = {1}
  Migrated = TRUE
  MaxJobs = 1
  MinReviews = 1
  MinRate = 0
  AutoExecute = TRUE
  MaxCrashes = 0
PROPERTIES
  DecisionIsStored
CHECK_DEADLOCK FALSE
