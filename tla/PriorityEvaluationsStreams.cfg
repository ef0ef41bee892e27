SPECIFICATION EvaluationSpec
CONSTANTS
  Readers = {"a"}
  Posters = {}
  Bodies = {}
  Expected = {"u"}
  LastEnd = 2
  Rows = {}
  Replayed = {1, 2}
  MaxChanges = 0
  MaxEvaluationRuns = 3
  MaxFailures = 0
INVARIANTS
  StreamsAreSeparate
CHECK_DEADLOCK FALSE
