SPECIFICATION AnySpec
CONSTANTS
  Substations = {u1}
  Policies <- TwoPolicies
  MaxEvaluations = 4
  MaxScenarios = 1
  Readers = {"a"}
  Posters = {"b"}
  Bodies <- Ahead
  Expected = {"u"}
  LastEnd = 2
  Rows <- Pairs
  Replayed = {}
  MaxChanges = 2
  MaxEvaluationRuns = 2
  MaxFailures = 0
INVARIANTS
  TypeOK
  OneActiveEpisode
  AlertFollowsEpisode
  AnswerCoversWhatWasLoaded
  ActiveIsNewest
PROPERTIES
  OpensOnlyConfirmed
  ResolvesOnlyRecovered
  ResolvedIsFinal
