SPECIFICATION AnySpec
CONSTANTS
  Workers = {w1, w2}
  NoWorker = NoWorker
  Commands <- MixedCommands
  LastTick = 3
  WindowTicks = 2
  MaxCrashes = 1
  Substations = {1, 2}
  Answers <- Either
  StaleAfter = 10
SYMMETRY Symmetry
INVARIANTS
  TypeOK
  NoSkippedTick
  AlertsFollowTheGate
  RankedByEvidence
PROPERTIES
  VerdictIsFinal
