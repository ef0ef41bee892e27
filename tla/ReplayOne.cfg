SPECIFICATION FairSpec
CONSTANTS
  Workers = {w1}
  NoWorker = NoWorker
  Commands <- EveryCommand
  LastTick = 3
  WindowTicks = 2
  MaxCrashes = 2
PROPERTIES
  TerminalIsFinal
  RunningRunEnds
