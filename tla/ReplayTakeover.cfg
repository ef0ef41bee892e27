SPECIFICATION FairSpec
CONSTANTS
  Workers = {w1, w2}
  NoWorker = NoWorker
  Commands = {"start"}
  LastTick = 2
  WindowTicks = 2
  MaxCrashes = 0
PROPERTIES
  RunningRunEnds
