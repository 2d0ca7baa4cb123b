SPECIFICATION FairSpec
CONSTANTS
  c1 = c1
  c2 = c2
  Callers = {c1, c2}
  Keeper = Keeper
  Starter = Starter
  NoTask = NoTask
  InitPool = 1
  MaxPool = 2
  Limit = 1
  QueueSize = 2
  MaxNamed = 1
  MaxTrouble = 1
INVARIANTS
  DriftConverges
PROPERTIES
  EventuallyWatched
  HintScanned
