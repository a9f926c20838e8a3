SPECIFICATION Spec
CONSTANTS
  main = main
  c1 = c1
  c2 = c2
  loop = loop
  nobody = nobody
  Nobody <- nobody
  Callers <- OneCaller
  Loops <- OneLoop
  Cancellable <- NoTask
  Tools <- AllTools
  Kinds <- BothKinds
  MayCrash = FALSE
  MaxProcs = 1
  MaxStops = 2
  MaxCalls = 8
INVARIANT DisconnectedMeansNoAdapter
INVARIANT ConnectedMeansAdapter
INVARIANT HaltedMeansStopped
INVARIANT FreshHandles
CHECK_DEADLOCK FALSE
