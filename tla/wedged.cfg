SPECIFICATION Spec
CONSTANTS
  main = main
  c1 = c1
  c2 = c2
  loop = loop
  nobody = nobody
  Nobody <- nobody
  Callers <- OneCaller
  Loops <- OneLoop
  Cancellable <- NoTask
  Tools <- LifecycleTools
  Kinds <- Codelldb
  MayCrash = FALSE
  MaxProcs = 2
  MaxStops = 0
  MaxCalls = 3
INVARIANT DisconnectedMeansNoAdapter
CHECK_DEADLOCK FALSE
