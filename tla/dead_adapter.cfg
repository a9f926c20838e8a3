SPECIFICATION FairSpec
CONSTANTS
  main = main
  c1 = c1
  c2 = c2
  loop = loop
  nobody = nobody
  Nobody <- nobody
  Callers <- MainTask
  Loops <- MainTask
  Cancellable <- NoTask
  Tools <- LifecycleTools
  Kinds <- Codelldb
  MayCrash = TRUE
  MaxProcs = 1
  MaxStops = 0
  MaxCalls = 3
PROPERTY EveryOperationEnds
CHECK_DEADLOCK FALSE
