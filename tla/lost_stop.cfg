SPECIFICATION Spec
CONSTANTS
  main = main
  c1 = c1
  c2 = c2
  loop = loop
  nobody = nobody
  Nobody <- nobody
  Callers <- OneCaller
  Loops <- OneLoop
  Cancellable <- NoTask
  Tools <- DebugTools
  Kinds <- Codelldb
  MayCrash = FALSE
  MaxProcs = 1
  MaxStops = 1
  MaxCalls = 4
INVARIANT RunningMeansNotStopped
CHECK_DEADLOCK FALSE
