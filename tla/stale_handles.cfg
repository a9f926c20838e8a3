SPECIFICATION Spec
CONSTANTS
  main = main
  c1 = c1
  c2 = c2
  loop = loop
  nobody = nobody
  Nobody <- nobody
  Callers <- TwoCallers
  Loops <- OneLoop
  Cancellable <- NoTask
  Tools <- DebugTools
  Kinds <- Gdb
  MayCrash = FALSE
  MaxProcs = 1
  MaxStops = 1
  MaxCalls = 6
INVARIANT FreshHandles
SYMMETRY ClientSymmetry
CHECK_DEADLOCK FALSE
