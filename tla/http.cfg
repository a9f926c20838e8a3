SPECIFICATION Spec
CONSTANTS
  main = main
  c1 = c1
  c2 = c2
  loop = loop
  nobody = nobody
  Nobody <- nobody
  Callers <- TwoCallers
  Loops <- OneLoop
  Cancellable <- TwoCallers
  Tools <- LifecycleTools
  Kinds <- Codelldb
  MayCrash = TRUE
  MaxProcs = 2
  MaxStops = 0
  MaxCalls = 4
INVARIANT AdapterOwned
INVARIANT ExactlyOneAnswer
SYMMETRY ClientSymmetry
CHECK_DEADLOCK FALSE
