SPECIFICATION CliSpec
CONSTANTS
  main = main
  nobody = nobody
  Nobody <- nobody
  Callers <- MainTask
  Loops <- MainTask
  Cancellable <- NoTask
  Tools <- ScriptTools
  Kinds <- BothKinds
  MayCrash = FALSE
  MaxProcs = 1
  MaxStops = 2
  MaxCalls = 10
INVARIANT TypeOK
INVARIANT RunningMeansNotStopped
INVARIANT HaltStateDescribesStop
INVARIANT BreakpointsClearedOnDisconnect
INVARIANT GrantedCallSucceeds
INVARIANT CliLeavesNoAdapter
PROPERTY EveryOperationEnds
PROPERTY EveryStopIsContinued
CHECK_DEADLOCK FALSE
