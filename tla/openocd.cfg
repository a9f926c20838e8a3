SPECIFICATION FairSpec
CONSTANTS
  c1 = c1
  c2 = c2
  Callers <- TwoCallers
  Cancellable <- OneCaller
  MaxClients = 2
  MaxCalls = 3
  MaxLogs = 1
  PipeSize = 1
  BufferLimit = 1
INVARIANT TypeOK
INVARIANT ProcessesOwned
INVARIANT ClientInUseStays
PROPERTY EveryCallEnds
CHECK_DEADLOCK FALSE
