SPECIFICATION Spec
CONSTANTS
  c1 = c1
  c2 = c2
  Callers <- OneCaller
  Cancellable <- Nobody
  MaxClients = 1
  MaxCalls = 3
  MaxLogs = 0
  PipeSize = 3
  BufferLimit = 2
INVARIANT OwnResponse
CHECK_DEADLOCK FALSE
