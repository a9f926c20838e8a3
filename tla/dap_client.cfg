SPECIFICATION FairSpec
CONSTANTS
  t1 = t1
  t2 = t2
  plain = plain
  unsliceable = unsliceable
  silent = silent
  without = without
  Tasks <- TwoTasks
  Cancellable <- OneTask
  Uses <- User
  Bodies <- TwoBodies
  Unsliceable <- unsliceable
  Traced = TRUE
  Silent <- silent
  Without <- without
  MaxSeq = 2
  MaxProcs = 2
  MaxNoise = 2
INVARIANT TypeOK
INVARIANT WaitersRegistered
INVARIANT LeftoversExplained
INVARIANT EventsInOrder
PROPERTY ImplementsRpc
PROPERTY AnswersArrive
CHECK_DEADLOCK FALSE
