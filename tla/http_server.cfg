SPECIFICATION Spec
CONSTANTS
  c1 = c1
  c2 = c2
  Clients <- TwoClients
  Before <- OneClient
  Leavers <- OtherClient
  Starts <- AStart
  Visited <- TwoStates
  PostLines <- SomeLines
  MaxPosts = 2
  MaxHangUps = 1
  MaxMoves = 2
INVARIANT TypeOK
INVARIANT AnswersGoHome
INVARIANT RelistingClientIsCurrent
INVARIANT NobodyStuck
CHECK_DEADLOCK FALSE
