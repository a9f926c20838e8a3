SPECIFICATION Spec
CONSTANTS
  HeaderLimit = 5
  MaxFrameSize = 3
  Frames <- SomeFrames
  MaxFrames = 2
  RingSizes = {0, 1, 2}
  MaxEntries = 4
  Components = {"a", "b"}
  MaxLength = 3
  MaxAliases = 2
  MaxBases = 1
  Names = {"x", "y"}
  Places <- SomePlaces
  Hits <- AnyHit
  Queries = {"", "x"}
  MaxInserts = 3
  Files = {"f"}
  FileLines = {1, 2}
  Asked <- SomeAsked
  MaxIds = 2
  MaxEvents = 2
  Width <- TwoOfEach
  Expandable = {1}
  FrameLimits = {1, 3}
  Depths = {1, 2}
  MaxFailures = 2
  MaxStops = 2
  InputLines <- SomeLines
  MaxLines = 3
  MaxMoves = 1
INVARIANT TypeOK
INVARIANT DecodesTheStream
INVARIANT RecentIsNewest
INVARIANT FileHoldsPrefix
INVARIANT ListedPathResolvesBack
INVARIANT HoldsNewestHandles
INVARIANT LookupFindsClosest
INVARIANT SearchFindsNewest
INVARIANT ListShowsAdapter
INVARIANT ListShowsIds
INVARIANT LosesOnlyWhatFailed
INVARIANT AnswersInOrder
CHECK_DEADLOCK FALSE
