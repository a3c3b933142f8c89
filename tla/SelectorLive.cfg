SPECIFICATION FairSpec
CONSTANTS
  NumIn = 2
  NumOut = 1
  AllPaths <- TurnPaths
  MaxChunk = 1
  MaxItems = 2
  MaxCalls = 2
  MaxRestarts = 1
INVARIANT PointerAlive
PROPERTIES
  Answered
  Unblocked
  SetPathsReturns
