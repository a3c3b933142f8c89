SPECIFICATION FairSpec
CONSTANTS
  NumIn = 1
  NumOut = 1
  AllPaths <- OnePaths
  MaxChunk = 1
  MaxItems = 2
  MaxCalls = 1
  MaxRestarts = 0
PROPERTY RouteWorks
