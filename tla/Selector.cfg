SPECIFICATION Spec
CONSTANTS
  NumIn = 2
  NumOut = 2
  AllPaths <- MixedPaths
  MaxChunk = 2
  MaxItems = 3
  MaxCalls = 2
  MaxRestarts = 0
INVARIANTS
  TypeOK
  ConsumedOnceCopied
  OnceInOrder
  Switchover
