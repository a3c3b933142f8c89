SPECIFICATION FairSpec
CONSTANTS
  p = p
  r = r
  Blocks <- ForkBlocks
  NumIn <- ForkNumIn
  NumOut <- ForkNumOut
  Wire <- ForkWire
  MaxPosts <- ForkMaxPosts
  StreamFed <- ForkFed
  Closers <- None
  BufSize = 2
  Stoppable = FALSE
INVARIANTS
  TypeOK
  InOrderOnce
  PushWakesPop
  CheckThenPop
  DrainedWhenDone
  IInv
PROPERTIES
  ImplementsBus
  StopEndsSourcer
