SPECIFICATION FairSpec
CONSTANTS
  p = p
  r = r
  Blocks <- PairBlocks
  NumIn <- PairNumIn
  NumOut <- PairNumOut
  Wire <- PairWire
  MaxPosts <- PairMaxPosts
  StreamFed <- None
  Closers <- None
  BufSize = 2
  Stoppable = FALSE
PROPERTY
  StopWakesWork
