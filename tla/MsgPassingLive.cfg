SPECIFICATION FairSpec
CONSTANTS
  p = p
  r = r
  Blocks <- PairBlocks
  NumIn <- PairNumIn
  NumOut <- PairNumOut
  Wire <- PairWire
  MaxPosts <- PairMaxPosts
  StreamFed <- PairFed
  Closers <- PairFed
  BufSize = 2
  Stoppable = TRUE
INVARIANT
  PostWakesSourcer
PROPERTIES
  Delivered
  InterruptEndsAll
