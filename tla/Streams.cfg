SPECIFICATION FairSpec
CONSTANTS
  Kinds <- MCKinds
  Rate <- MCRate
  Histories = {1, 2}
  NumItems = 4
  BufSize = 3
  Delays <- MCDelays
  MaxSet = 2
  MaxOut = 2
INVARIANTS
  InStep
  Shifted
PROPERTY GetsThere
