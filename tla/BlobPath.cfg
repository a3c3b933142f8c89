SPECIFICATION FairSpec
CONSTANTS
  b1 = b1
  b2 = b2
  b3 = b3
  x = x
  y = y
  StopBlob = StopBlob
  NoBlob = NoBlob
  Kinds = {"stream", "socket"}
  Blobs = {b1, b2}
  Streams = {x}
  Writers = {y}
  Mtu = 2
  ReadSizes = {0, 1, 2}
  ItemSize = 1
  ShortWrites = FALSE
  MaxBytes = 6
INVARIANTS
  TypeOK
  Intact
  WrittenAlone
PROPERTIES
  PoolRefills
  AllArrive
  StopReachesAll
  ReadsOn
