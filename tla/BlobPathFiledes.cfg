SPECIFICATION Spec
CONSTANTS
  b1 = b1
  b2 = b2
  b3 = b3
  x = x
  y = y
  StopBlob = StopBlob
  NoBlob = NoBlob
  Kinds = {"filedes"}
  Blobs = {b1, b2}
  Streams = {x}
  Writers <- None
  Mtu = 2
  ReadSizes = {1, 2}
  ItemSize = 1
  ShortWrites = FALSE
  MaxBytes = 6
INVARIANT Intact
