SPECIFICATION Spec
CONSTANTS
  Key = {k1, k2, k3}
  Owner = {o1, o2}
  Inode = {i1, i2, i3}
  x = x
  y = y
  Data = {x, y}
  Hole = Hole
  NoFile = NoFile
  NoKey = NoKey
  Offer <- MCOffer
  Capacity = 2
  TTL = 0
  MaxSize = 2
  MaxFaults = 1
INVARIANT FailedChunkCanBeRetried
