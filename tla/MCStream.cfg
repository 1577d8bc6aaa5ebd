CONSTANTS
  x = x
  y = y
  r1 = r1
  r2 = r2
  Bytes = {x, y}
  Packets <- MCPackets
  Readers = {r1, r2}
  Sizes <- MCSizes
  Deadlines = {0, 1}
  MaxTime = 2
  MaxPackets = 2
SPECIFICATION FairSpec
INVARIANTS NoByteDropped
PROPERTIES ByteStreamSpec ReadersWakeUp
