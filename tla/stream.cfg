SPECIFICATION FairSpec
CONSTANTS
  Conns = {c1, c2}
  Wedged = {c2}
  RingSize = 2
  Depth = 2
  MaxChunk = 3
  MaxByte = 3
INVARIANTS TypeOK StreamIsWhole
PROPERTIES NobodyHeldUp
