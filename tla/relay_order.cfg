SPECIFICATION Spec
CONSTANTS
  Peers = {p1, p2}
  Rooms = {r1}
  Tokens = {t1}
  None = None
  PipeSize = 2
  MaxChunks = 2
  MaxCrowded = 2
INVARIANTS BytePipe
