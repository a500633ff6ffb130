SPECIFICATION Spec
CONSTANTS
  Peers = {p1, p2, p3}
  Rooms = {r1}
  Tokens = {t1, t2}
  None = None
  PipeSize = 1
  MaxChunks = 3
  MaxCrowded = 1
SYMMETRY Symmetry
INVARIANTS TypeOK OnlyThePartner NobodyStuck
