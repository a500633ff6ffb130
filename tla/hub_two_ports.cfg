SPECIFICATION Spec
CONSTANTS
  Conns = {c1}
  Ports = {p1, p2}
  Bauds = {b1}
  DefaultBaud = b1
  None = None
  MaxObservers = 1
  AllowObserve = TRUE
  AutoOpen = TRUE
INVARIANTS OneAttachment WorkersAccounted
