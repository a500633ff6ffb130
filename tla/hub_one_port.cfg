SPECIFICATION Spec
CONSTANTS
  Conns = {c1, c2}
  Ports = {p1}
  Bauds = {b1}
  DefaultBaud = b1
  None = None
  MaxObservers = 1
  AllowObserve = TRUE
  AutoOpen = TRUE
SYMMETRY Symmetry
INVARIANTS TypeOK Attachment SingleWriter WriteAuthority NothingLeaks
PROPERTIES ImplementsLease
