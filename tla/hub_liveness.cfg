SPECIFICATION HealthySpec
CONSTANTS
  Conns = {c1}
  Ports = {p1}
  Bauds = {b1}
  DefaultBaud = b1
  None = None
  MaxObservers = 1
  AllowObserve = TRUE
  AutoOpen = TRUE
PROPERTIES DroppedLeaves WorkersServe
