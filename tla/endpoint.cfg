SPECIFICATION FairSpec
CONSTANTS
  Daemons = {d1, d2, d3}
  Sessions = {s1, s2, s3}
  None = None
  Leftover = Leftover
  MaxFaults = 1
INVARIANTS TypeOK Serial SerialInstance SerialReachable
PROPERTIES Recovers
