SPECIFICATION PortFairSpec
CONSTANTS
  MaxBytes = 2
  Buf = 1
  MaxCalls = 2
  MaxLies = 1
  LazyDrivers = {TRUE, FALSE}
  LinuxBytes = 2
  LinuxBuf = 1
  LinuxWrite = 2
INVARIANTS PortTypeOK ResourcesOwned NoByteForgotten PortsNamedOnce
PROPERTIES CloseGetsThrough
