SPECIFICATION FairDesktop
CONSTANTS
  FirstFiles <- MCFirstFiles
  Pastes <- MCPastes
  Slots = {1, 2}
  MaxJobs = 3
  MaxStarts = 2
  MaxPorts = 1
  MaxChanges = 2
  MaxClicks = 3
  MaxBoxes = 2
INVARIANTS TypeOK  
PROPERTIES WaitsEnd ScreenCatchesUp
CHECK_DEADLOCK FALSE
