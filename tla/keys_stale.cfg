SPECIFICATION Spec
CONSTANTS
  FirstFiles <- MCFirstFiles
  Pastes <- MCPastes
  Slots = {1, 2}
  MaxJobs = 3
  MaxStarts = 2
PROPERTIES AddKeepsTheRest
CHECK_DEADLOCK FALSE
