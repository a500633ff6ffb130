SPECIFICATION FairSpec
CONSTANTS
  None = None
  MaxDials = 2
  MaxFaulty = 1
  MaxTty = 3
  MaxPiped = 4
  Retries = {TRUE}
  Logs = {TRUE}
  Kinds = {"esc", "r", "b"}
  MaxQuiet = 1
  Programs <- TwoWaits
  MaxCollect = 2
INVARIANTS TypeOK KeysMeanWhatWasTyped ConsoleComplete MeaningKept
PROPERTIES NextMatch DeadLinkIsLeft
