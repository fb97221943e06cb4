SPECIFICATION Spec
CONSTANTS
  A = A
  B = B
  InitialInventory = 2
  RefillAmount = 1
  Script <- Some
  Quitters = {}
  WildReply = {}
  Prompt = TRUE
  Faults = {}
  MaxSessions = 1
  MaxAccepts = 2
  MaxRetries = 1
  MaxSignals = 1
  MaxFaults = 0
CHECK_DEADLOCK FALSE
PROPERTIES FlagSticks
