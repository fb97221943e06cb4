SPECIFICATION Spec
CONSTANTS
  A = A
  B = B
  InitialInventory = 2
  RefillAmount = 1
  Script <- Both
  Quitters = {}
  WildReply = {}
  Prompt = TRUE
  Faults = {}
  MaxSessions = 1
  MaxAccepts = 2
  MaxRetries = 1
  MaxSignals = 0
  MaxFaults = 0
CHECK_DEADLOCK FALSE
PROPERTIES SendedMeansSent
