SPECIFICATION FairSpec
CONSTANTS
  A = A
  B = B
  InitialInventory = 2
  RefillAmount = 1
  Script <- Both
  Quitters = {}
  WildReply = {}
  Prompt = TRUE
  Faults = {}
  MaxSessions = 2
  MaxAccepts = 3
  MaxRetries = 1
  MaxSignals = 0
  MaxFaults = 0
CHECK_DEADLOCK FALSE
PROPERTIES ClientReturns
