SPECIFICATION Spec
CONSTANTS
  A = A
  B = B
  InitialInventory = 2
  RefillAmount = 1
  Script <- Every
  Quitters = {}
  WildReply = {}
  Prompt = TRUE
  Faults = {}
  MaxSessions = 3
  MaxAccepts = 4
  MaxRetries = 1
  MaxSignals = 0
  MaxFaults = 0
CHECK_DEADLOCK FALSE
INVARIANTS NoOverdraft
