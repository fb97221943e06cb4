SPECIFICATION Spec
CONSTANTS
  A = A
  B = B
  InitialInventory = 2
  RefillAmount = 1
  Script <- Cross
  Quitters = {}
  WildReply = {}
  Prompt = TRUE
  Faults = {"lose", "dup", "delay"}
  MaxSessions = 2
  MaxAccepts = 3
  MaxRetries = 1
  MaxSignals = 0
  MaxFaults = 1
CHECK_DEADLOCK FALSE
INVARIANTS NothingCreated ReplyMatches KeysAgree
PROPERTIES ImplementsLedger
