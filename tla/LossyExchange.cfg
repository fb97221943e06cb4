SPECIFICATION Spec
CONSTANTS
  A = A
  B = B
  InitialInventory = 2
  RefillAmount = 1
  Script <- Every
  Quitters = {}
  WildReply = {}
  Prompt = FALSE
  Faults = {"lose", "dup", "delay"}
  MaxSessions = 2
  MaxAccepts = 3
  MaxRetries = 0
  MaxSignals = 0
  MaxFaults = 2
CHECK_DEADLOCK FALSE
INVARIANTS TypeOK NothingCreated ReplyMatches KeysAgree NoCrash
PROPERTIES OnlyRefillOverdraws
