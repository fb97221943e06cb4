SPECIFICATION FairSpec
CONSTANTS
  A = A
  B = B
  InitialInventory = 2
  RefillAmount = 1
  Script <- Few
  Quitters = {A}
  WildReply = {B}
  Prompt = FALSE
  Faults = {"lose", "delay"}
  MaxSessions = 1
  MaxAccepts = 2
  MaxRetries = 1
  MaxSignals = 1
  MaxFaults = 1
CHECK_DEADLOCK FALSE
INVARIANTS NothingCreated
PROPERTIES InterruptedServerStops ImplementsLedger
