SPECIFICATION FairSpec
CONSTANTS
  LineSize = 3
  TokenSize = 2
  StdioSize = 4
  Lines <- MCLines
  Chunks <- MCChunks
  MaxTyped = 7
  Base = 4
  IntBits = 3
  LongBits = 6
  BlockSize = 3
  Salts = {0, 7}
  RefillAmount = 1
  InitialInventory = 1
  Builtins <- MCBuiltins
  Requests <- MCRequests
  Stocks <- MCStocks
  MaxFd = 4
  MaxBindFailures = 1
  MaxSignals = 1
INVARIANTS
  ProcessTypeOK
  IndicesInBounds
  NothingTypedIsLost
  TokensAreWords
  MessageMeansPair
  ClientInitialised
  NoSocketLeft
  StdioKept
PROPERTIES TypedLinesRun
CHECK_DEADLOCK FALSE
