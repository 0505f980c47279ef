SPECIFICATION FairSpec
CONSTANTS
  Mid = {60, 120, 180}
  Take = 2
  EntryQuantity = 5
  MaxHold = 1
  Persist = 2
  MaxTrades = 1
  MaxRestarts = 1
  AckLatency = 1
  Latency = 1
  CancelLatency = 1
  MinFill = 2
  TradeThrough = TRUE
CHECK_DEADLOCK FALSE
INVARIANTS
  LogRebuildsPosition
  RealizedIsCash
  StopEndsInExit
PROPERTIES
  EveryPositionEnds
