SPECIFICATION FairSpec
CONSTANTS
  Coid = {o1, o2}
  Quantity = {3}
  Take = {0, 1, 2, 4}
  Size = {1, 2}
  AckLatency = 1
  Latency = 2
  CancelLatency = 1
  MinFill = 2
  TradeThrough = FALSE
  MaxTime = 3
CHECK_DEADLOCK FALSE
INVARIANTS
  ToldTheTruth
  NoneIsLost
PROPERTIES
  FokAllOrNone
  ExchangeSpec
  CancelsEnd
