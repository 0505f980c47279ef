SPECIFICATION Spec
CONSTANTS
  EntryCoid = {e1, e2}
  ExitCoid = {x1, x2}
  Symbol = {mu}
  Quantity = {1, 2, 3, 4, 5}
  EntryQuantity = {5}
  Price = {1}
  Take = {0, 3}
  Size = {2}
  AckLatency = 1
  Latency = 2
  CancelLatency = 1
  MinFill = 2
  TradeThrough = FALSE
  TtlOf <- MCTtlOf
  Cooldown = 2
  MaxGross = 9
  MaxTime = 8
  MaxRestarts = 0
CHECK_DEADLOCK FALSE
INVARIANT LogHasEveryFill
