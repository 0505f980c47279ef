SPECIFICATION Spec
CONSTANTS
  Symbol = {mu, wdc}
  Cluster <- MCCluster
  Size = {2, 3}
  Scale = {2, 4, 7}
  MaxScale = 6
  Pnl <- MCPnl
  MaxPositions = 2
  MaxPerCluster = 1
  MaxGross = 5
  MaxDailyLoss = 3
  MaxLosses = 2
  DdSoft = 1
  DdHard = 3
  DdHalt = 4
  SymbolCooldown = 1
  StrategyCooldown = 2
  MaxTrades = 3
  MaxRestarts = 1
SYMMETRY MCSymmetry
CHECK_DEADLOCK FALSE
INVARIANTS
  BooksAgree
  StreakSurvives
PROPERTIES
  NoEntryPastLimits
