SPECIFICATION FairSpec
CONSTANTS
  Stale = 0
  GapTolerance = 0
  Mid = {1, 2, 3}
  ConfirmWait = 1
  ImpulseTimeout = 2
  ExhaustionTimeout = 2
  RetestTimeout = 1
  Tolerance = 0
  Cooldown = 2
  SharedMonitor = FALSE
  MaxAge = 3
CHECK_DEADLOCK FALSE
INVARIANT GovernorConsultsStream
