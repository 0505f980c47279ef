SPECIFICATION FairSpec
CONSTANTS
  Symbol = {mu, wdc}
  Holding = {0, 2}
  Quantity = 1
  Ttl = 1
  ReconEvery = 2
  MaxEntries = 2
  MaxStarts = 2
CHECK_DEADLOCK FALSE
INVARIANT NeverShortAtBroker
PROPERTIES
  NoEntryOnDrift
  DriftStops
