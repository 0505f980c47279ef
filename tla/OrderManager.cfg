SPECIFICATION FairSpec
CONSTANTS
  Coid = {o1, o2}
  Symbol = {mu}
  Quantity = {3}
  Price = {2}
  Ttl = {1}
  MaxGross = 8
  MaxTime = 1
  MaxRestarts = 1
CHECK_DEADLOCK FALSE
INVARIANTS
  TypeOK
  OneActiveEntry
  ReservationBound
  ReservationWithinCap
  JournalAgrees
  FilledMatchesVenue
  FilledIsComplete
PROPERTIES
  LifecycleSpec
  TimersEndOrders
