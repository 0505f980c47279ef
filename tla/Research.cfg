SPECIFICATION Spec
CONSTANTS
  Symbol = {mu, qqq}
  Mined = {mu}
  Time = {0, 1, 2, 3}
  Price = {1, 2}
  Window = 1
  EvalEvery = 1
  MinEvents = 2
  MinGap = 2
  Check = {burst, shock}
  Horizon = {1, 2}
  MaxEvents = 4
  MaxDays = 6
CHECK_DEADLOCK FALSE
INVARIANTS
  WindowExact
  ClassifiedInForce
  LabelsLookForward
  FoldsSound
