SPECIFICATION FairSpec
CONSTANTS
  Client = {c1, c2}
  Requests = 1
  Worker = {1, 2}
  None = None
  Faults <- AllFaults
INVARIANTS
  TypeOK
  OnlyTheHeldIsAtRisk
  OwnAnswer
  TimersSpareTheBusy
  NothingLingers
PROPERTY
  EverySettles
CHECK_DEADLOCK FALSE
