SPECIFICATION FairSpec
CONSTANTS
  Ghost = ghost
  None = none
  Daemon = {a, b, c}
  Attempts = 2
  Faults = {"crash", "refuse"}
INVARIANTS
  TypeOK
  OneElected
  ServingIsFound
PROPERTIES
  FreshLockSurvives
  Recovers
