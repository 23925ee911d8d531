SPECIFICATION Spec
CONSTANTS
  Ghost = ghost
  None = none
  Daemon = {a, b}
  Attempts = 2
  Faults = {}
INVARIANT
  OneDaemonOnly
