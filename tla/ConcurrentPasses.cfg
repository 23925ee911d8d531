SPECIFICATION Spec
CONSTANTS
  d1 = d1
  d2 = d2
  p1 = p1
  p2 = p2
  None = None
  Decision = {d1, d2}
  Proc = {p1, p2}
  Contents <- Replacing
  Faults = {}
INVARIANTS
  NoDriftMeansMirrored
