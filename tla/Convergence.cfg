SPECIFICATION FairSpec
CONSTANTS
  d1 = d1
  d2 = d2
  p1 = p1
  p2 = p2
  None = None
  Decision = {d1, d2}
  Proc = {p1, p2}
  Contents <- AnyPair
  Faults = {"crash", "busy", "handEdit", "foreign"}
PROPERTIES
  NeverForgotten
  Converges
