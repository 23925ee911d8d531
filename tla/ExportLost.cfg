SPECIFICATION Spec
CONSTANTS
  p1 = p1
  p2 = p2
  d1 = d1
  d2 = d2
  None = None
  Proc = {p1, p2}
  Decision = {d1, d2}
  Crashes = 0
  Legacy <- Replacement
  Branch <- Branches
INVARIANTS
  ExportIsComplete
