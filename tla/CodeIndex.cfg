SPECIFICATION FairSpec
CONSTANTS
  p1 = p1
  p2 = p2
  f1 = f1
  f2 = f2
  c1 = c1
  c2 = c2
  None = None
  Proc = {p1, p2}
  Path = {f1, f2}
  Content = {c1, c2}
  Version = {1, 2}
  Current = 2
  LastStamp = 2
INVARIANTS
  TypeOK
  StampTellsExtractor
  SerialRunsIndex
PROPERTIES
  RunsCatchUp
