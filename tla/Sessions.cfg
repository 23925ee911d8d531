CONSTANTS
  Default = Default
  Elsewhere = Elsewhere
  Call = {c1, c2}
  d1 = d1
  d2 = d2
  Decision = {d1, d2}
  Replaces <- MCReplaces
  LastFailure = 1
  None = None

SPECIFICATION FairSpec
CHECK_DEADLOCK FALSE
INVARIANTS
  TypeOK
  OneRuntimePerProject
  SavedBeforeReleaseIsEmbedded
  ReleaseIsComplete
  CacheFollowsSession
PROPERTIES
  CallsAndReleaseEnd
