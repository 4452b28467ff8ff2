CONSTANTS
  p = p
  q = q
  r = r
  Call = {p, q, r}
  Original = Original
  NoFile = NoFile
  Free = Free
  Torn = Torn
  MaxCrashes = 1
SPECIFICATION VersionsSpec
CHECK_DEADLOCK FALSE
INVARIANTS
  EveryVersionStands
  FileIsCurrentVersion
PROPERTIES
  OriginalIsKept
