CONSTANTS
  a = a
  b = b
  c = c
  s1 = s1
  s2 = s2
  m1 = m1
  m2 = m2
  Project = Project
  Missing = Missing
  Nobody = Nobody
  Job <- MCJob
  Script = {s1, s2}
  Bound = s1
  Manager = {m1, m2}
  Warm <- MCWarm
  Plans <- Browsing
  Attempts = 2
  MaxCrashes = 0
SPECIFICATION FilesSpec
CHECK_DEADLOCK FALSE
INVARIANTS
  NoLostUpdate
