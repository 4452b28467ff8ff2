CONSTANTS
  t1 = t1
  t2 = t2
  NoTask = NoTask
  TTL = 2
  Overlap = TRUE
  MaxOpen = 1
  Task = {t1, t2}
  Project <- MCProject
  ProjectOf <- MCProjectOf
  Key <- MCKey
  Dep <- NoDep
SPECIFICATION LeaseSpec
INVARIANTS
  NoSelfPreemption
  LoneWorkerLeavesNoOrphan
