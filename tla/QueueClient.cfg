CONSTANTS
  i1 = i1
  v1 = v1
  NoTask = NoTask
  MaxOpen = 1
  Task <- MCTask
  Project <- MCProject
  ProjectOf <- MCProjectOf
  Key <- MCKey
  Dep <- MCDep
  Client <- MCClient
  SpecsOf <- MCSpecsOf
SPECIFICATION FairQueueSpec
INVARIANTS
  WaitersHearTheTruth
  BatchOrder
PROPERTIES
  EveryWaitEnds
