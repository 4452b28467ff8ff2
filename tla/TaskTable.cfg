CONSTANTS
  t1 = t1
  t2 = t2
  t3 = t3
  t4 = t4
  NoTask = NoTask
  MaxOpen = 2
  Task <- MCTask
  Project <- MCProject
  ProjectOf <- MCProjectOf
  Key <- MCKey
  Dep <- MCDep
SPECIFICATION Spec
INVARIANTS
  OneActivePerKey
  RunsAfterDependency
  EventsTellTheStatus
PROPERTIES
  NobodyIsStranded
  FollowsLifecycle
