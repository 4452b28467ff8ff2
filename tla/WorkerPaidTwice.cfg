CONSTANTS
  v1 = v1
  v2 = v2
  n = n
  w = w
  NoTask = NoTask
  NoLane = NoLane
  Task = {v1}
  Resumable = {v1}
  Resends = {v1}
  MostSubmits = 2
  MaxStarts = 1
  Project <- MCProject
  Swept = {}
  MaxOpen = 2
  ProjectOf <- MCProjectOf
  Key <- MCKey
  Dep <- NoDep
  Lane <- MCLane
  MediaOf <- MCMediaOf
  LaneOf <- MCLaneOf
  RowLane <- MCRowLane
  Capacities <- TwoEach
SPECIFICATION WorkerSpec
CHECK_DEADLOCK FALSE
INVARIANTS
  PaidForOnce
