CONSTANTS
  v1 = v1
  v2 = v2
  n = n
  w = w
  NoTask = NoTask
  NoLane = NoLane
  Task = {v1, n}
  Resumable = {v1}
  Resends = {}
  MostSubmits = 2
  MaxStarts = 1
  Project <- MCProject
  Swept = {}
  MaxOpen = 2
  ProjectOf <- MCProjectOf
  Key <- MCKey
  Dep <- NoDep
  Lane <- MCLane
  MediaOf <- MCMediaOf
  LaneOf <- MCLaneOf
  RowLane <- MCRowLane
  Capacities <- OneEach
SPECIFICATION WorkerSpec
CHECK_DEADLOCK FALSE
INVARIANTS
  CancellingRowsHaveAnOwner
