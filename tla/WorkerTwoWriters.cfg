CONSTANTS
  v1 = v1
  v2 = v2
  n = n
  w = w
  NoTask = NoTask
  NoLane = NoLane
  Task = {v1, v2}
  Resumable = {v1, v2}
  Resends = {}
  MostSubmits = 2
  MaxStarts = 1
  Project <- MCProject
  Swept = {}
  MaxOpen = 2
  ProjectOf <- MCProjectOf
  Key <- SameKey
  Dep <- NoDep
  Lane <- MCLane
  MediaOf <- MCMediaOf
  LaneOf <- MCLaneOf
  RowLane <- MCRowLane
  Capacities <- TwoEach
SPECIFICATION WorkerSpec
CHECK_DEADLOCK FALSE
INVARIANTS
  OneWriterPerResource
