CONSTANTS
  v1 = v1
  v2 = v2
  n = n
  w = w
  NoTask = NoTask
  NoLane = NoLane
  Task = {v1, v2}
  Resumable = {v1, v2}
  Resends = {v1, v2}
  MostSubmits = 2
  MaxStarts = 2
  Project <- MCProject
  Swept = {}
  MaxOpen = 2
  ProjectOf <- MCProjectOf
  Key <- MCKey
  Dep <- NoDep
  Lane <- MCLane
  MediaOf <- MCMediaOf
  LaneOf <- MCLaneOf
  RowLane <- MCRowLane
  Capacities <- Switchable
SPECIFICATION WorkerSpec
SYMMETRY Either
CHECK_DEADLOCK FALSE
INVARIANTS
  SubmittedByOneCall
  ReturnedMeansSettled
  RunningRowsHaveAnOwner
  CapacityIsKept
PROPERTIES
  UsesTheTable
