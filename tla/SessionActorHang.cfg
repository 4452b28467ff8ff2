CONSTANTS
  q1 = q1
  q2 = q2
  q3 = q3
  i1 = i1
  d1 = d1
  NoCmd = NoCmd
  Cmd <- MCCmd
  Kind <- MCKind
SPECIFICATION ActorSpec
INVARIANTS
  NobodyIsLeftWaiting
CHECK_DEADLOCK FALSE
