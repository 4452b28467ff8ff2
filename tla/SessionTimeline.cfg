CONSTANTS
  p1 = p1
  p1again = p1again
  p2 = p2
  NoPost = NoPost
  Post <- MCPost
  Message <- MCMessage
  MessageOf <- MCMessageOf
  MaxSaid = 1
  MaxStreams = 1
  QueueSize = 2
SPECIFICATION TimelineSpec
SYMMETRY Repeats
INVARIANTS
  AcceptedOnce
  ReaderKeepsUp
  SettledStatus
CHECK_DEADLOCK FALSE
