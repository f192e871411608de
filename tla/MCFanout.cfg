SPECIFICATION Spec
CONSTANTS
  Subs = {s1}
  Loops = {b1, b2}
  s1 = s1
  b1 = b1
  b2 = b2
  None = None
  QueueSize = 1
  MaxChunks = 3
INVARIANTS
  TypeOK
  NoGap
  StreamFollowsHistory
PROPERTIES
  BroadcastNeverWaits
  RemovedEnds
CHECK_DEADLOCK FALSE
