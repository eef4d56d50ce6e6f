SPECIFICATION Spec
CONSTANTS
  f0 = f0
  f1 = f1
  NoTicket = NoTicket
  Frames <- MCFrames
  Ops <- AllOps
  QueueCap = 2
  Priorities = {2}
  MaxRequests = 4
  MaxSerial = 2
  MaxGen = 1
CHECK_DEADLOCK FALSE
SYMMETRY FrameSymmetry
INVARIANTS
  QueueDisciplined
  QueueIsFed
  SettlesOnLatest
