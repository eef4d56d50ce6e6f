SPECIFICATION FairSpec
CONSTANTS
  r1 = r1
  r2 = r2
  r3 = r3
  docA = docA
  docB = docB
  frame = frame
  NoStream = NoStream
  Mixed = Mixed
  Rows = {r1, r2, r3}
  BigRows = {r3}
  Statics = {docA, docB}
  Targets = {frame}
  WorkerCount = 2
  MaxGen = 2
  MaxJobs = 3
CHECK_DEADLOCK FALSE
INVARIANTS
  ReadyFromOpened
  ReplayingHasJob
PROPERTIES
  StaleReplayIgnored
  QueriesAnswered
