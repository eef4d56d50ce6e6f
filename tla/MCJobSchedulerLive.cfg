SPECIFICATION FairSpec
CONSTANTS
  w1 = w1
  w2 = w2
  c1 = c1
  c2 = c2
  small = small
  urgent = urgent
  big = big
  Workers = {w1, w2}
  Callers = {c1, c2}
  Jobs = {small, urgent, big}
  Generations = {0}
  Priority <- MCPriority
  Reservation <- MCReservation
  MaxReserved = 2
  Word = 8
  NoJob = NoJob
  None = None
CHECK_DEADLOCK FALSE
PROPERTIES
  JobsSettle
  ShutdownReturns
