CONSTANTS
  f1 = f1
  f2 = f2
  Frames = {f1, f2}
  Static = static
  None = none
  Nothing = nothing
  Pixels = {1, 2}
  Extent <- MCExtent
  FrameRow <- MCFrameRow
  MaxDocuments = 2
  MaxAnimated = 1
  MaxPublished = 2
  MaxPosted = 1
  MaxJobs = 1
  MaxGenerations = 2
  MaxSerials = 2
  MaxCollections = 2
  MaxCalls = 2
SPECIFICATION MCSpec
INVARIANTS
  SettlesOnRequest
  OneScan
  LockOfIdentity
CHECK_DEADLOCK FALSE
