CONSTANTS
  f1 = f1
  f2 = f2
  Frames = {f1, f2}
  Static = static
  None = none
  Nothing = nothing
  Pixels = {1, 2}
  Extent <- MCExtent
  FrameRow <- MCFrameRow
  MaxDocuments = 1
  MaxAnimated = 1
  MaxPublished = 1
  MaxPosted = 1
  MaxJobs = 1
  MaxGenerations = 2
  MaxSerials = 2
  MaxCollections = 2
  MaxCalls = 2
SPECIFICATION MCSpec
INVARIANT
  StaticStaysRestored
CHECK_DEADLOCK FALSE
