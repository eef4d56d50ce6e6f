SPECIFICATION Spec
CONSTANTS
  idat = idat
  frame = frame
  NoStream = NoStream
  Streams <- MCStreams
  Targets <- MCTargets
  WorkerCount = 2
  MaxGen = 2
  MaxJobs = 2
INVARIANTS
  StreamOutlivesReplay
  NothingLeftBehind
  ResultNotLost
