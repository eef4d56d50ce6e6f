SPECIFICATION Spec
CONSTANTS
  Frames <- MCFrames
  Cells = {1, 2}
  Budget = 2
  Every = 2
  NumFrames = 3
  NumPlays = 2
  Stages = {"frameOutput", "postDispose"}
INVARIANTS
  OneWorker
  CacheExact
  SettlesOnSelected
PROPERTIES
  PlaybackGoesOn
CHECK_DEADLOCK FALSE
