SPECIFICATION Spec
CONSTANTS
  None = None
  Loading = Loading
  PlainKinds = {"decode"}
  MaxGen = 2
  MaxSerial = 4
  MaxStats = 2
CHECK_DEADLOCK FALSE
INVARIANTS
  ResultsAreWhole
  AnimationPublishedOnce
  OneCollection
  DetailIsNewest
  NothingForgotten
