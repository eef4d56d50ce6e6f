CONSTANTS
  ByteBits = 4
  WindowBytes = 2
  StoredBits = 2
  LzWindowSize = 5
  PollEvery = 2
  NumLiterals = 2
  Lengths <- MCLengths
  Distances <- MCDistances
  FixedLiterals <- MCFixedLiterals
  FixedDistances <- MCFixedDistances
  MaxCodeBits = 4
  CountWidths <- MCCountWidths
  MinCodeLengths = 4
  CodeLengthWidth = 2
  MaxCodeLength = 3
  CodeLengthOrder <- MCCodeLengthOrder
  Repeats <- MCRepeats
  InputChunk = 3
  ScratchSize = 2
  WindowSize = 2
  InitialCapacity = 1
  SnapshotBytes = 1
  Base = 9
  Wide = 2
  Mid = 1
  DictionarySize = 2
  Magic <- MCMagic
  Keys = {k1, k2, k3}
  Sizes = {1, 2, 4}
  Formats = {rows}
  Budget = 3
  MaxClock = 5
  Processes = {p1, p2}
  Pieces = 2
  MaxInodes = 4
  MaxCalls = 2
  SequenceMax = 4
  NodeBytes = 2
  IndexBytes = 10
  FrameBytes = 4
  SpanBytes = 1
  IssueBytes = 3
  MaxVariable = 4
  CountMax = 60
  CheckEvery = 2
SPECIFICATION Spec
INVARIANT
  StoresAgree
PROPERTIES
  TokensAreExact
  IndexesAreExact
  ContainersAreExact
  ImagesAreExact
  CountsAreExact
  QueriesAreExact
  PinnedStay
CHECK_DEADLOCK FALSE
