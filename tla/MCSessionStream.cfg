SPECIFICATION FairStreamSpec
CONSTANTS
  Streams = {s1, s2}
  DataLimit = 1
  WatchLimit = 1
  FrameLimit = 1
  MaxCut = 3
  MaxRev = 1
  MaxFailures = 1
INVARIANTS
  StreamInvariant
PROPERTIES
  CatchesUp
CHECK_DEADLOCK FALSE
