\* A peer that stays responsive, or one that may stall or leave at any moment.
CONSTANTS
  f1 = f1  f2 = f2  Null = Null
  Flushes = {f1, f2}
  PingInterval = 1  ReadTimeout = 6  WriteTimeout = 2  PongDelay = 1  FrameTime = 1
  ClientPings = TRUE
SPECIFICATION FairSpec
CHECK_DEADLOCK FALSE
INVARIANTS
  LivePeerKept
PROPERTIES
  FramesApart
  WritersEnd
