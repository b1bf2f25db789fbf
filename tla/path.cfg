SPECIFICATION FairSpec
CONSTANTS
  Conns = {1, 2}
  None = None
  Fds <- OneFd
  MaxBuffers = 2
  RingUnits = 16
  MaxRsp = 2
  MaxFrames = 3
  ZcMin = 2
  ZcWorks = TRUE
  MaySignal = TRUE
INVARIANT DeliveredToOwner
INVARIANT ResponsesInOrder
INVARIANT CloseTargetsLive
INVARIANT BuffersExclusive
INVARIANT FramesIntact
PROPERTY EveryCloseRecycled
PROPERTY EveryResponseSent
CHECK_DEADLOCK FALSE
