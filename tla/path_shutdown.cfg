SPECIFICATION Spec
CONSTANTS
  Conns = {1}
  None = None
  Fds <- OneFd
  MaxBuffers = 2
  RingUnits = 16
  MaxRsp = 2
  MaxFrames = 1
  ZcMin = 2
  ZcWorks = TRUE
  MaySignal = TRUE
INVARIANT DeletedOnce
CHECK_DEADLOCK FALSE
