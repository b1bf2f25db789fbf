SPECIFICATION Spec
CONSTANTS
  Conns = {1, 2}
  None = None
  Fds <- TwoFds
  MaxBuffers = 2
  RingUnits = 16
  MaxRsp = 2
  MaxFrames = 3
  ZcMin = 2
  ZcWorks = FALSE
  MaySignal = FALSE
INVARIANT DeliveredToOwner
CHECK_DEADLOCK FALSE
