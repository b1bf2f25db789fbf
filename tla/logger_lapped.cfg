SPECIFICATION LoggerSpec
CONSTANTS
  p1 = p1
  p2 = p2
  Producers = {p1, p2}
  CAPACITY = 2
  Busy = Busy
  MaxLogs = 3
INVARIANT OneWriterPerSlot
CHECK_DEADLOCK FALSE
