SPECIFICATION LockFreeSpec
CONSTANTS
  t1 = t1
  t2 = t2
  t3 = t3
  Threads = {t1, t2, t3}
  Capacity = 2
  Nil = Nil
  MaxTag = 5
  N = 4
  Lens = {0, 1, 2, 3, 5}
  MaxBytes = 13
  p1 = p1
  p2 = p2
  Producers = {p1, p2}
  CAPACITY = 2
  Busy = Busy
  MaxLogs = 4
INVARIANT SlotsExclusive
INVARIANT NoSlotLost
INVARIANT LinksFormStack
PROPERTY EveryCallReturns
INVARIANT SpanIsNextBytes
INVARIANT NeverOverfull
PROPERTY EveryByteConsumed
INVARIANT FileInOrder
INVARIANT EntryNotTorn
PROPERTY EveryEntryWritten
PROPERTY ShutdownReturns
CHECK_DEADLOCK FALSE
