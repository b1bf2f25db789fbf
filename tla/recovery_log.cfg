SPECIFICATION RecoverySpec
CONSTANTS
  r1 = r1
  r2 = r2
  r3 = r3
  t1 = t1
  Refs = {r1, r2, r3}
  Users = {}
  Zero = Zero
  NoOrder = NoOrder
  Threads = {t1}
  kMaxLocate = 1
  LocateInputs = {0}
  LocatesOf <- OneBook
  Prices = {1}
  Quantities = {1, 2}
  UsersOf <- UserPerOrder
  Tifs = {"DAY", "IOC"}
  PriceMax = 3
  QtyMod = 8
  PoolCap = 3
  WalCap = 3
  TradeCap = 1
  MaxCalls = 6
  MaxServed = 3
  MaxCrashes = 1
SYMMETRY RefSymmetry
CHECK_DEADLOCK FALSE
INVARIANT SameInputsSameBooks
