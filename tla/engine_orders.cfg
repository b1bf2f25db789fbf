SPECIFICATION Spec
CONSTANTS
  r1 = r1
  r2 = r2
  r3 = r3
  t1 = t1
  Refs = {r1, r2, r3}
  Users = {}
  Zero = Zero
  NoOrder = NoOrder
  Threads = {t1}
  kMaxLocate = 1
  LocateInputs = {0}
  Prices = {1, 2}
  Quantities = {1, 2}
  UsersOf <- UserPerOrder
  Tifs = {"DAY", "IOC", "FOK"}
  PriceMax = 3
  QtyMod = 3
  PoolCap = 2
  WalCap = 1
  TradeCap = 1
  MaxCalls = 3
SYMMETRY RefSymmetry
INVARIANT QuantityConserved
INVARIANT BuysEqualSells
INVARIANT OnlyFrontPartlyFilled
INVARIANT ReportsMatchLedger
INVARIANT FokAllOrNothing
PROPERTY KeepsLifecycle
