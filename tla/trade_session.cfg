SPECIFICATION TradeSpec
CONSTANTS
  r1 = r1
  r2 = r2
  r3 = r3
  u1 = u1
  itch = itch
  ouch = ouch
  Refs = {r1, r2, r3}
  TraderIds = {r1}
  Users = {u1}
  Zero = Zero
  NoOrder = NoOrder
  Threads = {itch, ouch}
  TradeThread = ouch
  TraderShares = {2}
  kMaxLocate = 2
  LocateInputs = {0, 1, 2}
  Prices = {0, 1}
  Quantities = {0, 1}
  UsersOf <- SharedUsers
  Tifs = {"DAY", "IOC", "FOK"}
  PriceMax = 3
  QtyMod = 8
  PoolCap = 2
  WalCap = 1
  TradeCap = 1
  MaxCalls = 3
INVARIANT TraderToldTruth
INVARIANT CrossedOnlyBySelf
INVARIANT LiveInOnePlace
PROPERTY EveryRequestAnswered
CHECK_DEADLOCK FALSE
