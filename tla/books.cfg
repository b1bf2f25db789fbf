SPECIFICATION Spec
CONSTANTS
  r1 = r1
  r2 = r2
  r3 = r3
  u1 = u1
  u2 = u2
  Refs = {r1, r2, r3}
  Users = {u1, u2}
  Zero = Zero
  NoOrder = NoOrder
  Slots = {0, 1, 2}
  Nil = Nil
  Locates = {0}
  Prices = {1, 2}
  Quantities = {1}
  QtyMod = 3
  MaxOrders = 3
SYMMETRY Symmetry
INVARIANT IndexMatchesPool
INVARIANT LevelsAreLists
PROPERTY ImplementsBook
INVARIANT BestIsFirstByPriority
INVARIANT ReadsMatchOrders
