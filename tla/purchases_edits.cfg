SPECIFICATION Spec
CONSTANTS
  Expenses = {e1}
  Products = {p1, p2}
  Slots = {t1, t2}
  NoExpense = NoExpense
  NoProduct = NoProduct
  NoSlot = NoSlot
  Quantities = {1, 2}
  PoolSize = 4
  Opening <- OneEach
SYMMETRY Symmetric
INVARIANTS
  NoLostUpdate
CHECK_DEADLOCK FALSE
