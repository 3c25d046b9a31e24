SPECIFICATION FairSpec
CONSTANTS
  Expenses = {e1,e2}
  Products = {p1, p2}
  Slots = {t1,t2}
  NoExpense = NoExpense
  NoProduct = NoProduct
  NoSlot = NoSlot
  Quantities = {1, 2}
  PoolSize = 3
  Opening <- OneEach
INVARIANTS
  TypeOK
  StockNonNegative
  BookedAsStated
PROPERTIES
  DeletedIsFinal
  EveryRequestEnds
CHECK_DEADLOCK FALSE
