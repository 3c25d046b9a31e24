SPECIFICATION Spec
CONSTANTS
  p1 = p1
  Products = {p1}
  TaxRate <- TwentyPercent
  Shifts = {s1, s2}
  Slots = {c1, c2}
  None = None
  Prices = {105, 100}
  GridPrices = {105}
  Discounts = {0, 10, 20}
  Tenders = {110}
  MaxQty = 1
  MaxLost = 1
SYMMETRY Symmetric
INVARIANTS
  TypeOK
  BookedInShownShift
  SoldOnce
  BusyWhileWorking
  RefusedOverFractions
PROPERTIES
  SoldIsCleared
CHECK_DEADLOCK FALSE
