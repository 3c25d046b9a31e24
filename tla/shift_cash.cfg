SPECIFICATION Spec
CONSTANTS
  s1 = s1
  s2 = s2
  Shifts <- Shift2
  Txs = {t1, t2, t3, t4, t5}
  None = None
  Requests <- EveryKind
  Opening <- Opening2
SYMMETRY Symmetric
INVARIANTS
  TypeOK
  OneOpenShift
  TalliesMatchSales
  NoDeadlock
PROPERTIES
  ExpectedCashExact
  ClosedIsFinal
CHECK_DEADLOCK FALSE
