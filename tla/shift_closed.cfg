SPECIFICATION Spec
CONSTANTS
  s1 = s1
  s2 = s2
  Shifts <- Shift2
  Txs = {t1, t2, t3}
  None = None
  Requests <- EveryKind
  Opening <- Opening2
PROPERTIES
  RecordedWhileOpen
CHECK_DEADLOCK FALSE
