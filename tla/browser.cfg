SPECIFICATION BothSpec
CONSTANTS
  Users = {u1}
  HasPin = {u1}
  Slots = {c1, c2}
  Streams = {k1, k2}
  Ids = {t1, t2, t3}
  None = None
  Accounts = {a1, a2, a3}
  MAX_ACCOUNTS = 2
SYMMETRY Symmetric
INVARIANTS
  TypeOK
  NoSelfReplay
  OneStream
  ScopeReissued
  LogoutIsFinal
  NoneStranded
  QuickAccessRight
CHECK_DEADLOCK FALSE
