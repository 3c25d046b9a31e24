SPECIFICATION Spec
CONSTANTS
  p1 = p1
  p2 = p2
  Products = {p1, p2}
  Txs = {t1, t2}
  NoTx = NoTx
  Prices = {1}
  Opening <- TwoOpening
  Requests <- SaleAndPurchase
INVARIANTS
  NoDeadlock
