SPECIFICATION Spec
CONSTANTS
  p1 = p1
  p2 = p2
  Products = {p1, p2}
  Txs = {t1, t2, t3}
  NoTx = NoTx
  Prices = {1, 2}
  Opening <- TwoOpening
  Requests <- EveryKind
SYMMETRY Symmetric
INVARIANTS
  TypeOK
  StockNonNegative
  LedgerChain
  DenseInvoices
  SaleTermsStand
PROPERTIES
  ImplementsStockBook
