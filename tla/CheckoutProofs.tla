--------------------------- MODULE CheckoutProofs ---------------------------
(***************************************************************************)
(* Machine-checked theorems about Checkout.tla, for any set of products,   *)
(* any number of request slots and any menu of requests.                   *)
(***************************************************************************)
EXTENDS Checkout, FiniteSetTheorems, SequenceTheorems, TLAPS

-----------------------------------------------------------------------------
(* What a program counter says of the transaction that is there.           *)
ControlOf(t) ==
  /\ pc[t] \in {"expense", "inventory", "product"} => path[t] # <<>>
  /\ pc[t] \in {"idle"} \cup Terminal => held[t] = {}
  /\ pc[t] # "idle" => req[t] \in Requests
  /\ pc[t] = "sale" => req[t].kind = "void"
  /\ pc[t] = "product" => req[t].kind \in {"sale", "validate"}
  /\ pc[t] = "insert" => req[t].kind = "sale"
  /\ pc[t] = "commit" => req[t].kind # "validate"
  /\ status[t] # "none" => pc[t] = "committed" /\ req[t].kind = "sale"
  /\ (pc[t] # "idle" /\ req[t].kind = "void") => status[req[t].target] # "none"
Control == \A t \in Txs : ControlOf(t)

LEMMA NoRequestType == NoRequest \in Request
BY ConstantsAssumption DEF NoRequest, Request, Kinds

LEMMA RequestType ==
  ASSUME NEW r \in Requests
  PROVE  /\ r \in Request
         /\ r.kind \in Kinds
         /\ r.order \in Seq(Products)
         /\ r.units \in [Products -> Int]
         /\ r.target \in Txs \cup {NoTx}
         /\ r.kind = "void" => r.target \in Txs
BY RequestsAssumption DEF Request

(* A reordering of a cart is a cart of the same length.                    *)
LEMMA OrdersType ==
  ASSUME NEW lines \in Seq(Products), NEW order \in Orders(lines)
  PROVE  /\ order \in Seq(Products)
         /\ lines # <<>> => order # <<>>
<1>1. PICK f \in [DOMAIN lines -> DOMAIN lines] :
        order = [k \in DOMAIN lines |-> lines[f[k]]]
  BY DEF Orders
<1>2. /\ Len(lines) \in Nat
      /\ DOMAIN lines = 1..Len(lines)
      /\ lines \in [1..Len(lines) -> Products]
  OBVIOUS
<1>3. order \in [1..Len(lines) -> Products]
  BY <1>1, <1>2
<1>4. order \in Seq(Products)
  BY <1>2, <1>3
<1>5. lines # <<>> => order # <<>>
  BY <1>2, <1>3, DOMAIN order = 1..Len(lines)
<1> QED BY <1>4, <1>5

LEMMA LinesLeft ==
  ASSUME NEW lines \in Seq(Products), lines # <<>>
  PROVE  /\ Tail(lines) \in Seq(Products)
         /\ Len(lines) # 1 => Tail(lines) # <<>>
<1>1. Len(lines) \in Nat /\ Len(Tail(lines)) = Len(lines) - 1
  BY HeadTailProperties
<1> QED BY <1>1, HeadTailProperties

LEMMA SaleRowsFinite ==
  IsFiniteSet(SaleRows) /\ Cardinality(SaleRows) \in Nat
<1>1. SaleRows \in SUBSET Txs
  BY DEF SaleRows
<1> QED BY <1>1, ConstantsAssumption, FS_Subset, FS_CardinalityType

LEMMA InitTyping == Init => TypeOK /\ Control
<1> SUFFICES ASSUME Init PROVE TypeOK /\ Control
  OBVIOUS
<1>1. TypeOK
  BY ConstantsAssumption DEF Init, TypeOK, Blank, NoRequest
<1>2. Control
  BY DEF Init, Control, ControlOf, Terminal
<1> QED BY <1>1, <1>2

LEMMA EndTyping ==
  ASSUME TypeOK, NEW t \in Txs, Release(t), Forget(t)
  PROVE  /\ invLock' \in [Products -> Txs \cup {NoTx}]
         /\ prodLock' \in [Products -> Txs \cup {NoTx}]
         /\ prodShare' \in [Products -> SUBSET Txs]
         /\ saleLock' \in [Txs -> Txs \cup {NoTx}]
         /\ path' \in [Txs -> Seq(Products)]
         /\ held' \in [Txs -> SUBSET Products]
         /\ before' \in [Txs -> [Products -> Int]]
         /\ quote' \in [Txs -> [Products -> Prices \cup {0}]]
         /\ draw' \in [Txs -> Nat]
BY DEF TypeOK, Release, Forget, Blank

LEMMA RollbackTyping ==
  ASSUME TypeOK, Control, NEW t \in Txs, pc[t] \in Steps, Rollback(t)
  PROVE  TypeOK' /\ Control'
<1>1. TypeOK'
  BY EndTyping DEF TypeOK, Rollback, Terminal, books, catalog
<1>2. Control'
  <2> SUFFICES ASSUME NEW u \in Txs PROVE ControlOf(u)'
    BY DEF Control
  <2>1. CASE u = t
    BY <2>1 DEF TypeOK, Control, ControlOf, Rollback, Forget, Terminal, Steps, books
  <2>2. CASE u # t
    BY <2>2 DEF TypeOK, Control, ControlOf, Rollback, Forget, books
  <2> QED BY <2>1, <2>2
<1> QED BY <1>1, <1>2

LEMMA BeginTyping ==
  ASSUME TypeOK, Control, NEW t \in Txs, Begin(t)
  PROVE  TypeOK' /\ Control'
<1>1. pc[t] = "idle" /\ UNCHANGED <<books, catalog, locks, held, before>>
  BY DEF Begin
<1>2. PICK r \in Requests :
        /\ r.kind = "void" => status[r.target] # "none"
        /\ req' = [req EXCEPT ![t] = r]
        /\ path' = [path EXCEPT ![t] = r.order]
        /\ pc' = [pc EXCEPT ![t] = FirstStep(r.kind)]
        /\ quote' = [quote EXCEPT ![t] = [p \in Products |->
                       IF r.kind \in {"sale", "validate"} /\ p \in Lines(r.order)
                         THEN price[p] ELSE 0]]
        /\ draw' = [draw EXCEPT ![t] = IF r.kind = "sale" THEN NextInvoice ELSE 0]
  BY DEF Begin
<1>3. /\ r.kind \in Kinds /\ r.order \in Seq(Products)
      /\ r.kind # "void" => r.order # <<>>
  BY RequestType, RequestsAssumption
<1>4. FirstStep(r.kind) \in {"sale", "expense", "inventory"}
  BY DEF FirstStep
<1>5. NextInvoice \in Nat
  BY SaleRowsFinite DEF NextInvoice
<1>6. TypeOK'
  <2>1. /\ req' \in [Txs -> Requests \cup {NoRequest}]
        /\ path' \in [Txs -> Seq(Products)]
        /\ pc' \in [Txs -> {"idle"} \cup Steps \cup Terminal]
    BY <1>2, <1>3, <1>4 DEF TypeOK, Steps
  <2>2. /\ quote' \in [Txs -> [Products -> Prices \cup {0}]]
        /\ draw' \in [Txs -> Nat]
    BY <1>2, <1>5 DEF TypeOK
  <2> QED BY <1>1, <2>1, <2>2 DEF TypeOK, books, catalog, locks
<1>7. Control'
  <2> SUFFICES ASSUME NEW u \in Txs PROVE ControlOf(u)'
    BY DEF Control
  <2>1. CASE u = t
    <3>1. pc'[t] = FirstStep(r.kind) /\ req'[t] = r /\ path'[t] = r.order
      BY <1>2 DEF TypeOK
    <3>2. held'[t] = {} /\ status'[t] = "none"
      BY <1>1 DEF Control, ControlOf, books, Terminal
    <3>3. r.kind = "void" => status'[r.target] # "none"
      BY <1>1, <1>2 DEF books
    <3>4. FirstStep(r.kind) = "sale" <=> r.kind = "void"
      BY DEF FirstStep
    <3> QED BY <2>1, <3>1, <3>2, <3>3, <3>4, <1>3, <1>4 DEF ControlOf, Terminal
  <2>2. CASE u # t
    BY <1>1, <1>2, <2>2 DEF TypeOK, Control, ControlOf, books
  <2> QED BY <2>1, <2>2
<1> QED BY <1>6, <1>7

(* A step of another transaction leaves the control of this one alone.     *)
LEMMA ControlFrame ==
  ASSUME Control, NEW u \in Txs, UNCHANGED <<status, req>>,
         pc'[u] = pc[u], path'[u] = path[u], held'[u] = held[u]
  PROVE  ControlOf(u)'
BY DEF Control, ControlOf

LEMMA LockSaleTyping ==
  ASSUME TypeOK, Control, NEW t \in Txs, LockSale(t)
  PROVE  TypeOK' /\ Control'
<1> DEFINE s == req[t].target
<1>1. /\ pc[t] = "sale" /\ req[t] \in Requests /\ req[t].kind = "void"
      /\ s \in Txs /\ status[s] # "none"
  BY RequestType DEF LockSale, Control, ControlOf
<1>2. req[s] \in Requests /\ req[s].kind = "sale"
  BY <1>1 DEF Control, ControlOf
<1>3. req[s].order \in Seq(Products) /\ req[s].order # <<>>
  BY <1>2, RequestType, RequestsAssumption
<1>4. CASE Rollback(t)
  BY <1>1, <1>4, RollbackTyping DEF Steps
<1>5. CASE /\ saleLock' = [saleLock EXCEPT ![s] = t]
           /\ \E order \in Orders(req[s].order) : path' = [path EXCEPT ![t] = order]
           /\ pc' = [pc EXCEPT ![t] = "inventory"]
           /\ UNCHANGED <<books, catalog, invLock, prodLock, prodShare, req,
                          held, before, quote, draw>>
  <2>1. PICK order \in Orders(req[s].order) : path' = [path EXCEPT ![t] = order]
    BY <1>5
  <2>2. order \in Seq(Products) /\ order # <<>>
    BY <1>3, OrdersType
  <2>3. TypeOK'
    BY <1>1, <1>5, <2>1, <2>2 DEF TypeOK, Steps, books, catalog
  <2>4. Control'
    <3> SUFFICES ASSUME NEW u \in Txs PROVE ControlOf(u)'
      BY DEF Control
    <3>1. CASE u # t
      <4>1. pc'[u] = pc[u] /\ path'[u] = path[u]
        BY <1>5, <2>1, <3>1 DEF TypeOK
      <4> QED BY <1>5, <4>1, ControlFrame DEF books
    <3>2. CASE u = t
      BY <1>1, <1>5, <2>1, <2>2, <3>2 DEF TypeOK, Control, ControlOf, Terminal, books
    <3> QED BY <3>1, <3>2
  <2> QED BY <2>3, <2>4
<1> QED BY <1>4, <1>5 DEF LockSale

LEMMA InsertExpenseTyping ==
  ASSUME TypeOK, Control, NEW t \in Txs, InsertExpense(t)
  PROVE  TypeOK' /\ Control'
<1> DEFINE p == Head(path[t])
<1>1. pc[t] = "expense" /\ path[t] # <<>> /\ path[t] \in Seq(Products)
  BY DEF InsertExpense, Control, ControlOf, TypeOK
<1>2. p \in Products
  BY <1>1
<1>3. TypeOK'
  BY <1>1, <1>2 DEF InsertExpense, TypeOK, Steps, books, catalog, locals
<1>4. Control'
  <2> SUFFICES ASSUME NEW u \in Txs PROVE ControlOf(u)'
    BY DEF Control
  <2> QED BY <1>1 DEF InsertExpense, TypeOK, Control, ControlOf, Terminal, books, locals
<1> QED BY <1>3, <1>4

LEMMA LockInventoryTyping ==
  ASSUME TypeOK, Control, NEW t \in Txs, LockInventory(t)
  PROVE  TypeOK' /\ Control'
<1> DEFINE p == Head(path[t])
           k == req[t].kind
           next == IF Len(path[t]) = 1 THEN "commit" ELSE "inventory"
<1>1. pc[t] = "inventory" /\ path[t] # <<>> /\ path[t] \in Seq(Products)
  BY DEF LockInventory, Control, ControlOf, TypeOK
<1>2. p \in Products /\ Tail(path[t]) \in Seq(Products)
  BY <1>1
<1>3. CASE Rollback(t)
  BY <1>1, <1>3, RollbackTyping DEF Steps
<1>4. CASE /\ invLock' = [invLock EXCEPT ![p] = t]
           /\ before' = [before EXCEPT ![t][p] = stock[p]]
           /\ held' = [held EXCEPT ![t] = @ \cup {p}]
           /\ IF k \in {"sale", "validate"}
                THEN pc' = [pc EXCEPT ![t] = "product"] /\ UNCHANGED path
                ELSE /\ path' = [path EXCEPT ![t] = Tail(@)]
                     /\ pc' = [pc EXCEPT ![t] = next]
           /\ UNCHANGED <<books, catalog, prodLock, prodShare, saleLock, req, quote, draw>>
  <2>1. /\ invLock' \in [Products -> Txs \cup {NoTx}]
        /\ before' \in [Txs -> [Products -> Int]]
        /\ held' \in [Txs -> SUBSET Products]
    BY <1>2, <1>4 DEF TypeOK
  <2>2. /\ pc' \in [Txs -> {"idle"} \cup Steps \cup Terminal]
        /\ path' \in [Txs -> Seq(Products)]
    BY <1>2, <1>4 DEF TypeOK, Steps
  <2>3. TypeOK'
    BY <1>4, <2>1, <2>2 DEF TypeOK, books, catalog
  <2>4. Control'
    <3> SUFFICES ASSUME NEW u \in Txs PROVE ControlOf(u)'
      BY DEF Control
    <3>1. CASE u # t
      <4>1. pc'[u] = pc[u] /\ path'[u] = path[u] /\ held'[u] = held[u]
        BY <1>4, <3>1 DEF TypeOK
      <4> QED BY <1>4, <4>1, ControlFrame DEF books
    <3>2. CASE u = t /\ k \in {"sale", "validate"}
      BY <1>1, <1>4, <3>2 DEF TypeOK, Control, ControlOf, Terminal, books
    <3>3. CASE u = t /\ k \notin {"sale", "validate"}
      <4>1. Len(path[t]) # 1 => Tail(path[t]) # <<>>
        BY <1>1, LinesLeft
      <4>2. pc'[t] = next /\ path'[t] = Tail(path[t])
        BY <1>4, <3>3 DEF TypeOK
      <4> QED BY <1>1, <1>4, <3>3, <4>1, <4>2 DEF Control, ControlOf, Terminal, books
    <3> QED BY <3>1, <3>2, <3>3
  <2> QED BY <2>3, <2>4
<1> QED BY <1>3, <1>4 DEF LockInventory

LEMMA LockProductTyping ==
  ASSUME TypeOK, Control, NEW t \in Txs, LockProduct(t)
  PROVE  TypeOK' /\ Control'
<1> DEFINE p == Head(path[t])
           last == Len(path[t]) = 1
<1>1. /\ pc[t] = "product" /\ path[t] # <<>> /\ path[t] \in Seq(Products)
      /\ req[t].kind \in {"sale", "validate"}
  BY DEF LockProduct, Control, ControlOf, TypeOK
<1>2. p \in Products /\ Tail(path[t]) \in Seq(Products)
  BY <1>1
<1>3. CASE Rollback(t)
  BY <1>1, <1>3, RollbackTyping DEF Steps
<1>4. CASE /\ ~(last /\ req[t].kind = "validate")
           /\ prodLock' = [prodLock EXCEPT ![p] = t]
           /\ path' = [path EXCEPT ![t] = Tail(@)]
           /\ pc' = [pc EXCEPT ![t] = IF last THEN "insert" ELSE "inventory"]
           /\ UNCHANGED <<books, catalog, invLock, prodShare, saleLock, req,
                          held, before, quote, draw>>
  <2>1. TypeOK'
    BY <1>2, <1>4 DEF TypeOK, Steps, books, catalog
  <2>2. Control'
    <3> SUFFICES ASSUME NEW u \in Txs PROVE ControlOf(u)'
      BY DEF Control
    <3>1. CASE u # t
      <4>1. pc'[u] = pc[u] /\ path'[u] = path[u] /\ held'[u] = held[u]
        BY <1>4, <3>1 DEF TypeOK
      <4> QED BY <1>4, <4>1, ControlFrame DEF books
    <3>2. CASE u = t
      <4>1. ~last => Tail(path[t]) # <<>>
        BY <1>1, LinesLeft
      <4>2. pc'[t] = (IF last THEN "insert" ELSE "inventory") /\ path'[t] = Tail(path[t])
        BY <1>4 DEF TypeOK
      <4> QED BY <1>1, <1>4, <3>2, <4>1, <4>2 DEF Control, ControlOf, Terminal, books
    <3> QED BY <3>1, <3>2
  <2> QED BY <2>1, <2>2
<1> QED BY <1>3, <1>4 DEF LockProduct, KeepProduct

LEMMA InsertSaleTyping ==
  ASSUME TypeOK, Control, NEW t \in Txs, InsertSale(t)
  PROVE  TypeOK' /\ Control'
<1>1. pc[t] = "insert" /\ req[t].kind = "sale"
  BY DEF InsertSale, Control, ControlOf
<1>2. CASE Rollback(t)
  BY <1>1, <1>2, RollbackTyping DEF Steps
<1>3. CASE /\ pc' = [pc EXCEPT ![t] = "commit"]
           /\ UNCHANGED <<books, catalog, locks, req, locals>>
  <2>1. TypeOK'
    BY <1>3 DEF TypeOK, Steps, books, catalog, locks, locals
  <2>2. Control'
    BY <1>1, <1>3 DEF TypeOK, Control, ControlOf, Terminal, books, locals
  <2> QED BY <2>1, <2>2
<1> QED BY <1>2, <1>3 DEF InsertSale

(* The units a running transaction moves are those of a submitted request. *)
LEMMA UnitsType ==
  ASSUME TypeOK, Control, NEW t \in Txs, pc[t] # "idle"
  PROVE  /\ req[t] \in Requests
         /\ Units(t) \in [Products -> Int]
         /\ req[t].kind \in {"sale", "validate", "purchase", "count", "void"}
              => \A p \in Products : Units(t)[p] >= 0
<1>1. req[t] \in Requests
  BY DEF Control, ControlOf
<1>2. CASE req[t].kind = "void"
  <2>1. req[t].target \in Txs /\ status[req[t].target] # "none"
    BY <1>1, <1>2, RequestType DEF Control, ControlOf
  <2>2. req[req[t].target] \in Requests /\ req[req[t].target].kind = "sale"
    BY <2>1 DEF Control, ControlOf
  <2> QED BY <1>1, <1>2, <2>2, RequestType, RequestsAssumption DEF Units
<1>3. CASE req[t].kind # "void"
  BY <1>1, <1>3, RequestType, RequestsAssumption DEF Units
<1> QED BY <1>1, <1>2, <1>3

LEMMA NewQuantityType ==
  ASSUME TypeOK, Control, NEW t \in Txs, pc[t] # "idle", NEW p \in Products
  PROVE  /\ NewQuantity(t, p) \in Int
         /\ LedgerRow(t, p) \in [before: Int, change: Int, after: Int]
         /\ LedgerRow(t, p).before = before[t][p]
         /\ LedgerRow(t, p).after = NewQuantity(t, p)
         /\ LedgerRow(t, p).after = LedgerRow(t, p).before + LedgerRow(t, p).change
<1>1. Units(t)[p] \in Int /\ before[t][p] \in Int
  BY UnitsType DEF TypeOK
<1>2. CASE req[t].kind = "sale"
  BY <1>1, <1>2 DEF NewQuantity, LedgerRow
<1>3. CASE req[t].kind = "count"
  BY <1>1, <1>3 DEF NewQuantity, LedgerRow
<1>4. CASE req[t].kind \notin {"sale", "count"}
  BY <1>1, <1>4 DEF NewQuantity, LedgerRow
<1> QED BY <1>2, <1>3, <1>4

LEMMA StatusAfterType ==
  ASSUME TypeOK, Control, NEW t \in Txs, pc[t] = "commit"
  PROVE  /\ StatusAfter(t) \in [Txs -> {"none", "completed", "voided"}]
         /\ \A u \in Txs : StatusAfter(t)[u] # "none"
              <=> status[u] # "none" \/ (u = t /\ req[t].kind = "sale")
<1>1. req[t] \in Requests
  BY DEF Control, ControlOf
<1>2. req[t].kind = "void" => req[t].target \in Txs /\ status[req[t].target] # "none"
  BY <1>1, RequestType DEF Control, ControlOf
<1>3. CASE req[t].kind = "sale"
  BY <1>3 DEF StatusAfter, TypeOK
<1>4. CASE req[t].kind = "void"
  BY <1>2, <1>4 DEF StatusAfter, TypeOK
<1>5. CASE req[t].kind \notin {"sale", "void"}
  BY <1>5 DEF StatusAfter, TypeOK
<1> QED BY <1>3, <1>4, <1>5

LEMMA CommitTyping ==
  ASSUME TypeOK, Control, NEW t \in Txs, Commit(t)
  PROVE  TypeOK' /\ Control'
<1>1. pc[t] = "commit" /\ req[t].kind # "validate"
  BY DEF Commit, Control, ControlOf
<1>2. TypeOK'
  <2>1. stock' \in [Products -> Int]
    BY <1>1, NewQuantityType DEF Commit, TypeOK
  <2>2. ledger' \in [Products -> Seq([before: Int, change: Int, after: Int])]
    <3> DEFINE Row == [before: Int, change: Int, after: Int]
    <3>1. ASSUME NEW p \in Products
          PROVE  Append(ledger[p], LedgerRow(t, p)) \in Seq(Row)
      <4>1. ledger[p] \in Seq(Row)
        BY DEF TypeOK
      <4>2. LedgerRow(t, p) \in Row
        BY <1>1, NewQuantityType
      <4> HIDE DEF Row
      <4> QED BY <4>1, <4>2, AppendProperties
    <3> QED BY <3>1 DEF Commit, TypeOK
  <2>3. status' \in [Txs -> {"none", "completed", "voided"}]
    BY <1>1, StatusAfterType DEF Commit
  <2>4. invoice' \in [Txs -> Nat]
    BY DEF Commit, TypeOK
  <2>5. /\ pc' \in [Txs -> {"idle"} \cup Steps \cup Terminal]
        /\ req' \in [Txs -> Requests \cup {NoRequest}]
        /\ price' \in [Products -> Prices] /\ active' \in [Products -> BOOLEAN]
    BY DEF Commit, Terminal, TypeOK, catalog
  <2>6. Release(t) /\ Forget(t)
    BY DEF Commit
  <2> QED BY <2>1, <2>2, <2>3, <2>4, <2>5, <2>6, EndTyping DEF TypeOK
<1>3. Control'
  <2> SUFFICES ASSUME NEW u \in Txs PROVE ControlOf(u)'
    BY DEF Control
  <2>1. /\ \A v \in Txs : status'[v] # "none"
              <=> status[v] # "none" \/ (v = t /\ req[t].kind = "sale")
        /\ req' = req
    BY <1>1, StatusAfterType DEF Commit
  <2>2. (pc[u] # "idle" /\ req[u].kind = "void") => req[u].target \in Txs
    BY RequestType DEF Control, ControlOf
  <2>3. CASE u = t
    BY <1>1, <2>1, <2>2, <2>3 DEF Commit, Forget, TypeOK, Control, ControlOf, Terminal
  <2>4. CASE u # t
    BY <1>1, <2>1, <2>2, <2>4, SMTT(40) DEF Commit, Forget, TypeOK, Control, ControlOf
  <2> QED BY <2>3, <2>4
<1> QED BY <1>2, <1>3

LEMMA EditProductTyping ==
  ASSUME TypeOK, Control, NEW p \in Products, EditProduct(p)
  PROVE  TypeOK' /\ Control'
<1>1. TypeOK'
  BY DEF EditProduct, TypeOK, books, locks, locals
<1>2. Control'
  BY DEF EditProduct, Control, ControlOf, books, locals
<1> QED BY <1>1, <1>2

(* Only a running transaction is rolled back by the deadlock detector.     *)
LEMMA DeadlockedRuns ==
  ASSUME NEW t, DeadlockAbort(t)
  PROVE  pc[t] \in Steps /\ Rollback(t)
<1>1. Rollback(t) /\ Blockers(t) # {}
  BY DEF DeadlockAbort, DeadlockedSet
<1>2. pc[t] \notin {"sale", "expense", "inventory", "product", "insert"} => Blockers(t) = {}
  BY DEF Blockers
<1> QED BY <1>1, <1>2 DEF Steps

LEMMA StepTyping == TypeOK /\ Control /\ [Next]_vars => TypeOK' /\ Control'
<1> SUFFICES ASSUME TypeOK, Control, [Next]_vars PROVE TypeOK' /\ Control'
  OBVIOUS
<1>1. ASSUME NEW t \in Txs, Begin(t) PROVE TypeOK' /\ Control'
  BY <1>1, BeginTyping
<1>2. ASSUME NEW t \in Txs, LockSale(t) PROVE TypeOK' /\ Control'
  BY <1>2, LockSaleTyping
<1>3. ASSUME NEW t \in Txs, InsertExpense(t) PROVE TypeOK' /\ Control'
  BY <1>3, InsertExpenseTyping
<1>4. ASSUME NEW t \in Txs, LockInventory(t) PROVE TypeOK' /\ Control'
  BY <1>4, LockInventoryTyping
<1>5. ASSUME NEW t \in Txs, LockProduct(t) PROVE TypeOK' /\ Control'
  BY <1>5, LockProductTyping
<1>6. ASSUME NEW t \in Txs, InsertSale(t) PROVE TypeOK' /\ Control'
  BY <1>6, InsertSaleTyping
<1>7. ASSUME NEW t \in Txs, Commit(t) PROVE TypeOK' /\ Control'
  BY <1>7, CommitTyping
<1>8. ASSUME NEW t \in Txs, Fail(t) \/ DeadlockAbort(t) PROVE TypeOK' /\ Control'
  BY <1>8, RollbackTyping, DeadlockedRuns DEF Fail, Active
<1>9. ASSUME NEW p \in Products, EditProduct(p) PROVE TypeOK' /\ Control'
  BY <1>9, EditProductTyping
<1>10. CASE UNCHANGED vars
  <2>1. TypeOK'
    BY <1>10 DEF vars, books, catalog, locks, locals, TypeOK
  <2>2. Control'
    BY <1>10 DEF vars, books, catalog, locks, locals, Control, ControlOf
  <2> QED BY <2>1, <2>2
<1> QED BY <1>1, <1>2, <1>3, <1>4, <1>5, <1>6, <1>7, <1>8, <1>9, <1>10 DEF Next, Proceed

(* Every reachable state is well typed, and every program counter stands   *)
(* where its request may be.                                               *)
THEOREM Typing == Spec => [](TypeOK /\ Control)
<1>1. Init => TypeOK /\ Control
  BY InitTyping
<1>2. TypeOK /\ Control /\ [Next]_vars => TypeOK' /\ Control'
  BY StepTyping
<1> QED BY <1>1, <1>2, PTL DEF Spec

-----------------------------------------------------------------------------
(* The line a sale or a validation has read but not judged yet.            *)
Unjudged(t, p) == pc[t] = "product" /\ p = Head(path[t])

(* A line that a transaction has read: its row lock is held, so what was   *)
(* read still stands; an accepted line of a cart still passes the checks,  *)
(* its product locked and active; a restock leaves no negative quantity.   *)
LineStands(t, p) ==
  /\ invLock[p] = t /\ before[t][p] = stock[p]
  /\ (req[t].kind \in {"sale", "validate"} /\ ~Unjudged(t, p))
       => Accepted(t, p) /\ prodLock[p] = t /\ active[p]
  /\ req[t].kind \in {"adjust", "purchase"} => before[t][p] + Units(t)[p] >= 0
LinesStand == \A t \in Txs : \A p \in held[t] : LineStands(t, p)

(* What leaves a transaction's line as it is.                              *)
Untouched(t, p) ==
  /\ UNCHANGED <<req[t], before[t][p], quote[t][p], stock[p]>>
  /\ Unjudged(t, p) => Unjudged(t, p)'
  /\ invLock[p] = t => invLock'[p] = t
  /\ prodLock[p] = t => prodLock'[p] = t /\ UNCHANGED <<price[p], active[p]>>

LEMMA LineFrame ==
  ASSUME NEW t \in Txs, NEW p \in Products, LineStands(t, p), Untouched(t, p)
  PROVE  LineStands(t, p)'
<1>1. invLock'[p] = t /\ before'[t][p] = stock'[p]
  BY DEF LineStands, Untouched
<1>2. req[t].kind # "void" => Units(t)' = Units(t)
  BY DEF Units, Untouched
<1>3. ASSUME req[t].kind \in {"sale", "validate"}, ~Unjudged(t, p)'
      PROVE  Accepted(t, p)' /\ prodLock'[p] = t /\ active'[p]
  <2>1. Accepted(t, p) /\ prodLock[p] = t /\ active[p]
    BY <1>3 DEF LineStands, Untouched
  <2>2. UNCHANGED <<price[p], active[p], before[t][p], quote[t][p]>> /\ prodLock'[p] = t
    BY <2>1 DEF Untouched
  <2>3. Units(t)' = Units(t)
    BY <1>2, <1>3
  <2> QED BY <2>1, <2>2, <2>3 DEF Accepted
<1>4. req[t].kind \in {"adjust", "purchase"} => before'[t][p] + Units(t)'[p] >= 0
  BY <1>2 DEF LineStands, Untouched
<1> QED BY <1>1, <1>3, <1>4 DEF LineStands, Untouched

LEMMA RollbackLines ==
  ASSUME TypeOK, LinesStand, NEW t \in Txs, Rollback(t)
  PROVE  LinesStand'
<1> SUFFICES ASSUME NEW u \in Txs, NEW p \in held'[u] PROVE LineStands(u, p)'
  BY DEF LinesStand
<1>1. u # t /\ p \in held[u] /\ p \in Products
  BY DEF Rollback, Forget, TypeOK
<1>2. Untouched(u, p)
  BY <1>1 DEF Untouched, Unjudged, Rollback, Release, Forget, TypeOK, books, catalog
<1> QED BY <1>1, <1>2, LineFrame DEF LinesStand

LEMMA BeginLines ==
  ASSUME TypeOK, Control, LinesStand, NEW t \in Txs, Begin(t)
  PROVE  LinesStand'
<1> SUFFICES ASSUME NEW u \in Txs, NEW p \in held'[u] PROVE LineStands(u, p)'
  BY DEF LinesStand
<1>1. held' = held /\ held[t] = {}
  BY DEF Begin, Control, ControlOf
<1>2. u # t /\ p \in held[u] /\ p \in Products
  BY <1>1 DEF TypeOK
<1>3. Untouched(u, p)
  BY <1>2 DEF Untouched, Unjudged, Begin, TypeOK, books, catalog, locks
<1> QED BY <1>2, <1>3, LineFrame DEF LinesStand

LEMMA LockSaleLines ==
  ASSUME TypeOK, Control, LinesStand, NEW t \in Txs, LockSale(t)
  PROVE  LinesStand'
<1>1. CASE Rollback(t)
  BY <1>1, RollbackLines
<1>2. CASE ~Rollback(t)
  <2> SUFFICES ASSUME NEW u \in Txs, NEW p \in held'[u] PROVE LineStands(u, p)'
    BY DEF LinesStand
  <2>1. pc[t] = "sale" /\ held' = held
    BY <1>2 DEF LockSale
  <2>2. p \in held[u] /\ p \in Products
    BY <2>1 DEF TypeOK
  <2>3. /\ \A v \in Txs : v # t => pc'[v] = pc[v] /\ path'[v] = path[v]
        /\ UNCHANGED <<books, catalog, invLock, prodLock, req, before, quote>>
    BY <1>2 DEF LockSale, TypeOK
  <2>4. Untouched(u, p)
    BY <2>1, <2>3 DEF Untouched, Unjudged, books, catalog
  <2> QED BY <2>2, <2>4, LineFrame DEF LinesStand
<1> QED BY <1>1, <1>2

LEMMA InsertExpenseLines ==
  ASSUME TypeOK, LinesStand, NEW t \in Txs, InsertExpense(t)
  PROVE  LinesStand'
<1> SUFFICES ASSUME NEW u \in Txs, NEW p \in held'[u] PROVE LineStands(u, p)'
  BY DEF LinesStand
<1>1. p \in held[u] /\ p \in Products
  BY DEF InsertExpense, TypeOK, locals
<1>2. Untouched(u, p)
  BY DEF Untouched, Unjudged, InsertExpense, TypeOK, books, catalog, locals
<1> QED BY <1>1, <1>2, LineFrame DEF LinesStand

LEMMA LockInventoryLines ==
  ASSUME TypeOK, Control, LinesStand, NEW t \in Txs, LockInventory(t)
  PROVE  LinesStand'
<1> DEFINE q == Head(path[t])
           k == req[t].kind
<1>1. CASE Rollback(t)
  BY <1>1, RollbackLines
<1>2. CASE ~Rollback(t)
  <2> SUFFICES ASSUME NEW u \in Txs, NEW p \in held'[u] PROVE LineStands(u, p)'
    BY DEF LinesStand
  <2>1. /\ pc[t] = "inventory" /\ invLock[q] \in {NoTx, t}
        /\ k \in {"adjust", "purchase"} => stock[q] + Units(t)[q] >= 0
        /\ invLock' = [invLock EXCEPT ![q] = t]
        /\ before' = [before EXCEPT ![t][q] = stock[q]]
        /\ held' = [held EXCEPT ![t] = @ \cup {q}]
        /\ k \in {"sale", "validate"} => /\ pc' = [pc EXCEPT ![t] = "product"]
                                        /\ UNCHANGED path
        /\ \A v \in Txs : v # t => pc'[v] = pc[v] /\ path'[v] = path[v]
        /\ UNCHANGED <<books, catalog, prodLock, req, quote>>
    BY <1>2, SMTT(40) DEF LockInventory, InventoryFree, TypeOK
  <2>2. path[t] \in Seq(Products) /\ path[t] # <<>> /\ q \in Products
    BY <2>1 DEF TypeOK, Control, ControlOf
  <2>3. CASE u = t /\ p = q
    <3>1. invLock'[p] = t /\ before'[t][p] = stock'[p] /\ stock'[p] = stock[p]
      BY <2>1, <2>2, <2>3 DEF TypeOK, books
    <3>2. k \in {"sale", "validate"} => Unjudged(t, p)'
      BY <2>1, <2>3 DEF Unjudged, TypeOK
    <3>3. k \in {"adjust", "purchase"} => before'[t][p] + Units(t)'[p] >= 0
      BY <2>1, <2>3, <3>1 DEF Units
    <3> QED BY <2>1, <2>3, <3>1, <3>2, <3>3 DEF LineStands
  <2>4. CASE ~(u = t /\ p = q)
    <3>1. p \in held[u] /\ p \in Products
      BY <2>1, <2>4 DEF TypeOK
    <3>2. LineStands(u, p)
      BY <3>1 DEF LinesStand
    <3>3. p # q
      BY <2>1, <2>4, <3>2, ConstantsAssumption DEF LineStands
    <3>4. Untouched(u, p)
      <4>1. UNCHANGED <<req[u], before[u][p], quote[u][p], stock[p]>>
        BY <2>1, <3>3 DEF TypeOK, books
      <4>2. Unjudged(u, p) => Unjudged(u, p)'
        BY <2>1 DEF Unjudged
      <4> QED BY <2>1, <3>1, <3>3, <4>1, <4>2 DEF Untouched, TypeOK, catalog
    <3> QED BY <3>1, <3>2, <3>4, LineFrame
  <2> QED BY <2>3, <2>4
<1> QED BY <1>1, <1>2

LEMMA LockProductLines ==
  ASSUME TypeOK, Control, LinesStand, NEW t \in Txs, LockProduct(t)
  PROVE  LinesStand'
<1> DEFINE q == Head(path[t])
<1>1. CASE Rollback(t)
  BY <1>1, RollbackLines
<1>2. CASE ~Rollback(t)
  <2> SUFFICES ASSUME NEW u \in Txs, NEW p \in held'[u] PROVE LineStands(u, p)'
    BY DEF LinesStand
  <2>1. /\ pc[t] = "product" /\ active[q] /\ prodLock[q] \in {NoTx, t} /\ Accepted(t, q)
        /\ prodLock' = [prodLock EXCEPT ![q] = t]
        /\ pc'[t] # "product"
        /\ \A v \in Txs : v # t => pc'[v] = pc[v] /\ path'[v] = path[v]
        /\ UNCHANGED <<books, catalog, invLock, req, held, before, quote>>
    <3>1. /\ pc[t] = "product" /\ active[q] /\ ProductFree(t, q) /\ Accepted(t, q)
          /\ KeepProduct(t, q)
          /\ path' = [path EXCEPT ![t] = Tail(@)]
          /\ pc' = [pc EXCEPT ![t] = IF Len(path[t]) = 1 THEN "insert" ELSE "inventory"]
          /\ UNCHANGED <<books, catalog, invLock, req, held, before, quote>>
      BY <1>2 DEF LockProduct
    <3>2. pc'[t] # "product" /\ \A v \in Txs : v # t => pc'[v] = pc[v] /\ path'[v] = path[v]
      BY <3>1 DEF TypeOK
    <3> QED BY <3>1, <3>2 DEF ProductFree, KeepProduct
  <2>2. p \in held[u] /\ p \in Products /\ LineStands(u, p)
    BY <2>1 DEF LinesStand, TypeOK
  <2>3. /\ req[t].kind \in {"sale", "validate"}
        /\ path[t] \in Seq(Products) /\ path[t] # <<>> /\ q \in Products
    BY <2>1 DEF TypeOK, Control, ControlOf
  <2>4. CASE u = t
    <3>1. Accepted(t, p) /\ active[p] /\ prodLock'[p] = t
      BY <2>1, <2>2, <2>3, <2>4 DEF LineStands, Unjudged, TypeOK
    <3>2. Accepted(t, p)'
      BY <2>1, <2>3, <3>1 DEF Accepted, Units, catalog
    <3> QED BY <2>1, <2>2, <2>3, <2>4, <3>1, <3>2 DEF LineStands, books, catalog
  <2>5. CASE u # t
    <3>1. Untouched(u, p)
      BY <2>1, <2>2, <2>3, <2>5, ConstantsAssumption
         DEF Untouched, Unjudged, TypeOK, books, catalog
    <3> QED BY <2>2, <3>1, LineFrame
  <2> QED BY <2>4, <2>5
<1> QED BY <1>1, <1>2

LEMMA InsertSaleLines ==
  ASSUME TypeOK, LinesStand, NEW t \in Txs, InsertSale(t)
  PROVE  LinesStand'
<1>1. CASE Rollback(t)
  BY <1>1, RollbackLines
<1>2. CASE ~Rollback(t)
  <2> SUFFICES ASSUME NEW u \in Txs, NEW p \in held'[u] PROVE LineStands(u, p)'
    BY DEF LinesStand
  <2>1. /\ pc[t] = "insert" /\ pc' = [pc EXCEPT ![t] = "commit"]
        /\ UNCHANGED <<books, catalog, locks, req, locals>>
    BY <1>2 DEF InsertSale
  <2>2. p \in held[u] /\ p \in Products
    BY <2>1 DEF TypeOK, locals
  <2>3. Untouched(u, p)
    BY <2>1 DEF Untouched, Unjudged, TypeOK, books, catalog, locks, locals
  <2> QED BY <2>2, <2>3, LineFrame DEF LinesStand
<1> QED BY <1>1, <1>2

LEMMA CommitLines ==
  ASSUME TypeOK, LinesStand, NEW t \in Txs, Commit(t)
  PROVE  LinesStand'
<1> SUFFICES ASSUME NEW u \in Txs, NEW p \in held'[u] PROVE LineStands(u, p)'
  BY DEF LinesStand
<1>1. u # t /\ p \in held[u] /\ p \in Products
  BY DEF Commit, Forget, TypeOK
<1>2. p \notin held[t]
  BY <1>1 DEF LinesStand, LineStands
<1>3. stock'[p] = stock[p]
  BY <1>1, <1>2 DEF Commit
<1>4. Untouched(u, p)
  BY <1>1, <1>3 DEF Untouched, Unjudged, Commit, Release, Forget, TypeOK, catalog
<1> QED BY <1>1, <1>4, LineFrame DEF LinesStand

LEMMA EditProductLines ==
  ASSUME TypeOK, LinesStand, NEW q \in Products, EditProduct(q)
  PROVE  LinesStand'
<1> SUFFICES ASSUME NEW u \in Txs, NEW p \in held'[u] PROVE LineStands(u, p)'
  BY DEF LinesStand
<1>1. p \in held[u] /\ p \in Products
  BY DEF EditProduct, TypeOK, locals
<1>2. prodLock[p] = u => price'[p] = price[p] /\ active'[p] = active[p]
  BY <1>1, ConstantsAssumption DEF EditProduct, TypeOK
<1>3. Untouched(u, p)
  BY <1>2 DEF Untouched, Unjudged, EditProduct, books, locks, locals
<1> QED BY <1>1, <1>3, LineFrame DEF LinesStand

LEMMA StepLines == TypeOK /\ Control /\ LinesStand /\ [Next]_vars => LinesStand'
<1> SUFFICES ASSUME TypeOK, Control, LinesStand, [Next]_vars PROVE LinesStand'
  OBVIOUS
<1>1. ASSUME NEW t \in Txs, Proceed(t) PROVE LinesStand'
  BY <1>1, LockSaleLines, InsertExpenseLines, LockInventoryLines, LockProductLines,
     InsertSaleLines, CommitLines DEF Proceed
<1>2. ASSUME NEW t \in Txs, Begin(t) PROVE LinesStand'
  BY <1>2, BeginLines
<1>3. ASSUME NEW t \in Txs, Fail(t) \/ DeadlockAbort(t) PROVE LinesStand'
  BY <1>3, RollbackLines DEF Fail, DeadlockAbort
<1>4. ASSUME NEW p \in Products, EditProduct(p) PROVE LinesStand'
  BY <1>4, EditProductLines
<1>5. CASE UNCHANGED vars
  BY <1>5 DEF vars, books, catalog, locks, locals, LinesStand, LineStands, Unjudged,
              Accepted, Units
<1> QED BY <1>1, <1>2, <1>3, <1>4, <1>5 DEF Next

-----------------------------------------------------------------------------
(* What a transaction is about to write is not negative.                   *)
LEMMA WritesNonNegative ==
  ASSUME TypeOK, Control, LinesStand, StockNonNegative,
         NEW t \in Txs, pc[t] = "commit", NEW p \in held[t]
  PROVE  NewQuantity(t, p) >= 0
<1>1. p \in Products /\ LineStands(t, p) /\ stock[p] \in Int /\ stock[p] >= 0
  BY DEF TypeOK, LinesStand, StockNonNegative
<1>2. /\ req[t].kind \in Kinds \ {"validate"} /\ Units(t)[p] \in Int
      /\ req[t].kind \in {"count", "void"} => Units(t)[p] >= 0
  BY <1>1, UnitsType, RequestType DEF Control, ControlOf
<1>3. before[t][p] = stock[p]
  BY <1>1 DEF LineStands
<1>4. CASE req[t].kind = "sale"
  BY <1>1, <1>2, <1>3, <1>4 DEF LineStands, Unjudged, Accepted, NewQuantity
<1>5. CASE req[t].kind \in {"count", "void"}
  BY <1>1, <1>2, <1>3, <1>5 DEF NewQuantity
<1>6. CASE req[t].kind \in {"adjust", "purchase"}
  BY <1>1, <1>2, <1>3, <1>6 DEF LineStands, NewQuantity
<1> QED BY <1>2, <1>4, <1>5, <1>6 DEF Kinds

(* Only a commit writes quantities, ledger rows and sales.                 *)
LEMMA OnlyCommitWrites ==
  ASSUME [Next]_vars, \A t \in Txs : ~Commit(t)
  PROVE  UNCHANGED books
<1>1. ASSUME NEW t \in Txs, Proceed(t) PROVE UNCHANGED books
  BY <1>1 DEF Proceed, LockSale, InsertExpense, LockInventory, LockProduct, InsertSale,
              Rollback
<1>2. ASSUME NEW t \in Txs, Begin(t) \/ Fail(t) \/ DeadlockAbort(t) PROVE UNCHANGED books
  BY <1>2 DEF Begin, Fail, DeadlockAbort, Rollback
<1>3. ASSUME NEW p \in Products, EditProduct(p) PROVE UNCHANGED books
  BY <1>3 DEF EditProduct
<1>4. CASE UNCHANGED vars
  BY <1>4 DEF vars
<1> QED BY <1>1, <1>2, <1>3, <1>4 DEF Next

LEMMA StepStock ==
  TypeOK /\ Control /\ LinesStand /\ StockNonNegative /\ [Next]_vars => StockNonNegative'
<1> SUFFICES ASSUME TypeOK, Control, LinesStand, StockNonNegative, [Next]_vars
             PROVE  StockNonNegative'
  OBVIOUS
<1>1. ASSUME NEW t \in Txs, Commit(t) PROVE StockNonNegative'
  BY <1>1, WritesNonNegative DEF Commit, StockNonNegative, TypeOK
<1>2. CASE \A t \in Txs : ~Commit(t)
  BY <1>2, OnlyCommitWrites DEF books, StockNonNegative
<1> QED BY <1>1, <1>2

LEMMA StepLedger ==
  TypeOK /\ Control /\ LinesStand /\ LedgerChain /\ [Next]_vars => LedgerChain'
<1> SUFFICES ASSUME TypeOK, Control, LinesStand, LedgerChain, [Next]_vars
             PROVE  LedgerChain'
  OBVIOUS
<1>1. ASSUME NEW t \in Txs, Commit(t) PROVE LedgerChain'
  <2> DEFINE Row == [before: Int, change: Int, after: Int]
             Chain(rows, quantity, p) ==
               /\ \A k \in 1..Len(rows) :
                    /\ rows[k].after = rows[k].before + rows[k].change
                    /\ rows[k].before = IF k = 1 THEN Opening[p] ELSE rows[k-1].after
               /\ quantity = IF rows = <<>> THEN Opening[p] ELSE rows[Len(rows)].after
  <2>1. SUFFICES ASSUME NEW p \in Products PROVE Chain(ledger'[p], stock'[p], p)
    BY DEF LedgerChain
  <2>2. Chain(ledger[p], stock[p], p) /\ ledger[p] \in Seq(Row)
    BY DEF LedgerChain, TypeOK
  <2>3. CASE p \notin held[t]
    BY <1>1, <2>2, <2>3 DEF Commit
  <2>4. CASE p \in held[t]
    <3> DEFINE rows == ledger[p]
               row == LedgerRow(t, p)
               n == Len(rows)
    <3>1. /\ row \in Row /\ row.before = stock[p] /\ row.after = NewQuantity(t, p)
          /\ row.after = row.before + row.change
      BY <1>1, <2>4, NewQuantityType, SMTT(40) DEF Commit, LinesStand, LineStands
    <3>2. ledger'[p] = Append(rows, row) /\ stock'[p] = row.after
      BY <1>1, <2>4, <3>1 DEF Commit
    <3>3. /\ n \in Nat /\ Append(rows, row) # <<>> /\ Len(Append(rows, row)) = n + 1
          /\ \A k \in 1..n : Append(rows, row)[k] = rows[k]
          /\ Append(rows, row)[n + 1] = row
          /\ rows = <<>> <=> n = 0
      <4> HIDE DEF Row, row
      <4> QED BY <2>2, <3>1, AppendProperties, LenProperties, EmptySeq
    <3>4. ASSUME NEW k \in 1..(n + 1)
          PROVE  /\ Append(rows, row)[k].after = Append(rows, row)[k].before + Append(rows, row)[k].change
                 /\ Append(rows, row)[k].before =
                      IF k = 1 THEN Opening[p] ELSE Append(rows, row)[k-1].after
      <4>1. CASE k = n + 1
        <5>1. n # 0 => rows[n].after = stock[p]
          BY <2>2, <3>3
        <5>2. n = 0 => stock[p] = Opening[p]
          BY <2>2, <3>3
        <5>3. n # 0 => Append(rows, row)[n] = rows[n]
          BY <3>3
        <5> HIDE DEF row, rows
        <5> QED BY <3>1, <3>3, <4>1, <5>1, <5>2, <5>3
      <4>2. CASE k # n + 1
        <5>1. k \in 1..n /\ (k # 1 => k - 1 \in 1..n)
          BY <3>3, <4>2
        <5> HIDE DEF row
        <5> QED BY <2>2, <3>3, <5>1
      <4> QED BY <4>1, <4>2
    <3> HIDE DEF row
    <3> QED BY <3>2, <3>3, <3>4
  <2> QED BY <2>3, <2>4
<1>2. CASE \A t \in Txs : ~Commit(t)
  BY <1>2, OnlyCommitWrites DEF books, LedgerChain
<1> QED BY <1>1, <1>2

(* Whatever checkouts, voids, adjustments, counts and purchases interleave *)
(* at the row locks: no quantity goes below zero and no stock update is    *)
(* lost, for any number of clients.                                        *)
THEOREM StockSafety == Spec => [](StockNonNegative /\ LedgerChain)
<1>1. Init => LinesStand /\ StockNonNegative /\ LedgerChain
  <2> SUFFICES ASSUME Init PROVE LinesStand /\ StockNonNegative /\ LedgerChain
    OBVIOUS
  <2>1. LinesStand
    BY DEF Init, LinesStand
  <2>2. StockNonNegative
    BY ConstantsAssumption DEF Init, StockNonNegative
  <2>3. LedgerChain
    BY ConstantsAssumption, EmptySeq DEF Init, LedgerChain
  <2> QED BY <2>1, <2>2, <2>3
<1> QED BY <1>1, Typing, StepLines, StepStock, StepLedger, PTL DEF Spec

(* No overlap of sales, adjustments, counts, purchases and voids sells a   *)
(* unit that is not there.                                                 *)
THEOREM NoOversell == Spec => []StockNonNegative
  BY StockSafety, PTL

(* The lines of a sale that were accepted stay on the terms they were      *)
(* accepted on until it commits.                                           *)
THEOREM SaleTerms == Spec => []SaleTermsStand
<1>1. Init => LinesStand
  BY DEF Init, LinesStand
<1>2. LinesStand => SaleTermsStand
  BY DEF LinesStand, LineStands, Unjudged, Accepted, SaleTermsStand
<1> QED BY <1>1, <1>2, Typing, StepLines, PTL DEF Spec

-----------------------------------------------------------------------------
(* The sales whose row is inserted but not committed.                      *)
Pending == {t \in Txs : pc[t] = "commit" /\ req[t].kind = "sale"}

(* Every number drawn is the next one or one already used, and no two      *)
(* inserted rows, committed or pending, share a number.                    *)
Draws ==
  /\ \A t \in Txs : (pc[t] \in Steps /\ req[t].kind = "sale")
       => draw[t] \in 1..(Cardinality(SaleRows) + 1)
  /\ \A t, u \in Pending : draw[t] = draw[u] => t = u
  /\ \A t \in Pending : \A s \in SaleRows : invoice[s] # draw[t]
InvoiceInv == DenseInvoices /\ Draws

(* A step that neither inserts nor commits a sale leaves numbers alone.    *)
LEMMA InvoiceFrame ==
  ASSUME InvoiceInv, UNCHANGED <<SaleRows, invoice>>,
         \A t \in Pending' : t \in Pending /\ draw'[t] = draw[t],
         \A t \in Txs : (pc'[t] \in Steps /\ req'[t].kind = "sale") =>
            \/ pc[t] \in Steps /\ req[t].kind = "sale" /\ draw'[t] = draw[t]
            \/ draw'[t] = NextInvoice
  PROVE  InvoiceInv'
<1> DEFINE n == Cardinality(SaleRows)
<1>1. n \in Nat /\ n' = n
  BY SaleRowsFinite
<1>2. DenseInvoices'
  BY DEF InvoiceInv, DenseInvoices
<1>3. ASSUME NEW t \in Txs, pc'[t] \in Steps, req'[t].kind = "sale"
      PROVE  draw'[t] \in 1..(n + 1)
  BY <1>1, <1>3 DEF InvoiceInv, Draws, NextInvoice
<1>4. /\ \A t, u \in Pending' : draw'[t] = draw'[u] => t = u
      /\ \A t \in Pending' : \A s \in SaleRows' : invoice'[s] # draw'[t]
  BY DEF InvoiceInv, Draws
<1> HIDE DEF n
<1>5. Draws'
  BY <1>1, <1>3, <1>4 DEF Draws, n
<1> QED BY <1>2, <1>5 DEF InvoiceInv

LEMMA InvoiceRollback ==
  ASSUME TypeOK, InvoiceInv, NEW t \in Txs, Rollback(t)
  PROVE  InvoiceInv'
<1>1. UNCHANGED <<SaleRows, invoice>>
  BY DEF Rollback, books, SaleRows
<1>2. pc'[t] \notin Steps /\ \A u \in Txs : u # t => pc'[u] = pc[u] /\ draw'[u] = draw[u]
  BY DEF Rollback, Forget, TypeOK, Steps
<1>3. req' = req
  BY DEF Rollback
<1>4. \A u \in Pending' : u \in Pending /\ draw'[u] = draw[u]
  BY <1>2, <1>3 DEF Pending, Steps
<1> QED BY <1>1, <1>2, <1>3, <1>4, InvoiceFrame

LEMMA InvoiceBegin ==
  ASSUME TypeOK, InvoiceInv, NEW t \in Txs, Begin(t)
  PROVE  InvoiceInv'
<1>1. PICK r \in Requests :
        /\ req' = [req EXCEPT ![t] = r]
        /\ pc' = [pc EXCEPT ![t] = FirstStep(r.kind)]
        /\ draw' = [draw EXCEPT ![t] = IF r.kind = "sale" THEN NextInvoice ELSE 0]
  BY DEF Begin
<1>2. UNCHANGED <<SaleRows, invoice>>
  BY DEF Begin, books, SaleRows
<1>3. pc'[t] # "commit"
  BY <1>1 DEF FirstStep, TypeOK
<1>4. \A u \in Txs : u # t => /\ pc'[u] = pc[u] /\ req'[u] = req[u]
                           /\ draw'[u] = draw[u]
  BY <1>1 DEF TypeOK
<1>5. \A u \in Pending' : u \in Pending /\ draw'[u] = draw[u]
  BY <1>3, <1>4 DEF Pending
<1>6. req'[t].kind = "sale" => draw'[t] = NextInvoice
  BY <1>1 DEF TypeOK
<1> QED BY <1>2, <1>4, <1>5, <1>6, InvoiceFrame

LEMMA InvoiceInsert ==
  ASSUME TypeOK, Control, InvoiceInv, NEW t \in Txs, InsertSale(t)
  PROVE  InvoiceInv'
<1>1. CASE Rollback(t)
  BY <1>1, InvoiceRollback
<1>2. CASE ~Rollback(t)
  <2>1. /\ pc[t] = "insert" /\ req[t].kind = "sale"
        /\ \A u \in Pending \ {t} : draw[u] # draw[t]
        /\ \A s \in SaleRows : invoice[s] # draw[t]
        /\ pc' = [pc EXCEPT ![t] = "commit"]
        /\ UNCHANGED <<books, req, draw>>
    BY <1>2 DEF InsertSale, SameInvoicePending, Pending, locals, Control, ControlOf
  <2>2. SaleRows' = SaleRows /\ invoice' = invoice /\ Pending' = Pending \cup {t}
    BY <2>1 DEF SaleRows, Pending, books, TypeOK
  <2>3. DenseInvoices'
    BY <2>2 DEF InvoiceInv, DenseInvoices
  <2>4. Draws'
    <3>1. \A u \in Txs : (pc'[u] \in Steps /\ req'[u].kind = "sale")
                          => draw'[u] \in 1..(Cardinality(SaleRows') + 1)
      BY <2>1, <2>2 DEF InvoiceInv, Draws, Steps, TypeOK
    <3>2. /\ \A u, v \in Pending' : draw'[u] = draw'[v] => u = v
          /\ \A u \in Pending' : \A s \in SaleRows' : invoice'[s] # draw'[u]
      BY <2>1, <2>2 DEF InvoiceInv, Draws
    <3> QED BY <3>1, <3>2 DEF Draws
  <2> QED BY <2>3, <2>4 DEF InvoiceInv
<1> QED BY <1>1, <1>2

LEMMA InvoiceCommit ==
  ASSUME TypeOK, Control, InvoiceInv, NEW t \in Txs, Commit(t)
  PROVE  InvoiceInv'
<1> DEFINE n == Cardinality(SaleRows)
<1>1. pc[t] = "commit" /\ status[t] = "none" /\ n \in Nat /\ IsFiniteSet(SaleRows)
  BY SaleRowsFinite DEF Commit, Control, ControlOf
<1>2. /\ pc' = [pc EXCEPT ![t] = "committed"] /\ req' = req
      /\ \A u \in Txs : u # t => draw'[u] = draw[u]
      /\ \A u \in Txs : status'[u] # "none"
                         <=> status[u] # "none" \/ (u = t /\ req[t].kind = "sale")
  BY <1>1, StatusAfterType DEF Commit, Forget, TypeOK
<1>3. \A u \in Pending' : u \in Pending \ {t} /\ draw'[u] = draw[u]
  BY <1>2 DEF Pending, TypeOK
<1>4. CASE req[t].kind # "sale"
  <2>1. SaleRows' = SaleRows /\ invoice' = invoice
    BY <1>2, <1>4 DEF SaleRows, Commit
  <2>2. \A u \in Txs : pc'[u] \in Steps => u # t /\ pc'[u] = pc[u]
    BY <1>2 DEF TypeOK, Steps
  <2> QED BY <1>2, <1>3, <2>1, <2>2, InvoiceFrame
<1>5. CASE req[t].kind = "sale"
  <2>1. SaleRows' = SaleRows \cup {t} /\ t \notin SaleRows /\ t \in Pending
    BY <1>1, <1>2, <1>5 DEF SaleRows, Pending
  <2>2. n' = n + 1
    BY <1>1, <2>1, FS_AddElement
  <2>3. draw[t] = n + 1
    <3>1. draw[t] \in 1..(n + 1) /\ \A s \in SaleRows : invoice[s] # draw[t]
      BY <1>1, <1>5, <2>1 DEF InvoiceInv, Draws, Steps
    <3>2. {invoice[s] : s \in SaleRows} = 1..n
      BY DEF InvoiceInv, DenseInvoices
    <3>3. draw[t] \notin 1..n
      BY <3>1, <3>2
    <3> HIDE DEF n
    <3> QED BY <1>1, <3>1, <3>3
  <2>4. invoice'[t] = n + 1 /\ \A s \in SaleRows : invoice'[s] = invoice[s]
    BY <1>5, <2>1, <2>3 DEF Commit, TypeOK, SaleRows
  <2>5. {invoice'[s] : s \in SaleRows'} = 1..(n + 1)
    <3>1. {invoice[s] : s \in SaleRows} = 1..n
      BY DEF InvoiceInv, DenseInvoices
    <3>2. {invoice'[s] : s \in SaleRows'} = 1..n \cup {n + 1}
      BY <2>1, <2>4, <3>1
    <3> HIDE DEF n
    <3> QED BY <1>1, <3>2
  <2>6. \A u, v \in SaleRows' : invoice'[u] = invoice'[v] => u = v
    <3>1. \A u \in SaleRows : invoice'[u] # n + 1
      BY <2>1, <2>3, <2>4 DEF InvoiceInv, Draws
    <3> QED BY <2>1, <2>4, <3>1 DEF InvoiceInv, DenseInvoices
  <2>7. DenseInvoices'
    BY <2>2, <2>5, <2>6 DEF DenseInvoices
  <2>8. Draws'
    <3>1. ASSUME NEW u \in Txs, pc'[u] \in Steps, req'[u].kind = "sale"
          PROVE  draw'[u] \in 1..(n' + 1)
      <4>1. u # t /\ pc[u] \in Steps /\ req[u].kind = "sale" /\ draw'[u] = draw[u]
        BY <1>2, <3>1 DEF TypeOK, Steps
      <4>2. draw[u] \in 1..(n + 1)
        BY <4>1 DEF InvoiceInv, Draws
      <4> HIDE DEF n
      <4> QED BY <1>1, <2>2, <4>1, <4>2
    <3>2. \A u, v \in Pending' : draw'[u] = draw'[v] => u = v
      BY <1>3 DEF InvoiceInv, Draws
    <3>3. ASSUME NEW u \in Pending', NEW s \in SaleRows' PROVE invoice'[s] # draw'[u]
      <4>1. u \in Pending /\ u # t /\ draw'[u] = draw[u]
        BY <1>3
      <4>2. draw[u] # draw[t]
        BY <2>1, <4>1 DEF InvoiceInv, Draws
      <4> QED BY <2>1, <2>3, <2>4, <4>1, <4>2 DEF InvoiceInv, Draws
    <3> QED BY <3>1, <3>2, <3>3 DEF Draws
  <2> QED BY <2>7, <2>8 DEF InvoiceInv
<1> QED BY <1>4, <1>5

LEMMA StepInvoice == TypeOK /\ Control /\ InvoiceInv /\ [Next]_vars => InvoiceInv'
<1> SUFFICES ASSUME TypeOK, Control, InvoiceInv, [Next]_vars PROVE InvoiceInv'
  OBVIOUS
<1>1. ASSUME NEW t \in Txs, LockSale(t) \/ InsertExpense(t) \/ LockInventory(t) \/ LockProduct(t)
      PROVE  InvoiceInv'
  <2>1. CASE Rollback(t)
    BY <2>1, InvoiceRollback
  <2>2. CASE ~Rollback(t)
    <3>1. UNCHANGED <<books, req, draw>> /\ \A u \in Txs : u # t => pc'[u] = pc[u]
      BY <1>1, <2>2 DEF LockSale, InsertExpense, LockInventory, LockProduct, locals, TypeOK
    <3>2. pc[t] \in Steps
      BY <1>1 DEF LockSale, InsertExpense, LockInventory, LockProduct, Steps
    <3>3. req[t].kind = "sale" => pc'[t] # "commit"
      BY <1>1, <2>2 DEF LockSale, InsertExpense, LockInventory, LockProduct, TypeOK, Control,
                        ControlOf
    <3>4. SaleRows' = SaleRows /\ invoice' = invoice
      BY <3>1 DEF books, SaleRows
    <3>5. \A u \in Pending' : u \in Pending /\ draw'[u] = draw[u]
      BY <3>1, <3>3 DEF Pending
    <3> QED BY <3>1, <3>2, <3>4, <3>5, InvoiceFrame
  <2> QED BY <2>1, <2>2
<1>2. ASSUME NEW t \in Txs, Fail(t) \/ DeadlockAbort(t) PROVE InvoiceInv'
  BY <1>2, InvoiceRollback DEF Fail, DeadlockAbort
<1>3. ASSUME NEW p \in Products, EditProduct(p) PROVE InvoiceInv'
  BY <1>3, InvoiceFrame DEF EditProduct, books, locals, SaleRows, Pending
<1>4. CASE UNCHANGED vars
  BY <1>4, InvoiceFrame DEF vars, books, locals, SaleRows, Pending
<1> QED BY <1>1, <1>2, <1>3, <1>4, InvoiceBegin, InvoiceInsert, InvoiceCommit DEF Next, Proceed

(* COUNT( * ) + 1 and the unique index number the day's sales without gap  *)
(* or repetition, for any number of tills.                                 *)
THEOREM Invoices == Spec => []DenseInvoices
<1>1. Init => InvoiceInv
  <2> SUFFICES ASSUME Init PROVE InvoiceInv
    OBVIOUS
  <2>1. SaleRows = {} /\ Pending = {} /\ \A t \in Txs : pc[t] \notin Steps
    BY DEF Init, SaleRows, Pending, Steps
  <2>2. Cardinality(SaleRows) = 0
    BY <2>1, FS_EmptySet
  <2>3. {invoice[t] : t \in SaleRows} = 1..0
    BY <2>1
  <2> QED BY <2>1, <2>2, <2>3 DEF InvoiceInv, DenseInvoices, Draws
<1>2. InvoiceInv => DenseInvoices
  BY DEF InvoiceInv
<1> QED BY <1>1, <1>2, Typing, StepInvoice, PTL DEF Spec

-----------------------------------------------------------------------------
(* Checkout.tla implements StockBook.tla: with the row locks of its        *)
(* transactions, quantities and sales change as if every transaction were  *)
(* one atomic step.                                                        *)

(* The lines a transaction works through.                                  *)
Cart(t) == IF req[t].kind = "void" THEN req[req[t].target].order ELSE req[t].order

(* Every line of the cart has been read or is still ahead, and a void past *)
(* its first statement owns a completed sale.                              *)
CartStands(t) ==
  /\ pc[t] = "sale" => held[t] = {}
  /\ pc[t] \in Steps \ {"sale"} => held[t] \cup Lines(path[t]) = Lines(Cart(t))
  /\ pc[t] = "product" => Head(path[t]) \in held[t]
  /\ pc[t] \in {"insert", "commit"} => path[t] = <<>>
  /\ (pc[t] \in Steps \ {"sale"} /\ req[t].kind = "void")
       => saleLock[req[t].target] = t /\ status[req[t].target] = "completed"
CartsStand == \A t \in Txs : CartStands(t)

LEMMA LinesSplit ==
  ASSUME NEW lines \in Seq(Products), lines # <<>>
  PROVE  /\ Head(lines) \in Lines(lines)
         /\ Lines(lines) = {Head(lines)} \cup Lines(Tail(lines))
         /\ Len(lines) = 1 => Tail(lines) = <<>>
<1> DEFINE n == Len(lines)
<1>1. n \in Nat \ {0} /\ DOMAIN lines = 1..n
  BY EmptySeq, LenProperties
<1>2. /\ Tail(lines) \in Seq(Products) /\ Len(Tail(lines)) = n - 1
      /\ \A i \in 1..(n - 1) : Tail(lines)[i] = lines[i + 1]
  BY HeadTailProperties
<1>3. DOMAIN Tail(lines) = 1..(n - 1)
  BY <1>2, LenProperties
<1>4. Head(lines) = lines[1]
  OBVIOUS
<1>5. Lines(lines) \subseteq {Head(lines)} \cup Lines(Tail(lines))
  <2> SUFFICES ASSUME NEW i \in 1..n, i # 1 PROVE lines[i] \in Lines(Tail(lines))
    BY <1>1, <1>4 DEF Lines
  <2>1. i - 1 \in 1..(n - 1) /\ Tail(lines)[i - 1] = lines[i]
    BY <1>1, <1>2
  <2> QED BY <1>3, <2>1 DEF Lines
<1>6. Lines(Tail(lines)) \subseteq Lines(lines)
  <2> SUFFICES ASSUME NEW i \in 1..(n - 1) PROVE Tail(lines)[i] \in Lines(lines)
    BY <1>3 DEF Lines
  <2>1. i + 1 \in 1..n
    BY <1>1
  <2> QED BY <1>1, <1>2, <2>1 DEF Lines
<1>7. Head(lines) \in Lines(lines)
  BY <1>1, <1>4 DEF Lines
<1>8. n = 1 => Tail(lines) = <<>>
  <2>1. Tail(lines) # <<>> => Len(Tail(lines)) # 0
    BY <1>2, EmptySeq
  <2> HIDE DEF n
  <2> QED BY <1>2, <2>1
<1> QED BY <1>5, <1>6, <1>7, <1>8

LEMMA OrdersLines ==
  ASSUME NEW lines \in Seq(Products), NEW order \in Orders(lines)
  PROVE  Lines(order) = Lines(lines)
<1>1. PICK f \in [DOMAIN lines -> DOMAIN lines] :
        Lines(f) = DOMAIN lines /\ order = [k \in DOMAIN lines |-> lines[f[k]]]
  BY DEF Orders
<1>2. Lines(order) = {lines[f[k]] : k \in DOMAIN lines}
  BY <1>1 DEF Lines
<1>3. DOMAIN lines = {f[k] : k \in DOMAIN lines}
  BY <1>1 DEF Lines
<1> QED BY <1>2, <1>3 DEF Lines

(* What leaves a transaction's cart as it is.                              *)
CartUntouched(t) ==
  /\ UNCHANGED <<pc[t], req[t], path[t], held[t], Cart(t)>>
  /\ \A s \in Txs : saleLock[s] = t => UNCHANGED <<saleLock[s], status[s]>>

LEMMA CartFrame ==
  ASSUME Control, NEW t \in Txs, CartStands(t), CartUntouched(t)
  PROVE  CartStands(t)'
<1>1. (pc[t] # "idle" /\ req[t].kind = "void") => req[t].target \in Txs
  BY RequestType DEF Control, ControlOf
<1> QED BY <1>1 DEF CartStands, CartUntouched, Steps

(* The request behind a sale that may be voided no longer changes.         *)
LEMMA CartFixed ==
  ASSUME Control, NEW t \in Txs, pc[t] # "idle", req'[t] = req[t],
         \A s \in Txs : pc[s] # "idle" => req'[s] = req[s]
  PROVE  Cart(t)' = Cart(t)
<1>1. CASE req[t].kind = "void"
  <2>1. req[t].target \in Txs /\ pc[req[t].target] = "committed"
    BY <1>1, RequestType DEF Control, ControlOf
  <2> QED BY <1>1, <2>1 DEF Cart
<1>2. CASE req[t].kind # "void"
  BY <1>2 DEF Cart
<1> QED BY <1>1, <1>2

LEMMA IdleCarts ==
  ASSUME NEW t \in Txs, pc'[t] \notin Steps
  PROVE  CartStands(t)'
BY DEF CartStands, Steps

LEMMA RollbackCarts ==
  ASSUME TypeOK, Control, CartsStand, NEW t \in Txs, Rollback(t)
  PROVE  CartsStand'
<1> SUFFICES ASSUME NEW u \in Txs PROVE CartStands(u)'
  BY DEF CartsStand
<1>1. CASE pc'[u] \notin Steps
  BY <1>1, IdleCarts
<1>2. CASE pc'[u] \in Steps
  <2>1. u # t /\ pc[u] # "idle" /\ req' = req
    BY <1>2 DEF Rollback, TypeOK, Steps
  <2>2. Cart(u)' = Cart(u)
    BY <2>1, CartFixed
  <2>3. CartUntouched(u)
    BY <2>1, <2>2 DEF CartUntouched, Rollback, Release, Forget, TypeOK, books
  <2> QED BY <2>3, CartFrame DEF CartsStand
<1> QED BY <1>1, <1>2

LEMMA BeginCarts ==
  ASSUME TypeOK, Control, CartsStand, NEW t \in Txs, Begin(t)
  PROVE  CartsStand'
<1> SUFFICES ASSUME NEW u \in Txs PROVE CartStands(u)'
  BY DEF CartsStand
<1>1. PICK r \in Requests :
        /\ req' = [req EXCEPT ![t] = r]
        /\ path' = [path EXCEPT ![t] = r.order]
        /\ pc' = [pc EXCEPT ![t] = FirstStep(r.kind)]
  BY DEF Begin
<1>2. pc[t] = "idle" /\ UNCHANGED <<books, catalog, locks, held, before>>
  BY DEF Begin
<1>3. CASE u = t
  <2>1. pc'[t] = FirstStep(r.kind) /\ req'[t] = r /\ path'[t] = r.order /\ held'[t] = {}
    BY <1>1, <1>2 DEF TypeOK, Control, ControlOf
  <2>2. r.kind # "void" => Cart(t)' = r.order
    BY <2>1 DEF Cart
  <2>3. FirstStep(r.kind) \in {"expense", "inventory"} <=> r.kind # "void"
    BY DEF FirstStep
  <2>4. FirstStep(r.kind) \in {"sale", "expense", "inventory"}
    BY DEF FirstStep
  <2> QED BY <1>3, <2>1, <2>2, <2>3, <2>4 DEF CartStands, Steps
<1>4. CASE u # t
  <2>1. CASE pc'[u] \notin Steps
    BY <2>1, IdleCarts
  <2>2. CASE pc'[u] \in Steps
    <3>1. pc'[u] = pc[u] /\ pc[u] # "idle" /\ \A s \in Txs : pc[s] # "idle" => req'[s] = req[s]
      BY <1>1, <1>2, <1>4, <2>2 DEF TypeOK, Steps
    <3>2. Cart(u)' = Cart(u)
      BY <3>1, CartFixed
    <3>3. CartUntouched(u)
      BY <1>1, <1>2, <1>4, <3>1, <3>2 DEF CartUntouched, TypeOK, books, locks
    <3> QED BY <3>3, CartFrame DEF CartsStand
  <2> QED BY <2>1, <2>2
<1> QED BY <1>3, <1>4

(* A step of t alone leaves the carts of all others.                       *)
LEMMA OtherCarts ==
  ASSUME TypeOK, Control, CartsStand, NEW t \in Txs, NEW u \in Txs, u # t,
         UNCHANGED <<req, status>>,
         pc'[u] = pc[u], path'[u] = path[u], held'[u] = held[u],
         \A s \in Txs : saleLock[s] = u => saleLock'[s] = u
  PROVE  CartStands(u)'
<1>1. CASE pc[u] \notin Steps
  BY <1>1, IdleCarts
<1>2. CASE pc[u] \in Steps
  <2>1. Cart(u)' = Cart(u)
    BY <1>2, CartFixed DEF Steps
  <2>2. CartUntouched(u)
    BY <2>1 DEF CartUntouched
  <2> QED BY <2>2, CartFrame DEF CartsStand
<1> QED BY <1>1, <1>2

LEMMA LockSaleCarts ==
  ASSUME TypeOK, Control, CartsStand, NEW t \in Txs, LockSale(t)
  PROVE  CartsStand'
<1> DEFINE s == req[t].target
<1>1. CASE Rollback(t)
  BY <1>1, RollbackCarts
<1>2. CASE ~Rollback(t)
  <2>1. /\ pc[t] = "sale" /\ saleLock[s] = NoTx /\ status[s] = "completed"
        /\ saleLock' = [saleLock EXCEPT ![s] = t]
        /\ \E order \in Orders(req[s].order) : path' = [path EXCEPT ![t] = order]
        /\ pc' = [pc EXCEPT ![t] = "inventory"]
        /\ UNCHANGED <<books, req, held>>
    BY <1>2 DEF LockSale, Voidable
  <2>2. req[t].kind = "void" /\ s \in Txs /\ req[s] \in Requests
    BY <2>1, RequestType DEF Control, ControlOf
  <2> SUFFICES ASSUME NEW u \in Txs PROVE CartStands(u)'
    BY DEF CartsStand
  <2>3. CASE u = t
    <3>1. PICK order \in Orders(req[s].order) : path' = [path EXCEPT ![t] = order]
      BY <2>1
    <3>2. Lines(order) = Lines(req[s].order)
      BY <2>2, RequestType, OrdersLines
    <3>3. held'[t] = {} /\ path'[t] = order /\ Cart(t)' = req[s].order
      BY <2>1, <2>2, <3>1 DEF CartsStand, CartStands, Cart, TypeOK
    <3>4. pc'[t] = "inventory" /\ saleLock'[s] = t /\ status'[s] = "completed" /\ req'[t] = req[t]
      BY <2>1, <2>2 DEF TypeOK, books
    <3> QED BY <2>3, <3>2, <3>3, <3>4 DEF CartStands
  <2>4. CASE u # t
    <3>1. \A v \in Txs : saleLock[v] = u => saleLock'[v] = u
      BY <2>1, <2>2, ConstantsAssumption DEF TypeOK
    <3>2. pc'[u] = pc[u] /\ path'[u] = path[u] /\ held'[u] = held[u] /\ UNCHANGED <<req, status>>
      BY <2>1, <2>4 DEF TypeOK, books
    <3> QED BY <2>4, <3>1, <3>2, OtherCarts
  <2> QED BY <2>3, <2>4
<1> QED BY <1>1, <1>2

LEMMA InsertExpenseCarts ==
  ASSUME TypeOK, Control, CartsStand, NEW t \in Txs, InsertExpense(t)
  PROVE  CartsStand'
<1> SUFFICES ASSUME NEW u \in Txs PROVE CartStands(u)'
  BY DEF CartsStand
<1>1. /\ pc[t] = "expense" /\ pc' = [pc EXCEPT ![t] = "inventory"]
      /\ UNCHANGED <<books, saleLock, req, path, held>>
  BY DEF InsertExpense, locals
<1>2. CASE u = t
  <2>1. Cart(t)' = Cart(t)
    BY <1>1 DEF Cart
  <2>2. pc'[t] = "inventory" /\ status' = status
    BY <1>1 DEF TypeOK, books
  <2> QED BY <1>1, <1>2, <2>1, <2>2 DEF CartsStand, CartStands, Steps
<1>3. CASE u # t
  <2>1. pc'[u] = pc[u] /\ UNCHANGED <<req, status>>
    BY <1>1, <1>3 DEF TypeOK, books
  <2> QED BY <1>1, <1>3, <2>1, OtherCarts
<1> QED BY <1>2, <1>3

LEMMA LockInventoryCarts ==
  ASSUME TypeOK, Control, CartsStand, NEW t \in Txs, LockInventory(t)
  PROVE  CartsStand'
<1> DEFINE q == Head(path[t])
           k == req[t].kind
<1>1. CASE Rollback(t)
  BY <1>1, RollbackCarts
<1>2. CASE ~Rollback(t)
  <2>1. /\ pc[t] = "inventory"
        /\ held' = [held EXCEPT ![t] = @ \cup {q}]
        /\ k \in {"sale", "validate"} => /\ pc' = [pc EXCEPT ![t] = "product"]
                                        /\ UNCHANGED path
        /\ k \notin {"sale", "validate"} =>
             /\ path' = [path EXCEPT ![t] = Tail(@)]
             /\ pc' = [pc EXCEPT ![t] = IF Len(path[t]) = 1 THEN "commit" ELSE "inventory"]
        /\ UNCHANGED <<books, saleLock, req>>
    BY <1>2 DEF LockInventory
  <2>2. path[t] \in Seq(Products) /\ path[t] # <<>>
    BY <2>1 DEF TypeOK, Control, ControlOf
  <2>3. Cart(t)' = Cart(t) /\ status' = status
    BY <2>1 DEF Cart, books
  <2>4. held[t] \cup Lines(path[t]) = Lines(Cart(t))
    BY <2>1 DEF CartsStand, CartStands, Steps
  <2>5. k = "void" => saleLock[req[t].target] = t /\ status[req[t].target] = "completed"
    BY <2>1 DEF CartsStand, CartStands, Steps
  <2> SUFFICES ASSUME NEW u \in Txs PROVE CartStands(u)'
    BY DEF CartsStand
  <2>6. CASE u = t /\ k \in {"sale", "validate"}
    <3>1. pc'[t] = "product" /\ path'[t] = path[t] /\ held'[t] = held[t] \cup {q}
      BY <2>1, <2>6 DEF TypeOK
    <3>2. q \in Lines(path[t])
      BY <2>2, LinesSplit
    <3> QED BY <2>1, <2>3, <2>4, <2>6, <3>1, <3>2 DEF CartStands
  <2>7. CASE u = t /\ k \notin {"sale", "validate"}
    <3>1. /\ pc'[t] \in {"commit", "inventory"} /\ path'[t] = Tail(path[t])
          /\ held'[t] = held[t] \cup {q}
          /\ pc'[t] = "commit" => Len(path[t]) = 1
      BY <2>1, <2>7 DEF TypeOK
    <3>2. /\ Lines(path[t]) = {q} \cup Lines(Tail(path[t]))
          /\ Len(path[t]) = 1 => Tail(path[t]) = <<>>
      BY <2>2, LinesSplit
    <3> QED BY <2>1, <2>3, <2>4, <2>5, <2>7, <3>1, <3>2 DEF CartStands
  <2>8. CASE u # t
    <3>1. pc'[u] = pc[u] /\ path'[u] = path[u] /\ held'[u] = held[u]
      BY <2>1, <2>8 DEF TypeOK
    <3> QED BY <2>1, <2>3, <2>8, <3>1, OtherCarts
  <2> QED BY <2>6, <2>7, <2>8
<1> QED BY <1>1, <1>2

LEMMA LockProductCarts ==
  ASSUME TypeOK, Control, CartsStand, NEW t \in Txs, LockProduct(t)
  PROVE  CartsStand'
<1> DEFINE q == Head(path[t])
<1>1. CASE Rollback(t)
  BY <1>1, RollbackCarts
<1>2. CASE ~Rollback(t)
  <2>1. /\ pc[t] = "product"
        /\ path' = [path EXCEPT ![t] = Tail(@)]
        /\ pc' = [pc EXCEPT ![t] = IF Len(path[t]) = 1 THEN "insert" ELSE "inventory"]
        /\ UNCHANGED <<books, saleLock, req, held>>
    BY <1>2 DEF LockProduct
  <2>2. /\ path[t] \in Seq(Products) /\ path[t] # <<>>
        /\ req[t].kind \in {"sale", "validate"}
    BY <2>1 DEF TypeOK, Control, ControlOf
  <2>3. Cart(t)' = Cart(t) /\ status' = status
    BY <2>1 DEF Cart, books
  <2> SUFFICES ASSUME NEW u \in Txs PROVE CartStands(u)'
    BY DEF CartsStand
  <2>4. CASE u = t
    <3>1. /\ pc'[t] \in {"insert", "inventory"} /\ path'[t] = Tail(path[t])
          /\ pc'[t] = "insert" => Len(path[t]) = 1
      BY <2>1 DEF TypeOK
    <3>2. /\ Lines(path[t]) = {q} \cup Lines(Tail(path[t]))
          /\ Len(path[t]) = 1 => Tail(path[t]) = <<>>
      BY <2>2, LinesSplit
    <3>3. q \in held[t] /\ held[t] \cup Lines(path[t]) = Lines(Cart(t))
      BY <2>1 DEF CartsStand, CartStands, Steps
    <3> QED BY <2>1, <2>2, <2>3, <2>4, <3>1, <3>2, <3>3 DEF CartStands
  <2>5. CASE u # t
    <3>1. pc'[u] = pc[u] /\ path'[u] = path[u]
      BY <2>1, <2>5 DEF TypeOK
    <3> QED BY <2>1, <2>3, <2>5, <3>1, OtherCarts
  <2> QED BY <2>4, <2>5
<1> QED BY <1>1, <1>2

LEMMA InsertSaleCarts ==
  ASSUME TypeOK, Control, CartsStand, NEW t \in Txs, InsertSale(t)
  PROVE  CartsStand'
<1>1. CASE Rollback(t)
  BY <1>1, RollbackCarts
<1>2. CASE ~Rollback(t)
  <2>1. /\ pc[t] = "insert" /\ pc' = [pc EXCEPT ![t] = "commit"]
        /\ UNCHANGED <<status, saleLock, req, path, held>> /\ req[t].kind = "sale"
    BY <1>2 DEF InsertSale, books, locks, locals, Control, ControlOf
  <2> SUFFICES ASSUME NEW u \in Txs PROVE CartStands(u)'
    BY DEF CartsStand
  <2>2. CASE u = t
    <3>1. Cart(t)' = Cart(t) /\ pc'[t] = "commit"
      BY <2>1 DEF Cart, TypeOK
    <3> QED BY <2>1, <2>2, <3>1 DEF CartsStand, CartStands, Steps
  <2>3. CASE u # t
    <3>1. pc'[u] = pc[u]
      BY <2>1, <2>3 DEF TypeOK
    <3> QED BY <2>1, <2>3, <3>1, OtherCarts
  <2> QED BY <2>2, <2>3
<1> QED BY <1>1, <1>2

LEMMA CommitCarts ==
  ASSUME TypeOK, Control, CartsStand, NEW t \in Txs, Commit(t)
  PROVE  CartsStand'
<1> SUFFICES ASSUME NEW u \in Txs PROVE CartStands(u)'
  BY DEF CartsStand
<1>1. CASE pc'[u] \notin Steps
  BY <1>1, IdleCarts
<1>2. CASE pc'[u] \in Steps
  <2>1. u # t /\ pc[u] = pc'[u] /\ pc[u] # "idle" /\ req' = req /\ pc[t] = "commit"
    BY <1>2 DEF Commit, TypeOK, Steps
  <2>2. Cart(u)' = Cart(u)
    BY <2>1, CartFixed
  <2>3. path'[u] = path[u] /\ held'[u] = held[u]
    BY <2>1 DEF Commit, Forget, TypeOK
  <2>4. \A s \in Txs : saleLock[s] = u => saleLock'[s] = u
    BY <2>1 DEF Commit, Release
  <2>5. \A s \in Txs : (saleLock[s] = u /\ s # t) => status'[s] = status[s]
    <3>1. CASE req[t].kind = "void"
      <4>1. saleLock[req[t].target] = t
        BY <2>1, <3>1 DEF CartsStand, CartStands, Steps
      <4> QED BY <2>1, <3>1, <4>1 DEF Commit, StatusAfter, TypeOK
    <3>2. CASE req[t].kind # "void"
      BY <3>2 DEF Commit, StatusAfter, TypeOK
    <3> QED BY <3>1, <3>2
  <2>6. status[t] = "none"
    BY <2>1 DEF Control, ControlOf
  <2>7. (pc[u] \in Steps /\ req[u].kind = "void") => req[u].target \in Txs
    BY <2>1, RequestType DEF Control, ControlOf
  <2> QED BY <2>1, <2>2, <2>3, <2>4, <2>5, <2>6, <2>7 DEF CartsStand, CartStands
<1> QED BY <1>1, <1>2

LEMMA StepCarts == TypeOK /\ Control /\ CartsStand /\ [Next]_vars => CartsStand'
<1> SUFFICES ASSUME TypeOK, Control, CartsStand, [Next]_vars PROVE CartsStand'
  OBVIOUS
<1>1. ASSUME NEW t \in Txs, Proceed(t) PROVE CartsStand'
  BY <1>1, LockSaleCarts, InsertExpenseCarts, LockInventoryCarts, LockProductCarts,
     InsertSaleCarts, CommitCarts DEF Proceed
<1>2. ASSUME NEW t \in Txs, Begin(t) PROVE CartsStand'
  BY <1>2, BeginCarts
<1>3. ASSUME NEW t \in Txs, Fail(t) \/ DeadlockAbort(t) PROVE CartsStand'
  BY <1>3, RollbackCarts DEF Fail, DeadlockAbort
<1>4. CASE UNCHANGED <<status, saleLock, pc, req, path, held>>
  BY <1>4 DEF CartsStand, CartStands, Cart
<1> QED BY <1>1, <1>2, <1>3, <1>4
        DEF Next, EditProduct, vars, books, locks, locals

-----------------------------------------------------------------------------
BookInv == TypeOK /\ Control /\ LinesStand /\ StockNonNegative /\ CartsStand

(* At its commit a transaction has read exactly the lines of its cart.     *)
LEMMA CommitReady ==
  ASSUME BookInv, NEW t \in Txs, pc[t] = "commit"
  PROVE  /\ req[t] \in Requests /\ req[t].kind \in Kinds \ {"validate"}
         /\ held[t] = Lines(Cart(t))
         /\ \A p \in held[t] : before[t][p] = stock[p]
         /\ \A p \in Products : p \notin held[t] => Units(t)[p] = 0
         /\ Units(t) \in [Products -> Int]
         /\ stock \in [Products -> Int]
<1>1. req[t] \in Requests /\ req[t].kind \in Kinds \ {"validate"} /\ Units(t) \in [Products -> Int]
  BY RequestType, UnitsType DEF BookInv, Control, ControlOf
<1>2. path[t] = <<>> /\ held[t] \cup Lines(path[t]) = Lines(Cart(t))
  BY DEF BookInv, CartsStand, CartStands, Steps
<1>3. Lines(<<>>) = {}
  BY DEF Lines
<1>4. held[t] = Lines(Cart(t))
  BY <1>2, <1>3
<1>5. \A p \in Products : p \notin Lines(Cart(t)) => Units(t)[p] = 0
  <2>1. CASE req[t].kind = "void"
    <3>1. req[t].target \in Txs /\ status[req[t].target] # "none"
      BY <1>1, <2>1, RequestType DEF BookInv, Control, ControlOf
    <3>2. req[req[t].target] \in Requests
      BY <3>1 DEF BookInv, Control, ControlOf
    <3> QED BY <2>1, <3>2, RequestsAssumption DEF Cart, Units
  <2>2. CASE req[t].kind # "void"
    BY <1>1, <2>2, RequestsAssumption DEF Cart, Units
  <2> QED BY <2>1, <2>2
<1>6. \A p \in held[t] : before[t][p] = stock[p]
  BY DEF BookInv, LinesStand, LineStands
<1> QED BY <1>1, <1>4, <1>5, <1>6 DEF BookInv, TypeOK

(* The quantities after a commit, with nothing said of the locks.          *)
LEMMA CommitQuantities ==
  ASSUME BookInv, NEW t \in Txs, Commit(t)
  PROVE  stock' = [p \in Products |->
           CASE req[t].kind = "sale" -> stock[p] - Units(t)[p]
             [] req[t].kind = "count" /\ p \in held[t] -> Units(t)[p]
             [] req[t].kind = "count" /\ p \notin held[t] -> stock[p]
             [] OTHER -> stock[p] + Units(t)[p]]
<1>1. pc[t] = "commit"
  BY DEF Commit
<1>2. stock' = [p \in Products |-> IF p \in held[t] THEN NewQuantity(t, p) ELSE stock[p]]
  BY DEF Commit
<1>3. ASSUME NEW p \in Products
      PROVE  (IF p \in held[t] THEN NewQuantity(t, p) ELSE stock[p])
               = CASE req[t].kind = "sale" -> stock[p] - Units(t)[p]
                   [] req[t].kind = "count" /\ p \in held[t] -> Units(t)[p]
                   [] req[t].kind = "count" /\ p \notin held[t] -> stock[p]
                   [] OTHER -> stock[p] + Units(t)[p]
  <2>1. CASE p \in held[t]
    BY <1>1, <2>1, CommitReady DEF NewQuantity
  <2>2. CASE p \notin held[t]
    <3>1. Units(t)[p] = 0 /\ stock[p] \in Int
      BY <1>1, <2>2, CommitReady
    <3>2. stock[p] - Units(t)[p] = stock[p] /\ stock[p] + Units(t)[p] = stock[p]
      BY <3>1
    <3> QED BY <2>2, <3>2
  <2> QED BY <2>1, <2>2
<1> QED BY <1>2, <1>3

LEMMA SaleIsSell ==
  ASSUME BookInv, NEW t \in Txs, Commit(t), req[t].kind = "sale"
  PROVE  Book!Sell(t, req[t].units) /\ req[t].units \in UnitsOf({"sale"})
<1>1. pc[t] = "commit" /\ status[t] = "none" /\ req' = req /\ Units(t) = req[t].units
  BY DEF Commit, BookInv, Control, ControlOf, Units
<1>2. \A p \in Products : req[t].units[p] <= stock[p]
  <2> SUFFICES ASSUME NEW p \in Products PROVE req[t].units[p] <= stock[p]
    OBVIOUS
  <2>1. CASE p \in held[t]
    <3>1. before[t][p] = stock[p] /\ before[t][p] >= Units(t)[p]
      BY <1>1, <2>1 DEF BookInv, LinesStand, LineStands, Unjudged, Accepted
    <3>2. Units(t)[p] \in Int /\ stock[p] \in Int
      BY <1>1, CommitReady
    <3> QED BY <1>1, <3>1, <3>2
  <2>2. CASE p \notin held[t]
    BY <1>1, <2>2, CommitReady DEF BookInv, StockNonNegative
  <2> QED BY <2>1, <2>2
<1>3. stock' = [p \in Products |-> stock[p] - req[t].units[p]]
  BY <1>1, CommitQuantities
<1>4. status' = [status EXCEPT ![t] = "completed"]
  BY DEF Commit, StatusAfter
<1>5. Sold' = [Sold EXCEPT ![t] = req[t].units]
  <2>1. \A u \in Txs : u # t => status'[u] = status[u]
    BY <1>4 DEF BookInv, TypeOK
  <2>2. status'[t] # "none"
    BY <1>4 DEF BookInv, TypeOK
  <2> QED BY <1>1, <2>1, <2>2 DEF Sold, Blank
<1>6. req[t].units \in UnitsOf({"sale"})
  BY <1>1, CommitReady DEF UnitsOf
<1> QED BY <1>1, <1>2, <1>3, <1>4, <1>5, <1>6 DEF Book!Sell

LEMMA VoidIsVoidSale ==
  ASSUME BookInv, NEW t \in Txs, Commit(t), req[t].kind = "void"
  PROVE  req[t].target \in Txs /\ Book!VoidSale(req[t].target)
<1> DEFINE s == req[t].target
<1>1. pc[t] = "commit" /\ req' = req /\ s \in Txs
  BY RequestType DEF Commit, BookInv, Control, ControlOf
<1>2. status[s] = "completed"
  BY <1>1 DEF BookInv, CartsStand, CartStands, Steps
<1>3. Units(t) = Sold[s]
  BY <1>1, <1>2 DEF Units, Sold
<1>4. stock' = [p \in Products |-> stock[p] + Sold[s][p]]
  BY <1>3, CommitQuantities
<1>5. status' = [status EXCEPT ![s] = "voided"]
  BY DEF Commit, StatusAfter
<1>6. Sold' = Sold
  <2>1. \A u \in Txs : status'[u] = "none" <=> status[u] = "none"
    BY <1>1, <1>2, <1>5 DEF BookInv, TypeOK
  <2> QED BY <1>1, <2>1 DEF Sold, Blank
<1> QED BY <1>1, <1>2, <1>4, <1>5, <1>6 DEF Book!VoidSale

LEMMA StockIsAdjustOrCount ==
  ASSUME BookInv, NEW t \in Txs, Commit(t), req[t].kind \in {"adjust", "purchase", "count"}
  PROVE  Book!BookNext
<1> DEFINE p == req[t].order[1]
           q == req[t].units[p]
<1>1. pc[t] = "commit" /\ req' = req /\ Units(t) = req[t].units
  BY DEF Commit, Units
<1>2. /\ req[t] \in Requests /\ req[t].order \in Seq(Products) /\ Len(req[t].order) = 1
      /\ held[t] = Lines(req[t].order)
  BY <1>1, CommitReady, RequestType, RequestsAssumption DEF Cart
<1>3. held[t] = {p} /\ p \in Products
  BY <1>2, LenProperties DEF Lines
<1>4. status' = status /\ Sold' = Sold
  BY <1>1 DEF Commit, StatusAfter, Sold, Blank
<1>5. /\ stock \in [Products -> Int] /\ Units(t) \in [Products -> Int]
      /\ \A r \in Products : r # p => Units(t)[r] = 0
  BY <1>1, <1>3, CommitReady
<1>6. CASE req[t].kind \in {"adjust", "purchase"}
  <2>1. stock' = [r \in Products |-> stock[r] + Units(t)[r]]
    BY <1>6, CommitQuantities
  <2>2. stock' = [stock EXCEPT ![p] = @ + q]
    <3>1. \A r \in Products : r # p => stock[r] + Units(t)[r] = stock[r]
      BY <1>5
    <3>2. Units(t)[p] = q
      BY <1>1
    <3> HIDE DEF p, q
    <3> QED BY <1>3, <1>5, <2>1, <3>1, <3>2
  <2>3. stock[p] + q >= 0
    BY <1>1, <1>3, <1>6 DEF BookInv, LinesStand, LineStands
  <2>4. q \in {u[r] : u \in UnitsOf({"adjust", "purchase"}), r \in Products}
    BY <1>2, <1>3, <1>6 DEF UnitsOf
  <2>5. Book!Adjust(p, q)
    BY <1>4, <2>2, <2>3 DEF Book!Adjust
  <2> HIDE DEF p, q
  <2> QED BY <1>3, <2>4, <2>5 DEF Book!BookNext
<1>7. CASE req[t].kind = "count"
  <2>1. stock' = [stock EXCEPT ![p] = q]
    BY <1>1, <1>3, <1>5, <1>7, CommitQuantities
  <2>2. q \in {u[r] : u \in UnitsOf({"count"}), r \in Products}
    BY <1>2, <1>3, <1>7 DEF UnitsOf
  <2>3. Book!Count(p, q)
    BY <1>4, <2>1 DEF Book!Count
  <2> HIDE DEF p, q
  <2> QED BY <1>3, <2>2, <2>3 DEF Book!BookNext
<1> QED BY <1>6, <1>7

LEMMA StepBook == BookInv /\ [Next]_vars => [Book!BookNext]_(Book!bookVars)
<1> SUFFICES ASSUME BookInv, [Next]_vars PROVE [Book!BookNext]_(Book!bookVars)
  OBVIOUS
<1>1. ASSUME NEW t \in Txs, Commit(t) PROVE Book!BookNext
  <2>1. req[t].kind \in Kinds \ {"validate"}
    BY <1>1, CommitReady DEF Commit
  <2>2. CASE req[t].kind = "sale"
    BY <1>1, <2>2, SaleIsSell DEF Book!BookNext
  <2>3. CASE req[t].kind = "void"
    BY <1>1, <2>3, VoidIsVoidSale DEF Book!BookNext
  <2>4. CASE req[t].kind \in {"adjust", "purchase", "count"}
    BY <1>1, <2>4, StockIsAdjustOrCount
  <2> QED BY <2>1, <2>2, <2>3, <2>4 DEF Kinds
<1>2. CASE \A t \in Txs : ~Commit(t)
  <2>1. UNCHANGED books
    BY <1>2, OnlyCommitWrites
  <2>2. \A u \in Txs : status[u] # "none" => req'[u] = req[u]
    <3>1. ASSUME NEW t \in Txs, Begin(t)
          PROVE  \A u \in Txs : status[u] # "none" => req'[u] = req[u]
      BY <3>1 DEF Begin, BookInv, Control, ControlOf, TypeOK
    <3>2. ASSUME NEW t \in Txs, Proceed(t) \/ Fail(t) \/ DeadlockAbort(t) PROVE req' = req
      BY <3>2 DEF Proceed, LockSale, InsertExpense, LockInventory, LockProduct, InsertSale,
                  Commit, Fail, DeadlockAbort, Rollback
    <3>3. (\E p \in Products : EditProduct(p)) \/ UNCHANGED vars => req' = req
      BY DEF EditProduct, vars
    <3> QED BY <3>1, <3>2, <3>3 DEF Next
  <2>3. Sold' = Sold
    BY <2>1, <2>2 DEF Sold, Blank, books
  <2> QED BY <2>1, <2>3 DEF books, Book!bookVars
<1> QED BY <1>1, <1>2

(* Every behaviour of the interleaved transactions is one of the atomic    *)
(* book: sales take units that are there, a sale is voided at most once    *)
(* and gives back what it took, for any number of clients.                 *)
THEOREM Linearizable == Spec => ImplementsStockBook
<1>1. Init => Book!BookInit
  BY DEF Init, Book!BookInit, Sold, Blank
<1>2. Init => LinesStand /\ StockNonNegative /\ CartsStand
  <2> SUFFICES ASSUME Init PROVE LinesStand /\ StockNonNegative /\ CartsStand
    OBVIOUS
  <2>1. LinesStand /\ StockNonNegative
    BY ConstantsAssumption DEF Init, LinesStand, StockNonNegative
  <2>2. CartsStand
    BY DEF Init, CartsStand, CartStands, Steps
  <2> QED BY <2>1, <2>2
<1>3. BookInv /\ [Next]_vars => [Book!BookNext]_(Book!bookVars)
  BY StepBook
<1>4. Spec => []BookInv
  BY <1>2, Typing, StepLines, StepStock, StepCarts, PTL DEF Spec, BookInv
<1> QED BY <1>1, <1>3, <1>4, PTL DEF Spec, ImplementsStockBook, Book!BookSpec
=============================================================================
