------------------------------- MODULE Checkout -------------------------------
(***************************************************************************)
(* The stock-changing transactions of the backend, interleaved at their    *)
(* PostgreSQL row locks: checkout (SaleRepository.Create), cart validation *)
(* (ValidateCart), voiding (VoidSale), stock adjustment and count          *)
(* (AdjustStock, SetQuantity), inventory purchase (createExpense), and the *)
(* catalogue edits they race with.                                         *)
(*                                                                         *)
(* Isolation is READ COMMITTED: a statement sees what was committed when   *)
(* its row lock was granted, and what a transaction writes is published by *)
(* its commit. Rows a transaction writes stay locked until it ends, so its *)
(* writes are modelled at the commit, from the values it read before.      *)
(*                                                                         *)
(* A cart names a product once, as the POS screen sends it (it merges the  *)
(* lines of a product); repeated lines are left out.                       *)
(***************************************************************************)
EXTENDS Integers, Sequences, FiniteSets

CONSTANTS
  Products,   \* the products on sale
  Txs,        \* request slots, each one request; a sale is known by its slot
  NoTx,       \* "no transaction": the row is unlocked
  Requests,   \* the requests that clients may submit
  Opening,    \* [Products -> Nat], inventory_items.quantity at the start
  Prices      \* the prices a product may be given

Kinds == {"sale", "validate", "void", "adjust", "count", "purchase"}

(* A request: the lines in cart order and the units per product. An        *)
(* adjustment's units are its signed change, a count's its new quantity;   *)
(* a void names the sale in target and has no lines of its own.            *)
Request == [kind: Kinds, order: Seq(Products), units: [Products -> Int],
            target: Txs \cup {NoTx}]

Lines(order) == {order[k] : k \in DOMAIN order}

(* What the handlers let through: parseSaleItems and the expense parser    *)
(* require positive quantities, a count may not be negative, carts are not *)
(* empty, the other requests move one product, and only a void names a     *)
(* sale.                                                                   *)
ASSUME RequestsAssumption ==
  /\ Requests \subseteq Request
  /\ \A r \in Requests :
       /\ r.kind \in {"sale", "validate", "purchase", "count"}
            => \A p \in Products : r.units[p] >= 0
       /\ r.kind = "void" <=> r.target \in Txs
       /\ r.kind # "void" => r.order # <<>>
       /\ r.kind \in {"adjust", "count", "purchase"} => Len(r.order) = 1
       /\ \A p \in Products : p \notin Lines(r.order) => r.units[p] = 0
ASSUME ConstantsAssumption ==
  /\ IsFiniteSet(Txs) /\ NoTx \notin Txs
  /\ Opening \in [Products -> Nat]
  /\ Prices # {} /\ Prices \subseteq Nat

VARIABLES
  stock,      \* inventory_items.quantity
  ledger,     \* stock_adjustments, per product in commit order
  status,     \* sales.status of the sale each slot creates
  invoice,    \* sales.invoice_no, as the number in the day's sequence
  price,      \* products.price
  active,     \* products.is_active
  invLock,    \* holder of the row lock on inventory_items
  prodLock,   \* holder of FOR UPDATE on products
  prodShare,  \* holders of FOR KEY SHARE on products (expenses.product_id)
  saleLock,   \* holder of the row lock on sales
  pc,         \* the statement each transaction is about to execute
  req,        \* the request each slot serves
  path,       \* lines not locked yet, in locking order
  held,       \* products whose quantity has been read under the row lock
  before,     \* the quantities read
  quote,      \* the unit prices the client submitted
  draw        \* the invoice number drawn from COUNT( * )

books   == <<stock, ledger, status, invoice>>
catalog == <<price, active>>
locks   == <<invLock, prodLock, prodShare, saleLock>>
locals  == <<path, held, before, quote, draw>>
vars    == <<books, catalog, locks, pc, req, locals>>

-----------------------------------------------------------------------------
NoRequest == [kind |-> "validate", order |-> <<>>,
              units |-> [p \in Products |-> 0], target |-> NoTx]
Blank     == [p \in Products |-> 0]

Terminal == {"committed", "rolledback"}
Steps == {"sale", "expense", "inventory", "product", "insert", "commit"}
Active(t) == pc[t] \in Steps

(* The rows of the sales table, voided ones included.                      *)
SaleRows == {t \in Txs : status[t] # "none"}

(* Mutant: a sequence, drawn from by every sale that begins.               *)
SequenceInvoice == Cardinality({t \in Txs : req[t].kind = "sale"}) + 1
(* generateInvoiceNumber: one more than the day's rows.                    *)
NextInvoice == Cardinality(SaleRows) + 1

(* Mutant: a voided sale may be voided again.                              *)
VoidableTwice(s) == status[s] # "none"
Voidable(s) == status[s] = "completed"

(* The units a transaction moves: a void moves those of the sale it names. *)
Units(t) == IF req[t].kind = "void" THEN req[req[t].target].units ELSE req[t].units

(* The quantity a transaction writes for a product it has read.            *)
NewQuantity(t, p) ==
  CASE req[t].kind = "sale"  -> before[t][p] - Units(t)[p]
    [] req[t].kind = "count" -> Units(t)[p]
    [] OTHER                 -> before[t][p] + Units(t)[p]

(* The row it adds to stock_adjustments.                                   *)
LedgerRow(t, p) ==
  [before |-> before[t][p],
   change |-> CASE req[t].kind = "sale"  -> -Units(t)[p]
                [] req[t].kind = "count" -> Units(t)[p] - before[t][p]
                [] OTHER                 -> Units(t)[p],
   after  |-> NewQuantity(t, p)]

(* Mutant: the sale's two status columns are swapped.                      *)
StatusOfPayment(t) ==
  CASE req[t].kind = "sale" -> [status EXCEPT ![t] = "paid"]
    [] req[t].kind = "void" -> [status EXCEPT ![req[t].target] = "refunded"]
    [] OTHER                -> status
(* sales.status after the transaction.                                     *)
StatusAfter(t) ==
  CASE req[t].kind = "sale" -> [status EXCEPT ![t] = "completed"]
    [] req[t].kind = "void" -> [status EXCEPT ![req[t].target] = "voided"]
    [] OTHER                -> status

(* The first row a request locks, after SELECT COUNT( * ) for a sale: the  *)
(* voided sale, the purchased product (foreign key of the inserted         *)
(* expense), or the first line's inventory row.                            *)
FirstStep(kind) ==
  CASE kind = "void"     -> "sale"
    [] kind = "purchase" -> "expense"
    [] OTHER             -> "inventory"

(* sale_items are read without ORDER BY: any order of the sale's lines.    *)
Orders(lines) ==
  {[k \in DOMAIN lines |-> lines[f[k]]] :
     f \in {g \in [DOMAIN lines -> DOMAIN lines] : Lines(g) = DOMAIN lines}}

-----------------------------------------------------------------------------
(* Every end of a transaction, COMMIT and ROLLBACK alike, frees its locks. *)
Release(t) ==
  /\ invLock'   = [p \in Products |-> IF invLock[p] = t THEN NoTx ELSE invLock[p]]
  /\ prodLock'  = [p \in Products |-> IF prodLock[p] = t THEN NoTx ELSE prodLock[p]]
  /\ prodShare' = [p \in Products |-> prodShare[p] \ {t}]
  /\ saleLock'  = [s \in Txs |-> IF saleLock[s] = t THEN NoTx ELSE saleLock[s]]

Forget(t) ==
  /\ path'   = [path EXCEPT ![t] = <<>>]
  /\ held'   = [held EXCEPT ![t] = {}]
  /\ before' = [before EXCEPT ![t] = Blank]
  /\ quote'  = [quote EXCEPT ![t] = Blank]
  /\ draw'   = [draw EXCEPT ![t] = 0]

(* Mutant: an early return without the deferred rollback.                  *)
LeakTransaction(t) ==
  /\ pc' = [pc EXCEPT ![t] = "rolledback"]
  /\ Forget(t)
  /\ UNCHANGED <<books, catalog, locks, req>>
(* defer tx.Rollback: an early return undoes the writes and ends the       *)
(* transaction.                                                            *)
Rollback(t) ==
  /\ pc' = [pc EXCEPT ![t] = "rolledback"]
  /\ Release(t)
  /\ Forget(t)
  /\ UNCHANGED <<books, catalog, req>>

(* A request arrives. The handlers of adjustments and purchases look at    *)
(* is_active before the transaction, VoidSale at the sale's existence; a   *)
(* sale begins by drawing its invoice number.                              *)
Begin(t) ==
  /\ pc[t] = "idle"
  /\ \E r \in Requests :
       /\ r.kind \in {"adjust", "count", "purchase"}
            => \A p \in Products : r.units[p] # 0 => active[p]
       /\ r.kind = "void" => status[r.target] # "none"
       /\ req'  = [req EXCEPT ![t] = r]
       /\ path' = [path EXCEPT ![t] = r.order]
       /\ pc'   = [pc EXCEPT ![t] = FirstStep(r.kind)]
       /\ quote' = [quote EXCEPT ![t] = [p \in Products |->
                      IF r.kind \in {"sale", "validate"} /\ p \in Lines(r.order)
                        THEN price[p] ELSE 0]]
       /\ draw'  = [draw EXCEPT ![t] =
                      IF r.kind = "sale" THEN NextInvoice ELSE 0]
  /\ UNCHANGED <<books, catalog, locks, held, before>>

(* VoidSale: SELECT ... FROM sales FOR UPDATE; only a completed sale goes  *)
(* on to its lines.                                                        *)
LockSale(t) ==
  LET s == req[t].target IN
  /\ pc[t] = "sale"
  /\ saleLock[s] = NoTx
  /\ \/ /\ ~Voidable(s)
        /\ Rollback(t)
     \/ /\ Voidable(s)
        /\ saleLock' = [saleLock EXCEPT ![s] = t]
        /\ \E order \in Orders(req[s].order) : path' = [path EXCEPT ![t] = order]
        /\ pc' = [pc EXCEPT ![t] = "inventory"]
        /\ UNCHANGED <<books, catalog, invLock, prodLock, prodShare, req,
                       held, before, quote, draw>>

(* createExpense: INSERT INTO expenses takes FOR KEY SHARE on the product  *)
(* row before AdjustStockWithTx locks the inventory row.                   *)
InsertExpense(t) ==
  LET p == Head(path[t]) IN
  /\ pc[t] = "expense"
  /\ prodLock[p] = NoTx
  /\ prodShare' = [prodShare EXCEPT ![p] = @ \cup {t}]
  /\ pc' = [pc EXCEPT ![t] = "inventory"]
  /\ UNCHANGED <<books, catalog, invLock, prodLock, saleLock, req, locals>>

(* Mutant: SELECT quantity without FOR UPDATE.                             *)
InventoryUnlocked(t, p) == TRUE
InventoryFree(t, p) == invLock[p] \in {NoTx, t}

(* SELECT quantity ... FOR UPDATE: waits for the holder of the row, then   *)
(* reads the committed quantity. Adjustments refuse to go below zero here; *)
(* sales go on to the product row.                                         *)
LockInventory(t) ==
  LET p == Head(path[t])
      k == req[t].kind
  IN
  /\ pc[t] = "inventory"
  /\ InventoryFree(t, p)
  /\ \/ /\ k \in {"adjust", "purchase"}
        /\ stock[p] + Units(t)[p] < 0
        /\ Rollback(t)
     \/ /\ k \in {"adjust", "purchase"} => stock[p] + Units(t)[p] >= 0
        /\ invLock' = [invLock EXCEPT ![p] = t]
        /\ before'  = [before EXCEPT ![t][p] = stock[p]]
        /\ held'    = [held EXCEPT ![t] = @ \cup {p}]
        /\ IF k \in {"sale", "validate"}
             THEN /\ pc' = [pc EXCEPT ![t] = "product"]
                  /\ UNCHANGED path
             ELSE /\ path' = [path EXCEPT ![t] = Tail(@)]
                  /\ pc' = [pc EXCEPT ![t] = IF Len(path[t]) = 1 THEN "commit" ELSE "inventory"]
        /\ UNCHANGED <<books, catalog, prodLock, prodShare, saleLock, req, quote, draw>>

(* Mutant: prepareSaleItems without the comparison with the stock.         *)
AcceptedUnseen(t, p) == quote[t][p] = price[p]
(* The checks of prepareSaleItems: price as submitted, enough units.       *)
Accepted(t, p) == quote[t][p] = price[p] /\ before[t][p] >= Units(t)[p]

ProductFree(t, p) == prodLock[p] \in {NoTx, t} /\ prodShare[p] \subseteq {t}
(* Mutant: SELECT ... FROM products without FOR UPDATE.                    *)
ReadProduct(t, p) == UNCHANGED prodLock
KeepProduct(t, p) == prodLock' = [prodLock EXCEPT ![p] = t]

(* SELECT ... FROM products WHERE is_active FOR UPDATE finds no row, and   *)
(* so waits for none, when the product is archived. After the last line a *)
(* validation rolls back and a sale goes on to its insert.                 *)
LockProduct(t) ==
  LET p == Head(path[t])
      last == Len(path[t]) = 1
      done == last /\ req[t].kind = "validate"
  IN
  /\ pc[t] = "product"
  /\ \/ /\ ~active[p]
        /\ Rollback(t)
     \/ /\ active[p] /\ ProductFree(t, p)
        /\ ~Accepted(t, p) \/ done
        /\ Rollback(t)
     \/ /\ active[p] /\ ProductFree(t, p)
        /\ Accepted(t, p) /\ ~done
        /\ KeepProduct(t, p)
        /\ path' = [path EXCEPT ![t] = Tail(@)]
        /\ pc' = [pc EXCEPT ![t] = IF last THEN "insert" ELSE "inventory"]
        /\ UNCHANGED <<books, catalog, invLock, prodShare, saleLock, req,
                       held, before, quote, draw>>

(* An uncommitted row with the same invoice number: the unique index makes *)
(* an insert wait for the transaction that wrote it.                       *)
SameInvoicePending(t) ==
  {u \in Txs \ {t} : pc[u] = "commit" /\ req[u].kind = "sale" /\ draw[u] = draw[t]}

(* INSERT INTO sales: the discount and payment checks may still refuse the *)
(* sale, a committed row with the same invoice number always does.         *)
InsertSale(t) ==
  /\ pc[t] = "insert"
  /\ SameInvoicePending(t) = {}
  /\ \/ Rollback(t)
     \/ /\ \A s \in SaleRows : invoice[s] # draw[t]
        /\ pc' = [pc EXCEPT ![t] = "commit"]
        /\ UNCHANGED <<books, catalog, locks, req, locals>>

(* The writes and COMMIT: quantities and ledger rows for every line, and   *)
(* the sale's row.                                                         *)
Commit(t) ==
  /\ pc[t] = "commit"
  /\ stock'  = [p \in Products |-> IF p \in held[t] THEN NewQuantity(t, p) ELSE stock[p]]
  /\ ledger' = [p \in Products |-> IF p \in held[t] THEN Append(ledger[p], LedgerRow(t, p))
                                                    ELSE ledger[p]]
  /\ status' = StatusAfter(t)
  /\ invoice' = IF req[t].kind = "sale" THEN [invoice EXCEPT ![t] = draw[t]] ELSE invoice
  /\ pc' = [pc EXCEPT ![t] = "committed"]
  /\ Release(t)
  /\ Forget(t)
  /\ UNCHANGED <<catalog, req>>

(* Any statement may fail, the client may go away, the server may stop.    *)
Fail(t) == Active(t) /\ Rollback(t)

-----------------------------------------------------------------------------
(* The transactions t waits for at its next statement. A product archived  *)
(* meanwhile does not end a wait that began before.                        *)
Blockers(t) ==
  CASE pc[t] = "sale"      -> {saleLock[req[t].target]} \ {NoTx, t}
    [] pc[t] = "expense"   -> {prodLock[Head(path[t])]} \ {NoTx, t}
    [] pc[t] = "inventory" -> {invLock[Head(path[t])]} \ {NoTx, t}
    [] pc[t] = "product"   -> (prodShare[Head(path[t])] \cup {prodLock[Head(path[t])]})
                                \ {NoTx, t}
    [] pc[t] = "insert"    -> SameInvoicePending(t)
    [] OTHER               -> {}

(* Some transactions all wait for one another.                             *)
DeadlockedSet(S) == S # {} /\ \A t \in S : Blockers(t) \cap S # {}

(* PostgreSQL's deadlock detector rolls one of them back.                  *)
DeadlockAbort(t) ==
  /\ \E S \in SUBSET Txs : t \in S /\ DeadlockedSet(S)
  /\ Rollback(t)

(* UPDATE products, autocommitted: waits for FOR UPDATE, not for           *)
(* FOR KEY SHARE, and holds no other lock.                                 *)
EditProduct(p) ==
  /\ prodLock[p] = NoTx
  /\ \E c \in Prices, a \in BOOLEAN :
       /\ price'  = [price EXCEPT ![p] = c]
       /\ active' = [active EXCEPT ![p] = a]
  /\ UNCHANGED <<books, locks, pc, req, locals>>

-----------------------------------------------------------------------------
Init ==
  /\ stock = Opening
  /\ ledger = [p \in Products |-> <<>>]
  /\ status = [t \in Txs |-> "none"]
  /\ invoice = [t \in Txs |-> 0]
  /\ price \in [Products -> Prices]
  /\ active = [p \in Products |-> TRUE]
  /\ invLock = [p \in Products |-> NoTx]
  /\ prodLock = [p \in Products |-> NoTx]
  /\ prodShare = [p \in Products |-> {}]
  /\ saleLock = [t \in Txs |-> NoTx]
  /\ pc = [t \in Txs |-> "idle"]
  /\ req = [t \in Txs |-> NoRequest]
  /\ path = [t \in Txs |-> <<>>]
  /\ held = [t \in Txs |-> {}]
  /\ before = [t \in Txs |-> Blank]
  /\ quote = [t \in Txs |-> Blank]
  /\ draw = [t \in Txs |-> 0]

(* The statements a running transaction executes of its own accord.        *)
Proceed(t) ==
  \/ LockSale(t) \/ InsertExpense(t) \/ LockInventory(t) \/ LockProduct(t)
  \/ InsertSale(t) \/ Commit(t)

Next ==
  \/ \E t \in Txs : Begin(t) \/ Proceed(t) \/ Fail(t) \/ DeadlockAbort(t)
  \/ \E p \in Products : EditProduct(p)

Spec == Init /\ [][Next]_vars

(* The server executes the next statement of a running transaction unless  *)
(* it waits for a lock, and PostgreSQL's detector runs at every waiter.    *)
(* Clients owe nothing: no fairness on Begin, Fail or EditProduct.         *)
Fairness == \A t \in Txs : WF_vars(Proceed(t)) /\ WF_vars(DeadlockAbort(t))
FairSpec == Spec /\ Fairness
-----------------------------------------------------------------------------
TypeOK ==
  /\ stock \in [Products -> Int]
  /\ ledger \in [Products -> Seq([before: Int, change: Int, after: Int])]
  /\ status \in [Txs -> {"none", "completed", "voided"}]
  /\ invoice \in [Txs -> Nat]
  /\ price \in [Products -> Prices] /\ active \in [Products -> BOOLEAN]
  /\ invLock \in [Products -> Txs \cup {NoTx}]
  /\ prodLock \in [Products -> Txs \cup {NoTx}]
  /\ prodShare \in [Products -> SUBSET Txs]
  /\ saleLock \in [Txs -> Txs \cup {NoTx}]
  /\ pc \in [Txs -> {"idle"} \cup Steps \cup Terminal]
  /\ req \in [Txs -> Requests \cup {NoRequest}]
  /\ path \in [Txs -> Seq(Products)]
  /\ held \in [Txs -> SUBSET Products]
  /\ before \in [Txs -> [Products -> Int]]
  /\ quote \in [Txs -> [Products -> Prices \cup {0}]]
  /\ draw \in [Txs -> Nat]

(* No interleaving of checkouts, voids, adjustments, counts and purchases  *)
(* sells units that are not there: quantities never go below zero.         *)
StockNonNegative == \A p \in Products : stock[p] >= 0

(* The before/after history of a product is one unbroken chain from its    *)
(* opening quantity to its present one: no update is lost between the      *)
(* locked read and the write (the checkout race of race_integration_test). *)
LedgerChain ==
  \A p \in Products :
    LET rows == ledger[p] IN
    /\ \A k \in 1..Len(rows) :
         /\ rows[k].after = rows[k].before + rows[k].change
         /\ rows[k].before = IF k = 1 THEN Opening[p] ELSE rows[k-1].after
    /\ stock[p] = IF rows = <<>> THEN Opening[p] ELSE rows[Len(rows)].after

(* COUNT( * ) + 1 under the unique index numbers the committed sales of    *)
(* the day 1..n: no number is used twice and none is skipped, whatever     *)
(* sales fail or are voided.                                               *)
DenseInvoices ==
  /\ {invoice[t] : t \in SaleRows} = 1..Cardinality(SaleRows)
  /\ \A t, u \in SaleRows : invoice[t] = invoice[u] => t = u

(* From the moment a line is accepted until the sale is committed its      *)
(* product stays active and at the submitted price, although the catalogue *)
(* is edited concurrently.                                                 *)
SaleTermsStand ==
  \A t \in Txs : \A p \in held[t] :
    (req[t].kind = "sale" /\ pc[t] \in {"inventory", "insert", "commit"})
      => active[p] /\ price[p] = quote[t][p]

(* No set of transactions waits for one another (loadSaleProductForUpdate  *)
(* claims its lock order to be globally cycle-free).                       *)
NoDeadlock == \A S \in SUBSET Txs : ~DeadlockedSet(S)

(* Every request is answered: lock waits and deadlocks never strand one.   *)
EveryRequestEnds == \A t \in Txs : Active(t) ~> pc[t] \in Terminal

(* Committed quantities and sales change as if every transaction were one  *)
(* atomic step of the book.                                                *)
Sold == [t \in Txs |-> IF status[t] = "none" THEN Blank ELSE req[t].units]
UnitsOf(kinds) == {r.units : r \in {q \in Requests : q.kind \in kinds}}
Book == INSTANCE StockBook WITH
  Sales   <- Txs,
  Baskets <- UnitsOf({"sale"}),
  Changes <- {u[p] : u \in UnitsOf({"adjust", "purchase"}), p \in Products},
  Counts  <- {u[p] : u \in UnitsOf({"count"}), p \in Products},
  sold    <- Sold
ImplementsStockBook == Book!BookSpec
=============================================================================
