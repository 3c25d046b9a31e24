------------------------------ MODULE Purchases ------------------------------
(***************************************************************************)
(* Expenses that move stock. An inventory-purchase expense adds its units  *)
(* to a product; editing it books the difference, deleting it takes the    *)
(* units back (ExpenseHandler.Create, Update, Delete, syncExpenseInventory)*)
(*                                                                         *)
(* A transaction holds one connection of the pool from BEGIN to its end.   *)
(* Edits and deletions read the expense without locking it, run checks on  *)
(* a second connection (category, product, permission), adjust stock under *)
(* the row lock of inventory_items, and write the expense last. Isolation  *)
(* is READ COMMITTED; what a transaction writes is published by its commit.*)
(*                                                                         *)
(* A row's product is NoProduct unless the expense moves stock             *)
(* (applies_inventory with a product and a quantity). What an edit leaves  *)
(* in the row may be any live row: a request sets or keeps every field.    *)
(***************************************************************************)
EXTENDS Integers, Sequences, FiniteSets

CONSTANTS
  Expenses, Products, Slots,   \* expense ids, products, request slots
  NoExpense, NoProduct, NoSlot,
  Quantities,                  \* the units an expense may buy
  Opening,                     \* [Products -> Nat], the stock at the start
  PoolSize                     \* connections in the pool

ASSUME ConstantsAssumption ==
  /\ NoExpense \notin Expenses /\ NoProduct \notin Products /\ NoSlot \notin Slots
  /\ IsFiniteSet(Slots)
  /\ Quantities \subseteq Nat \ {0}
  /\ Opening \in [Products -> Nat]
(* newPoolConfig sets 25. No code bounds the requests by it: when PoolSize *)
(* changes are under way at once, each waits for a second connection that  *)
(* none of them gives up. EveryRequestEnds needs more connections.         *)
ASSUME PoolAssumption == PoolSize \in Nat \ {0}

VARIABLES
  row,      \* the expenses table
  stock,    \* inventory_items.quantity
  booked,   \* per expense and product, the sum of its stock_adjustments
  invLock,  \* holder of the row lock on inventory_items
  pc, kind, target,  \* the request of each slot, its next step and its expense
  seen,     \* the row the transaction read
  final,    \* the row it will leave
  plan,     \* adjustments still to make
  made,     \* units it has moved so far, per product
  raced     \* history: expenses written over a row the writer had not seen

locals == <<kind, target, seen, final, plan, made>>
vars   == <<row, stock, booked, invLock, pc, locals, raced>>

-----------------------------------------------------------------------------
Kinds == {"create", "edit", "delete"}
InTx  == {"check", "adjust", "commit"}
Ended == {"done", "refused"}
Nothing == [p \in Products |-> 0]

Plain == [status |-> "live", product |-> NoProduct, units |-> 0]
Buys  == [status: {"live"}, product: Products, units: Quantities]
LiveRows == {Plain} \cup Buys
(* An id not drawn yet.                                                    *)
New  == [status |-> "new", product |-> NoProduct, units |-> 0]
(* Mutant: expenses archive, as expense categories do.                     *)
Archived == [status |-> "archived", product |-> NoProduct, units |-> 0]
(* DELETE FROM expenses.                                                   *)
Gone == [status |-> "deleted", product |-> NoProduct, units |-> 0]

Moves(r) == r.product # NoProduct
(* The units an expense adds to a product.                                 *)
Effect(r) == [p \in Products |-> IF r.product = p THEN r.units ELSE 0]

Change(p, q) == <<[product |-> p, units |-> q]>>
Apply(r)  == IF Moves(r) THEN Change(r.product, r.units) ELSE <<>>
Revert(r) == IF Moves(r) THEN Change(r.product, -r.units) ELSE <<>>

(* Mutant: the difference is booked although the product changed.          *)
PlanByQuantity(old, new) ==
  IF ~Moves(old) \/ ~Moves(new) THEN Revert(old) \o Apply(new)
  ELSE IF old.units = new.units /\ old.product = new.product THEN <<>>
  ELSE Change(new.product, new.units - old.units)
(* syncExpenseInventory: the difference for one and the same product,      *)
(* otherwise the old purchase is reverted before the new one is applied.   *)
Plan(old, new) ==
  IF old.product # new.product THEN Revert(old) \o Apply(new)
  ELSE IF old.units = new.units THEN <<>>
  ELSE Change(new.product, new.units - old.units)

(* Mutant: only the presence of stock is checked.                          *)
SomeLeft(p, change) == stock[p] > 0
(* AdjustStockWithTx refuses a quantity below zero.                        *)
Enough(p, change) == stock[p] + change >= 0

(* BEGIN takes a connection; a creation checks before it begins.           *)
HoldsConnection(t) ==
  pc[t] \in {"adjust", "commit"} \/ (pc[t] = "check" /\ kind[t] # "create")
Spare == Cardinality({t \in Slots : HoldsConnection(t)}) < PoolSize

Forget(t) ==
  /\ plan' = [plan EXCEPT ![t] = <<>>]
  /\ made' = [made EXCEPT ![t] = Nothing]
  /\ seen' = [seen EXCEPT ![t] = New]
  /\ final' = [final EXCEPT ![t] = New]
  /\ UNCHANGED <<kind, target>>

Release(t) == invLock' = [p \in Products |-> IF invLock[p] = t THEN NoSlot ELSE invLock[p]]

(* Mutant: an early return without the deferred rollback.                  *)
KeepLocks(t) ==
  /\ pc' = [pc EXCEPT ![t] = "refused"]
  /\ Forget(t)
  /\ UNCHANGED <<row, stock, booked, invLock, raced>>
(* defer tx.Rollback: an early return leaves no trace.                     *)
Refuse(t) ==
  /\ pc' = [pc EXCEPT ![t] = "refused"]
  /\ Release(t)
  /\ Forget(t)
  /\ UNCHANGED <<row, stock, booked, raced>>

-----------------------------------------------------------------------------
(* POST: a fresh id and a row of the client's choice.                      *)
SubmitCreate(t) ==
  /\ pc[t] = "idle"
  /\ \E e \in Expenses, r \in LiveRows :
       /\ row[e] = New /\ \A u \in Slots : target[u] # e
       /\ target' = [target EXCEPT ![t] = e]
       /\ final' = [final EXCEPT ![t] = r]
       /\ plan' = [plan EXCEPT ![t] = Plan(New, r)]
  /\ kind' = [kind EXCEPT ![t] = "create"]
  /\ pc' = [pc EXCEPT ![t] = "check"]
  /\ UNCHANGED <<row, stock, booked, invLock, seen, made, raced>>

(* PATCH and DELETE of an expense the client has on its screen, which may  *)
(* be gone by now: BEGIN, read the row without locking it, refuse a        *)
(* missing one, and work out what to do from what was read.                *)
BeginChange(t) ==
  /\ pc[t] = "idle" /\ Spare
  /\ \E e \in Expenses, k \in {"edit", "delete"} :
       /\ row[e] # New
       /\ kind' = [kind EXCEPT ![t] = k]
       /\ target' = [target EXCEPT ![t] = e]
       /\ \/ /\ row[e].status = "live"
             /\ seen' = [seen EXCEPT ![t] = row[e]]
             /\ \E r \in LiveRows \cup {Gone} :
                  /\ k = "delete" <=> r = Gone
                  /\ final' = [final EXCEPT ![t] = r]
                  /\ plan' = [plan EXCEPT ![t] = Plan(row[e], r)]
             /\ pc' = [pc EXCEPT ![t] = "check"]
          \/ /\ row[e].status # "live"
             /\ pc' = [pc EXCEPT ![t] = "refused"]
             /\ UNCHANGED <<seen, final, plan>>
  /\ UNCHANGED <<row, stock, booked, invLock, made, raced>>

(* The checks before the stock is touched, and again before every further  *)
(* adjustment, on a second connection while the transaction keeps its own  *)
(* (only the deletion of a plain expense has nothing to look up). A        *)
(* creation checks first and then begins, taking a connection for good.    *)
Check(t) ==
  /\ pc[t] = "check" /\ Spare
  /\ pc' = [pc EXCEPT ![t] = IF plan[t] = <<>> THEN "commit" ELSE "adjust"]
  /\ UNCHANGED <<row, stock, booked, invLock, locals, raced>>

(* AdjustStockWithTx: lock the quantity, refuse to go below zero, write it *)
(* and its stock_adjustments row.                                          *)
Adjust(t) ==
  /\ pc[t] = "adjust"
  /\ LET p == Head(plan[t]).product
         change == Head(plan[t]).units
     IN /\ invLock[p] = NoSlot
        /\ \/ /\ Enough(p, change)
              /\ invLock' = [invLock EXCEPT ![p] = t]
              /\ made' = [made EXCEPT ![t][p] = @ + change]
              /\ plan' = [plan EXCEPT ![t] = Tail(@)]
              /\ pc' = [pc EXCEPT ![t] = IF Tail(plan[t]) = <<>> THEN "commit" ELSE "check"]
              /\ UNCHANGED <<row, stock, booked, kind, target, seen, final, raced>>
           \/ ~Enough(p, change) /\ Refuse(t)

(* Mutant: the number of written rows is not looked at.                    *)
AnyRow(t) == TRUE
(* An INSERT writes its row; UPDATE and DELETE by id find it or not.       *)
RowThere(t) == kind[t] = "create" \/ row[target[t]].status = "live"

(* The expense is written and the transaction committed; nothing is waited *)
(* for in between. Zero rows written is an error and rolls back.           *)
Commit(t) ==
  /\ pc[t] = "commit"
  /\ LET e == target[t] IN
     \/ /\ RowThere(t)
        /\ row' = [row EXCEPT ![e] = final[t]]
        /\ stock' = [p \in Products |-> stock[p] + made[t][p]]
        /\ booked' = [booked EXCEPT ![e] = [p \in Products |-> @[p] + made[t][p]]]
        /\ raced' = IF row[e] = seen[t] THEN raced ELSE raced \cup {e}
        /\ pc' = [pc EXCEPT ![t] = "done"]
        /\ Release(t)
        /\ Forget(t)
     \/ ~RowThere(t) /\ Refuse(t)

(* A stale form, an archived product or category, a missing permission, or *)
(* a failing statement: the request ends wherever it stands.               *)
Fail(t) == pc[t] \in InTx /\ Refuse(t)

(* Sales take units, counts add them (up to Opening, to bound the stock),  *)
(* under the row lock.                                                     *)
OtherTraffic(p) ==
  /\ invLock[p] = NoSlot
  /\ \/ stock[p] > 0 /\ stock' = [stock EXCEPT ![p] = @ - 1]
     \/ stock[p] < Opening[p] /\ stock' = [stock EXCEPT ![p] = @ + 1]
  /\ UNCHANGED <<row, booked, invLock, pc, locals, raced>>

(* Two edits that revert each other's product wait in a circle; PostgreSQL *)
(* aborts one of them.                                                     *)
Waits(t, u) == pc[t] = "adjust" /\ invLock[Head(plan[t]).product] = u
InCircle(t) ==
  \E S \in SUBSET Slots : t \in S /\ \A u \in S : \E w \in S : Waits(u, w)
DeadlockAbort(t) == InCircle(t) /\ Refuse(t)

-----------------------------------------------------------------------------
Init ==
  /\ row \in [Expenses -> LiveRows \cup {New}]
  /\ stock = Opening
  /\ booked = [e \in Expenses |-> Effect(row[e])]
  /\ invLock = [p \in Products |-> NoSlot]
  /\ pc = [t \in Slots |-> "idle"]
  /\ kind = [t \in Slots |-> "edit"]
  /\ target = [t \in Slots |-> NoExpense]
  /\ seen = [t \in Slots |-> New]
  /\ final = [t \in Slots |-> New]
  /\ plan = [t \in Slots |-> <<>>]
  /\ made = [t \in Slots |-> Nothing]
  /\ raced = {}

Proceed(t) == Check(t) \/ Adjust(t) \/ Commit(t)
Next ==
  \/ \E t \in Slots :
       SubmitCreate(t) \/ BeginChange(t) \/ Proceed(t) \/ Fail(t) \/ DeadlockAbort(t)
  \/ \E p \in Products : OtherTraffic(p)

Spec == Init /\ [][Next]_vars

(* The server runs the next step of a request it has begun unless it waits *)
(* for a lock or a connection, and PostgreSQL breaks circles of waiters.   *)
FairSpec == Spec /\ \A t \in Slots : WF_vars(Proceed(t)) /\ WF_vars(DeadlockAbort(t))
-----------------------------------------------------------------------------
Row == {r \in [status: {"new", "live", "deleted"}, product: Products \cup {NoProduct},
                units: Quantities \cup {0}] : ~Moves(r) => r.units = 0}

TypeOK ==
  /\ row \in [Expenses -> Row]
  /\ stock \in [Products -> Int]
  /\ booked \in [Expenses -> [Products -> Int]]
  /\ invLock \in [Products -> Slots \cup {NoSlot}]
  /\ pc \in [Slots -> {"idle"} \cup InTx \cup Ended]
  /\ kind \in [Slots -> Kinds]
  /\ target \in [Slots -> Expenses \cup {NoExpense}]
  /\ seen \in [Slots -> Row] /\ final \in [Slots -> Row]
  /\ plan \in [Slots -> Seq([product: Products, units: Int])]
  /\ made \in [Slots -> [Products -> Int]]
  /\ raced \subseteq Expenses

(* Correcting or deleting a purchase whose units are sold already does not *)
(* drive the stock below zero, whatever is sold while the request runs.    *)
StockNonNegative == \A p \in Products : stock[p] >= 0

(* Through creations, corrections of quantity or product and deletion, the *)
(* adjustments booked for an expense add up to what its row says, unless a *)
(* writer had not seen the row it wrote over.                              *)
BookedAsStated == \A e \in Expenses \ raced : booked[e] = Effect(row[e])

(* "Optimistic concurrency control (expected_updated_at) to prevent lost   *)
(* updates from concurrent edits": no two edits of one expense both go     *)
(* through from the same reading and leave its stock off what it says.     *)
NoLostUpdate == \A e \in Expenses : booked[e] = Effect(row[e])

(* An edit that was under way while its expense was deleted neither brings *)
(* it back nor books anything more to it.                                  *)
DeletedIsFinal ==
  [][\A e \in Expenses : row[e].status \notin {"new", "live"}
       => row'[e] = row[e] /\ booked'[e] = booked[e]]_vars

(* Every request is answered: waiting for quantities and connections, and  *)
(* the circles edits of two products can form, never strand one.           *)
EveryRequestEnds == \A t \in Slots : pc[t] \in InTx ~> pc[t] \in Ended
=============================================================================
