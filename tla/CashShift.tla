------------------------------ MODULE CashShift ------------------------------
(***************************************************************************)
(* Register shifts and the cash drawer: starting and closing a shift, the  *)
(* sales and voids that keep its totals, pay-ins and pay-outs. Handlers    *)
(* read the open shift outside any transaction and use its id later; the   *)
(* transactions meet at the row locks of the shifts table.                 *)
(*                                                                         *)
(* As in Checkout: READ COMMITTED, and what a transaction writes to locked *)
(* rows is published by its commit. The stock side of sales and voids is   *)
(* Checkout's; the actual cash counted at closing decides nothing and is   *)
(* left out.                                                               *)
(***************************************************************************)
EXTENDS Integers, FiniteSets, Functions

CONSTANTS
  Shifts,     \* shifts that may be started
  Txs,        \* request slots; a row is known by the slot that inserts it
  None,       \* no shift, no holder, no sale
  Requests,   \* the requests that clients may submit
  Opening     \* [Shifts -> Nat], opening_cash

Kinds == {"start", "sale", "void", "pay_in", "pay_out", "close"}

(* total: the sale's total or the operation's amount; cash: the part of it *)
(* paid in cash; target: the sale to void; form: the shift_id a form was   *)
(* opened with, if it sends one.                                           *)
Request == [kind: Kinds, total: Nat, cash: Nat,
            target: Txs \cup {None}, form: Shifts \cup {None}]

ASSUME RequestsAssumption ==
  /\ Requests \subseteq Request
  /\ \A r \in Requests : r.kind = "void" <=> r.target \in Txs
ASSUME ConstantsAssumption ==
  /\ IsFiniteSet(Txs) /\ None \notin Txs \cup Shifts
  /\ Opening \in [Shifts -> Nat]

VARIABLES
  phase,      \* shifts.status, "none" before the row exists
  expected,   \* shifts.expected_cash
  tally,      \* shifts.total_sales, transaction_count, total_voided, void_count
  row,        \* the sale or cash_drawer_operation a slot has inserted
  shiftOf,    \* its shift_id
  shareLock,  \* holders of FOR KEY SHARE on a shift (sales.shift_id)
  rowLock,    \* holder of a stronger lock on a shift: an UPDATE or FOR UPDATE
  saleLock,   \* holder of FOR UPDATE on a sale
  pc,         \* the statement each transaction is about to execute
  req,        \* the request each slot serves
  seen,       \* the shift id its handler found
  base,       \* the tally read under the row lock
  sum         \* the cash totals CloseShift has read

shifts == <<phase, expected, tally>>
rows   == <<row, shiftOf>>
locks  == <<shareLock, rowLock, saleLock>>
locals == <<req, seen, base, sum>>
vars   == <<shifts, rows, locks, pc, locals>>
-----------------------------------------------------------------------------
NoRequest == [kind |-> "start", total |-> 0, cash |-> 0,
              target |-> None, form |-> None]
NoTally == [sales |-> 0, count |-> 0, voided |-> 0, voids |-> 0]
Tallies == [sales: Int, count: Int, voided: Int, voids: Int]

Steps    == {"create", "insert", "find", "total", "lock", "sum", "commit"}
Terminal == {"done", "failed"}
Active(t) == pc[t] \in Steps
Sales    == {t \in Txs : row[t] \in {"completed", "voided"}}
Open     == {s \in Shifts : phase[s] = "open"}

(* The shift whose totals a transaction updates: a sale's is the one its   *)
(* handler found, a void's the one on the sale's row.                      *)
ShiftFor(t) == IF req[t].kind = "void" THEN shiftOf[req[t].target] ELSE seen[t]

(* loadShiftCashTotalsTx and calculateExpectedCash: opening cash, cash     *)
(* payments of sales not voided, pay-ins less pay-outs. The refunds it     *)
(* subtracts are those of sales with status 'refunded', which no code sets.*)
CashOf(t) ==
  CASE row[t] = "completed" -> req[t].cash
    [] row[t] = "pay_in"    -> req[t].total
    [] row[t] = "pay_out"   -> -req[t].total
    [] OTHER                -> 0
Recorded(s) == {t \in Txs : shiftOf[t] = s}
Drawer(s) == Opening[s] + SumFunction([t \in Recorded(s) |-> CashOf(t)])

(* Mutant: the unique index of migration 056 is not there.                 *)
NoIndex == FALSE
(* idx_shifts_single_open refuses a second open row.                       *)
IndexRefuses == Open # {}

(* Mutant: the void marks the sale refunded, a status of payments.         *)
RowRefunded(t) == [row EXCEPT ![req[t].target] = "refunded"]
(* The row of the sale after its void.                                     *)
RowVoided(t) == [row EXCEPT ![req[t].target] = "voided"]

(* updateShiftSalesTotalsTx and updateShiftVoidTotalsTx.                   *)
NewTally(t) ==
  IF req[t].kind = "void"
    THEN LET amount == req[req[t].target].total IN
         [base[t] EXCEPT !.voided = @ + amount, !.voids = @ + 1]
    ELSE [base[t] EXCEPT !.sales = @ + req[t].total, !.count = @ + 1]

(* Mutant: the totals are updated without keeping the row.                 *)
NoHolders(s) == {}
(* Mutant: the totals are read FOR UPDATE before they are written.         *)
AnyHolders(s) == shareLock[s] \cup ({rowLock[s]} \ {None})
(* What UPDATE shifts waits for: it leaves the key alone, so FOR KEY SHARE *)
(* does not stop it.                                                       *)
UpdateHolders(s) == {rowLock[s]} \ {None}

(* Mutant: CloseShift reads the shift without FOR UPDATE.                  *)
CloseUnlocked(s) == {}
(* What SELECT ... FOR UPDATE waits for.                                   *)
CloseHolders(s) == shareLock[s] \cup ({rowLock[s]} \ {None})

(* What the foreign key check of an insert waits for: FOR UPDATE only.     *)
InsertHolders(s) == {h \in {rowLock[s]} \ {None} : req[h].kind = "close"}

(* Mutant: CloseShift without the conditions on status.                    *)
ClosableAgain(s) == phase[s] # "none"
Closable(s) == phase[s] = "open"
-----------------------------------------------------------------------------
Release(t) ==
  /\ shareLock' = [s \in Shifts |-> shareLock[s] \ {t}]
  /\ rowLock'   = [s \in Shifts |-> IF rowLock[s] = t THEN None ELSE rowLock[s]]
  /\ saleLock'  = [u \in Txs |-> IF saleLock[u] = t THEN None ELSE saleLock[u]]

Goto(t, step) == pc' = [pc EXCEPT ![t] = step]

(* An error, or a lost connection: the deferred rollback.                  *)
Rollback(t) ==
  /\ Goto(t, "failed")
  /\ Release(t)
  /\ UNCHANGED <<shifts, rows, locals>>

(* A handler runs up to its transaction: StartShift finds no open shift;   *)
(* sales, drawer operations and closings find one, and it is the form's if *)
(* the form names one (STALE_SUBMIT otherwise); VoidSale finds the sale.   *)
(* A request refused here leaves no trace.                                 *)
Begin(t) ==
  /\ pc[t] = "idle"
  /\ \E r \in Requests :
       /\ req' = [req EXCEPT ![t] = r]
       /\ \/ /\ r.kind = "start" /\ Open = {}
             /\ UNCHANGED seen
             /\ Goto(t, "create")
          \/ /\ r.kind = "void" /\ r.target \in Sales
             /\ UNCHANGED seen
             /\ Goto(t, "find")
          \/ /\ r.kind \in {"sale", "pay_in", "pay_out", "close"}
             /\ \E s \in Open : /\ r.form \in {None, s}
                                /\ seen' = [seen EXCEPT ![t] = s]
             /\ Goto(t, IF r.kind = "close" THEN "lock" ELSE "insert")
  /\ UNCHANGED <<shifts, rows, locks, base, sum>>

(* ShiftRepository.Create: one INSERT; the index decides.                  *)
CreateShift(t) ==
  /\ pc[t] = "create"
  /\ \/ /\ IndexRefuses
        /\ Rollback(t)
     \/ /\ ~IndexRefuses
        /\ \E s \in Shifts : /\ phase[s] = "none"
                             /\ phase' = [phase EXCEPT ![s] = "open"]
        /\ Goto(t, "done")
        /\ UNCHANGED <<expected, tally, rows, locks, locals>>

(* INSERT INTO sales locks the shift FOR KEY SHARE (foreign key).          *)
InsertSale(t) ==
  LET s == seen[t] IN
  /\ pc[t] = "insert" /\ req[t].kind = "sale"
  /\ InsertHolders(s) = {}
  /\ shareLock' = [shareLock EXCEPT ![s] = @ \cup {t}]
  /\ Goto(t, "total")
  /\ UNCHANGED <<shifts, rows, rowLock, saleLock, locals>>

(* CashDrawerRepository.Create: one INSERT, autocommitted.                 *)
InsertOperation(t) ==
  LET s == seen[t] IN
  /\ pc[t] = "insert" /\ req[t].kind \in {"pay_in", "pay_out"}
  /\ InsertHolders(s) = {}
  /\ row' = [row EXCEPT ![t] = req[t].kind]
  /\ shiftOf' = [shiftOf EXCEPT ![t] = s]
  /\ Goto(t, "done")
  /\ UNCHANGED <<shifts, locks, locals>>

(* VoidSale: SELECT ... FROM sales FOR UPDATE; only a completed sale.      *)
FindSale(t) ==
  LET u == req[t].target IN
  /\ pc[t] = "find"
  /\ saleLock[u] = None
  /\ \/ /\ row[u] # "completed"
        /\ Rollback(t)
     \/ /\ row[u] = "completed"
        /\ saleLock' = [saleLock EXCEPT ![u] = t]
        /\ Goto(t, "total")
        /\ UNCHANGED <<shifts, rows, shareLock, rowLock, locals>>

(* UPDATE shifts SET total = total + $1: whatever the shift's status.      *)
UpdateTotals(t) ==
  LET s == ShiftFor(t) IN
  /\ pc[t] = "total"
  /\ UpdateHolders(s) \ {t} = {}
  /\ rowLock' = [rowLock EXCEPT ![s] = t]
  /\ base' = [base EXCEPT ![t] = tally[s]]
  /\ Goto(t, "commit")
  /\ UNCHANGED <<shifts, rows, shareLock, saleLock, req, seen, sum>>

(* COMMIT of a sale or a void.                                             *)
Commit(t) ==
  LET s == ShiftFor(t) IN
  /\ pc[t] = "commit" /\ req[t].kind \in {"sale", "void"}
  /\ tally' = [tally EXCEPT ![s] = NewTally(t)]
  /\ IF req[t].kind = "sale"
       THEN /\ row' = [row EXCEPT ![t] = "completed"]
            /\ shiftOf' = [shiftOf EXCEPT ![t] = s]
       ELSE /\ row' = RowVoided(t)
            /\ UNCHANGED shiftOf
  /\ Goto(t, "done")
  /\ Release(t)
  /\ UNCHANGED <<phase, expected, locals>>

(* CloseShift: SELECT opening_cash WHERE status = 'open' FOR UPDATE finds  *)
(* no row, and waits for none, when the shift is closed.                   *)
LockShift(t) ==
  LET s == seen[t] IN
  /\ pc[t] = "lock"
  /\ \/ /\ ~Closable(s)
        /\ Rollback(t)
     \/ /\ Closable(s)
        /\ CloseHolders(s) = {}
        /\ rowLock' = [rowLock EXCEPT ![s] = t]
        /\ Goto(t, "sum")
        /\ UNCHANGED <<shifts, rows, shareLock, saleLock, locals>>

(* The next statement, in a snapshot of its own.                           *)
SumCash(t) ==
  /\ pc[t] = "sum"
  /\ sum' = [sum EXCEPT ![t] = Drawer(seen[t])]
  /\ Goto(t, "commit")
  /\ UNCHANGED <<shifts, rows, locks, req, seen, base>>

(* UPDATE shifts SET status = 'closed' WHERE status = 'open', and COMMIT.  *)
CloseShift(t) ==
  LET s == seen[t] IN
  /\ pc[t] = "commit" /\ req[t].kind = "close"
  /\ \/ /\ ~Closable(s)
        /\ Rollback(t)
     \/ /\ Closable(s)
        /\ phase' = [phase EXCEPT ![s] = "closed"]
        /\ expected' = [expected EXCEPT ![s] = sum[t]]
        /\ Goto(t, "done")
        /\ Release(t)
        /\ UNCHANGED <<tally, rows, locals>>

Fail(t) == Active(t) /\ Rollback(t)
-----------------------------------------------------------------------------
Init ==
  /\ phase = [s \in Shifts |-> "none"]
  /\ expected = [s \in Shifts |-> 0]
  /\ tally = [s \in Shifts |-> NoTally]
  /\ row = [t \in Txs |-> "none"]
  /\ shiftOf = [t \in Txs |-> None]
  /\ shareLock = [s \in Shifts |-> {}]
  /\ rowLock = [s \in Shifts |-> None]
  /\ saleLock = [t \in Txs |-> None]
  /\ pc = [t \in Txs |-> "idle"]
  /\ req = [t \in Txs |-> NoRequest]
  /\ seen = [t \in Txs |-> None]
  /\ base = [t \in Txs |-> NoTally]
  /\ sum = [t \in Txs |-> 0]

Next == \E t \in Txs :
  \/ Begin(t) \/ CreateShift(t) \/ InsertSale(t) \/ InsertOperation(t)
  \/ FindSale(t) \/ UpdateTotals(t) \/ Commit(t)
  \/ LockShift(t) \/ SumCash(t) \/ CloseShift(t) \/ Fail(t)

Spec == Init /\ [][Next]_vars
-----------------------------------------------------------------------------
TypeOK ==
  /\ phase \in [Shifts -> {"none", "open", "closed"}]
  /\ expected \in [Shifts -> Int]
  /\ tally \in [Shifts -> Tallies]
  /\ row \in [Txs -> {"none", "completed", "voided", "pay_in", "pay_out"}]
  /\ shiftOf \in [Txs -> Shifts \cup {None}]
  /\ shareLock \in [Shifts -> SUBSET Txs]
  /\ rowLock \in [Shifts -> Txs \cup {None}]
  /\ saleLock \in [Txs -> Txs \cup {None}]
  /\ pc \in [Txs -> {"idle"} \cup Steps \cup Terminal]
  /\ req \in [Txs -> Requests \cup {NoRequest}]
  /\ seen \in [Txs -> Shifts \cup {None}]
  /\ base \in [Txs -> Tallies]
  /\ sum \in [Txs -> Int]

(* Two StartShift requests that both found no open shift, or one that      *)
(* races a closing, never leave two shifts open (README: single-open-shift *)
(* enforcement).                                                           *)
OneOpenShift == \A s, u \in Open : s = u

(* The expected cash a closing stores is the cash on the shift at the      *)
(* moment it closes: nothing recorded on it between the reading of the     *)
(* totals and the commit is missed.                                        *)
ExpectedCashExact ==
  [][\A s \in Shifts : (phase[s] = "open" /\ phase'[s] = "closed")
                         => expected'[s] = Drawer(s)]_vars

(* A closed shift is final: a closing that waited behind another one       *)
(* neither closes it again nor stores another expected cash.               *)
ClosedIsFinal ==
  [][\A s \in Shifts : phase[s] = "closed"
       => phase'[s] = "closed" /\ expected'[s] = expected[s]]_vars

TotalOf(sales) == SumFunction([t \in sales |-> req[t].total])
(* The totals kept on a shift are those of its sales, whatever sales and   *)
(* voids overlap: no increment is lost and no void counted twice.          *)
TalliesMatchSales ==
  \A s \in Shifts :
    LET sold   == Sales \cap Recorded(s)
        voided == {t \in sold : row[t] = "voided"}
    IN tally[s] = [sales  |-> TotalOf(sold),
                   count  |-> Cardinality(sold),
                   voided |-> TotalOf(voided),
                   voids  |-> Cardinality(voided)]

(* The transactions a transaction waits for.                               *)
Blockers(t) ==
  CASE pc[t] = "insert" -> InsertHolders(seen[t]) \ {t}
    [] pc[t] = "find"   -> {saleLock[req[t].target]} \ {None, t}
    [] pc[t] = "total"  -> UpdateHolders(ShiftFor(t)) \ {t}
    [] pc[t] = "lock"   -> CloseHolders(seen[t]) \ {t}
    [] OTHER            -> {}

(* Sales that share the shift's row and then update it, voids and closings *)
(* never wait for one another in a circle.                                 *)
NoDeadlock ==
  \A S \in SUBSET Txs : S # {} => \E t \in S : Blockers(t) \cap S = {}

(* "tied to the active shift", "You must start a shift before processing   *)
(* sales": what is recorded on a shift is recorded while it is open        *)
(* (recordCashDrawerOperation, validateSaleShift).                         *)
RecordedWhileOpen ==
  [][\A t \in Txs : (row[t] = "none" /\ row'[t] # "none")
                      => phase[shiftOf'[t]] = "open"]_vars
=============================================================================
