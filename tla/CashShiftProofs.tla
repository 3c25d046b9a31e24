--------------------------- MODULE CashShiftProofs ---------------------------
(***************************************************************************)
(* Machine-checked theorems about CashShift.tla, for any number of shifts  *)
(* and request slots and any menu of requests.                             *)
(***************************************************************************)
EXTENDS CashShift, SumTheorems, TLAPS

(* The types but for the numbers, whose steps need the rest of IInv: see   *)
(* Numbers below.                                                          *)
Keyed(f, D) == f = [x \in D |-> f[x]]
Shape ==
  /\ phase \in [Shifts -> {"none", "open", "closed"}]
  /\ Keyed(expected, Shifts) /\ Keyed(sum, Txs)
  /\ row \in [Txs -> {"none", "completed", "voided", "pay_in", "pay_out"}]
  /\ shiftOf \in [Txs -> Shifts \cup {None}]
  /\ shareLock \in [Shifts -> SUBSET Txs]
  /\ rowLock \in [Shifts -> Txs \cup {None}]
  /\ saleLock \in [Txs -> Txs \cup {None}]
  /\ pc \in [Txs -> {"idle"} \cup Steps \cup Terminal]
  /\ req \in [Txs -> Request]
  /\ seen \in [Txs -> Shifts \cup {None}]

(* A slot has a row only once it is done, and a row is always on a shift.  *)
Fresh ==
  \A t \in Txs : /\ pc[t] # "done" => row[t] = "none" /\ shiftOf[t] = None
                 /\ row[t] # "none" => shiftOf[t] \in Shifts
                 /\ shiftOf[t] \in Shifts => row[t] # "none"

(* What a program counter says of the request that is there.               *)
ControlOf(t) ==
  LET k == req[t].kind IN
  /\ pc[t] = "insert" => k \in {"sale", "pay_in", "pay_out"}
  /\ pc[t] \in {"lock", "sum"} => k = "close"
  /\ pc[t] = "find" => k = "void"
  /\ pc[t] = "total" => k \in {"sale", "void"}
  /\ pc[t] = "commit" => k \in {"sale", "void", "close"}
  /\ (pc[t] \in Steps /\ k \notin {"start", "void"}) => seen[t] \in Shifts
  /\ pc[t] = "create" => k = "start"
  /\ (pc[t] \in Steps /\ k = "void")
       => req[t].target \in Txs /\ row[req[t].target] \in {"completed", "voided"}
Control == \A t \in Txs : ControlOf(t)

(* Where the holder of a lock can be: a transaction that has locked a      *)
(* shift's row waits for nothing any more, one that has locked a sale or   *)
(* shares a shift's row waits at most for that row.                        *)
Holders ==
  /\ \A s \in Shifts : rowLock[s] \in Txs => pc[rowLock[s]] \in {"sum", "commit"}
  /\ \A s \in Shifts : \A t \in shareLock[s] : pc[t] \in {"total", "commit"}
  /\ \A u \in Txs : saleLock[u] \in Txs => pc[saleLock[u]] \in {"total", "commit"}
  /\ \A t \in Txs : pc[t] \in {"sum", "commit"} =>
       rowLock[IF req[t].kind = "close" THEN seen[t] ELSE ShiftFor(t)] = t

(* What a closing has counted stays what is on its shift.                  *)
CountStands ==
  \A t \in Txs : (pc[t] = "commit" /\ req[t].kind = "close")
                   => sum[t] = Drawer(seen[t])

IInv == Shape /\ Fresh /\ Control /\ Holders /\ CountStands
-----------------------------------------------------------------------------
LEMMA RequestType ==
  ASSUME NEW r \in Requests
  PROVE  /\ r \in Request /\ r.kind \in Kinds
         /\ r.target \in Txs \cup {None}
         /\ r.kind = "void" => r.target \in Txs
BY RequestsAssumption DEF Request

(* The cash on a shift depends on the rows of that shift only.             *)
LEMMA DrawerStable ==
  ASSUME NEW s \in Shifts,
         Recorded(s)' = Recorded(s),
         \A t \in Recorded(s) : CashOf(t)' = CashOf(t)
  PROVE  Drawer(s)' = Drawer(s)
<1>1. [t \in Recorded(s)' |-> CashOf(t)'] = [t \in Recorded(s) |-> CashOf(t)]
  OBVIOUS
<1> QED BY <1>1 DEF Drawer

LEMMA InitIInv == Init => IInv
<1> SUFFICES ASSUME Init PROVE IInv
  OBVIOUS
<1> USE ConstantsAssumption DEF Init
<1>1. NoRequest \in Request
  BY DEF NoRequest, Request, Kinds
<1>2. Shape
  BY <1>1 DEF Shape, Keyed, Steps, Terminal
<1>3. Fresh /\ Control /\ Holders /\ CountStands
  BY DEF Fresh, Control, ControlOf, Holders, CountStands, Steps
<1> QED BY <1>2, <1>3 DEF IInv

(* A rollback leaves the rows alone and frees what the transaction held.   *)
LEMMA RollbackIInv ==
  ASSUME IInv, NEW t \in Txs, pc[t] \in Steps, Rollback(t)
  PROVE  IInv'
<1> USE ConstantsAssumption
<1>1. pc' = [pc EXCEPT ![t] = "failed"] /\ UNCHANGED <<shifts, rows, locals>>
  BY DEF Rollback, Goto
<1>2. Shape'
  BY <1>1 DEF IInv, Shape, Rollback, Release, Keyed, shifts, rows, locals, Terminal
<1>3. Fresh'
  BY <1>1 DEF IInv, Shape, Fresh, rows, Steps
<1>4. Control'
  BY <1>1 DEF IInv, Shape, Control, ControlOf, rows, locals, Steps
<1>5. Holders'
  BY <1>1 DEF IInv, Shape, Holders, Control, ControlOf, Fresh, Rollback, Release, ShiftFor, rows, locals, Steps
<1>6. CountStands'
  <2> SUFFICES ASSUME NEW u \in Txs, (pc[u] = "commit" /\ req[u].kind = "close")'
               PROVE  (sum[u] = Drawer(seen[u]))'
    BY DEF CountStands
  <2>1. pc[u] = "commit" /\ req[u].kind = "close" /\ seen[u] \in Shifts
    BY <1>1 DEF IInv, Shape, Control, ControlOf, locals, Steps
  <2>2. Drawer(seen[u])' = Drawer(seen[u])
    BY <1>1 DEF Drawer, Recorded, CashOf, rows, locals
  <2> QED BY <1>1, <2>1, <2>2 DEF IInv, CountStands, locals
<1> QED BY <1>2, <1>3, <1>4, <1>5, <1>6 DEF IInv

(* A step that changes no row and no request, and finishes no counting,    *)
(* keeps every count.                                                      *)
LEMMA CountKept ==
  ASSUME IInv, UNCHANGED <<rows, req, seen, sum>>,
         \A u \in Txs : (pc'[u] = "commit" /\ req[u].kind = "close") => pc[u] = "commit"
  PROVE  CountStands'
<1> SUFFICES ASSUME NEW u \in Txs, (pc[u] = "commit" /\ req[u].kind = "close")'
             PROVE  (sum[u] = Drawer(seen[u]))'
  BY DEF CountStands
<1>1. pc[u] = "commit" /\ req[u].kind = "close"
  OBVIOUS
<1>2. Drawer(seen[u])' = Drawer(seen[u])
  BY DEF Drawer, Recorded, CashOf, rows
<1> QED BY <1>1, <1>2 DEF IInv, CountStands

LEMMA BeginIInv ==
  ASSUME IInv, NEW t \in Txs, Begin(t)
  PROVE  IInv'
<1> USE ConstantsAssumption
<1>1. PICK r \in Requests :
        /\ req' = [req EXCEPT ![t] = r]
        /\ \/ /\ r.kind = "start" /\ UNCHANGED seen
              /\ pc' = [pc EXCEPT ![t] = "create"]
           \/ /\ r.kind = "void" /\ r.target \in Sales
              /\ UNCHANGED seen
              /\ pc' = [pc EXCEPT ![t] = "find"]
           \/ /\ r.kind \in {"sale", "pay_in", "pay_out", "close"}
              /\ \E s \in Open : seen' = [seen EXCEPT ![t] = s]
              /\ pc' = [pc EXCEPT ![t] = IF r.kind = "close" THEN "lock" ELSE "insert"]
  BY Zenon DEF Begin, Goto
<1>2. r \in Request /\ r.target \in Txs \cup {None}
  BY RequestType
<1>3. pc[t] = "idle" /\ UNCHANGED <<shifts, rows, locks, base, sum>>
  BY DEF Begin
<1>4. Shape'
  BY <1>1, <1>2, <1>3 DEF IInv, Shape, Keyed, shifts, rows, locks, Steps, Open
<1>5. Fresh'
  BY <1>1, <1>3 DEF IInv, Shape, Fresh, rows
<1>6. Control'
  <2> SUFFICES ASSUME NEW u \in Txs PROVE ControlOf(u)'
    BY DEF Control
  <2>1. CASE u = t
    BY <2>1, <1>1, <1>2, <1>3 DEF IInv, Shape, ControlOf, rows, Steps, Open, Sales
  <2>2. CASE u # t
    BY <2>2, <1>1, <1>3 DEF IInv, Shape, Control, ControlOf, rows, Steps
  <2> QED BY <2>1, <2>2
<1>7. Holders'
  <2>1. \A u \in Txs : pc'[u] \in {"sum", "commit"} => u # t /\ pc[u] = pc'[u]
    BY <1>1, <1>3 DEF IInv, Shape
  <2>2. \A u \in Txs : u # t => req'[u] = req[u] /\ seen'[u] = seen[u]
    BY <1>1 DEF IInv, Shape
  <2>3. \A u \in Txs : pc[u] \in {"sum", "total", "commit"} => pc'[u] = pc[u]
    BY <1>1, <1>3 DEF IInv, Shape
  <2> QED BY <1>3, <2>1, <2>2, <2>3 DEF IInv, Shape, Holders, ShiftFor, rows, locks
<1>8. CountStands'
  <2> SUFFICES ASSUME NEW u \in Txs, (pc[u] = "commit" /\ req[u].kind = "close")'
               PROVE  (sum[u] = Drawer(seen[u]))'
    BY DEF CountStands
  <2>1. u # t /\ pc[u] = "commit" /\ req[u].kind = "close" /\ seen'[u] = seen[u]
    BY <1>1, <1>3 DEF IInv, Shape
  <2>2. seen[u] \in Shifts
    BY <2>1 DEF IInv, Control, ControlOf, Steps
  <2>3. Recorded(seen[u])' = Recorded(seen[u])
    BY <1>3, <2>1 DEF Recorded, rows
  <2>4. \A v \in Recorded(seen[u]) : v # t
    BY <1>3, <2>2 DEF IInv, Fresh, Recorded
  <2>5. \A v \in Recorded(seen[u]) : CashOf(v)' = CashOf(v)
    BY <1>1, <1>3, <2>4 DEF IInv, Shape, CashOf, Recorded, rows
  <2>6. Drawer(seen[u])' = Drawer(seen[u])
    <3>1. \A s \in Shifts : s = seen[u] => Drawer(s)' = Drawer(s)
      BY <2>3, <2>5, <2>1, DrawerStable DEF Recorded, rows
    <3> QED BY <2>1, <2>2, <2>3, <2>5, <3>1, Zenon DEF Drawer
  <2> QED BY <1>3, <2>1, <2>6 DEF IInv, CountStands
<1> QED BY <1>4, <1>5, <1>6, <1>7, <1>8 DEF IInv

LEMMA CreateIInv ==
  ASSUME IInv, NEW t \in Txs, CreateShift(t)
  PROVE  IInv'
<1> USE ConstantsAssumption
<1>1. CASE IndexRefuses /\ Rollback(t)
  BY <1>1, RollbackIInv DEF CreateShift, Steps
<1>2. CASE /\ \E s \in Shifts : phase[s] = "none" /\ phase' = [phase EXCEPT ![s] = "open"]
           /\ pc' = [pc EXCEPT ![t] = "done"]
           /\ UNCHANGED <<expected, tally, rows, locks, locals>>
  <2>1. pc[t] = "create"
    BY DEF CreateShift
  <2>2. Shape' /\ Fresh'
    BY <1>2, <2>1 DEF IInv, Shape, Fresh, Keyed, rows, locks, locals, Terminal
  <2>3. Control'
    BY <1>2, <2>1 DEF IInv, Shape, Control, ControlOf, rows, locals, Steps
  <2>4. Holders'
    BY <1>2, <2>1 DEF IInv, Shape, Holders, ShiftFor, rows, locks, locals
  <2>5. CountStands'
    BY <1>2, <2>1, CountKept DEF IInv, Shape, locals
  <2> QED BY <2>2, <2>3, <2>4, <2>5 DEF IInv
<1> QED BY <1>1, <1>2 DEF CreateShift, Goto

LEMMA InsertSaleIInv ==
  ASSUME IInv, NEW t \in Txs, InsertSale(t)
  PROVE  IInv'
<1> USE ConstantsAssumption
<1> DEFINE s == seen[t]
<1>1. /\ pc[t] = "insert" /\ req[t].kind = "sale"
      /\ shareLock' = [shareLock EXCEPT ![s] = @ \cup {t}]
      /\ pc' = [pc EXCEPT ![t] = "total"]
      /\ UNCHANGED <<shifts, rows, rowLock, saleLock, locals>>
  BY DEF InsertSale, Goto
<1>2. s \in Shifts
  BY <1>1 DEF IInv, Control, ControlOf, Steps
<1>3. Shape' /\ Fresh'
  BY <1>1, <1>2 DEF IInv, Shape, Fresh, Keyed, shifts, rows, locals, Steps
<1>4. Control'
  BY <1>1 DEF IInv, Shape, Control, ControlOf, rows, locals, Steps
<1>5. Holders'
  BY <1>1, <1>2 DEF IInv, Shape, Holders, ShiftFor, rows, locals
<1>6. CountStands'
  BY <1>1, CountKept DEF IInv, Shape, locals
<1> QED BY <1>3, <1>4, <1>5, <1>6 DEF IInv

(* No closing has counted yet: the insert would wait for it.               *)
LEMMA InsertOperationIInv ==
  ASSUME IInv, NEW t \in Txs, InsertOperation(t)
  PROVE  IInv'
<1> USE ConstantsAssumption
<1> DEFINE s == seen[t]
<1>1. /\ pc[t] = "insert" /\ req[t].kind \in {"pay_in", "pay_out"}
      /\ InsertHolders(s) = {}
      /\ row' = [row EXCEPT ![t] = req[t].kind]
      /\ shiftOf' = [shiftOf EXCEPT ![t] = s]
      /\ pc' = [pc EXCEPT ![t] = "done"]
      /\ UNCHANGED <<shifts, locks, locals>>
  BY DEF InsertOperation, Goto
<1>2. s \in Shifts
  BY <1>1 DEF IInv, Control, ControlOf, Steps
<1>3. row[t] = "none" /\ shiftOf[t] = None
  BY <1>1 DEF IInv, Fresh
<1>4. Shape'
  BY <1>1, <1>2 DEF IInv, Shape, Keyed, shifts, locks, locals, Terminal
<1>5. Fresh'
  BY <1>1, <1>2 DEF IInv, Shape, Fresh
<1>6. Control'
  BY <1>1, <1>3 DEF IInv, Shape, Control, ControlOf, locals, Steps
<1>7. Holders'
  <2>1. \A u \in Txs : pc[u] \in {"sum", "total", "commit"} <=> pc'[u] \in {"sum", "total", "commit"}
    BY <1>1 DEF IInv, Shape
  <2>2. \A u \in Txs : pc[u] # pc'[u] => u = t
    BY <1>1 DEF IInv, Shape
  <2>3. \A u \in Txs : pc[u] = "commit" /\ req[u].kind = "void" => req[u].target # t
    BY <1>3 DEF IInv, Control, ControlOf, Steps
  <2>4. \A u \in Txs : pc[u] \in {"sum", "commit"} /\ req[u].kind # "close" => ShiftFor(u)' = ShiftFor(u)
    BY <1>1, <2>3 DEF IInv, Shape, Control, ControlOf, ShiftFor, locals, Steps
  <2> QED BY <1>1, <2>1, <2>2, <2>4 DEF IInv, Shape, Holders, locks, locals
<1>8. CountStands'
  <2> SUFFICES ASSUME NEW u \in Txs, (pc[u] = "commit" /\ req[u].kind = "close")'
               PROVE  (sum[u] = Drawer(seen[u]))'
    BY DEF CountStands
  <2>1. u # t /\ pc[u] = "commit" /\ req[u].kind = "close" /\ seen'[u] = seen[u]
    BY <1>1 DEF IInv, Shape, locals
  <2>2. rowLock[seen[u]] = u /\ seen[u] \in Shifts
    BY <2>1 DEF IInv, Holders, Control, ControlOf, Steps
  <2>3. seen[u] # s
    BY <1>1, <2>1, <2>2 DEF InsertHolders
  <2>4. Recorded(seen[u])' = Recorded(seen[u])
    BY <1>1, <1>3, <2>1, <2>2, <2>3 DEF IInv, Shape, Recorded
  <2>5. \A v \in Recorded(seen[u]) : CashOf(v)' = CashOf(v)
    BY <1>1, <1>3, <2>2 DEF IInv, Shape, CashOf, Recorded, locals
  <2>6. Drawer(seen[u])' = Drawer(seen[u])
    BY <2>1, <2>4, <2>5, Zenon DEF Drawer
  <2> QED BY <1>1, <2>1, <2>6 DEF IInv, CountStands, locals
<1> QED BY <1>4, <1>5, <1>6, <1>7, <1>8 DEF IInv

LEMMA FindIInv ==
  ASSUME IInv, NEW t \in Txs, FindSale(t)
  PROVE  IInv'
<1> USE ConstantsAssumption
<1> DEFINE u == req[t].target
<1>1. CASE Rollback(t)
  BY <1>1, RollbackIInv DEF FindSale, Steps
<1>2. CASE /\ saleLock' = [saleLock EXCEPT ![u] = t]
           /\ pc' = [pc EXCEPT ![t] = "total"]
           /\ UNCHANGED <<shifts, rows, shareLock, rowLock, locals>>
  <2>1. pc[t] = "find" /\ req[t].kind = "void" /\ u \in Txs
    BY DEF FindSale, IInv, Control, ControlOf, Steps
  <2>2. Shape' /\ Fresh'
    BY <1>2, <2>1 DEF IInv, Shape, Fresh, Keyed, shifts, rows, locals, Steps
  <2>3. Control'
    BY <1>2, <2>1 DEF IInv, Shape, Control, ControlOf, rows, locals, Steps
  <2>4. Holders'
    BY <1>2, <2>1 DEF IInv, Shape, Holders, ShiftFor, rows, locals
  <2>5. CountStands'
    BY <1>2, <2>1, CountKept DEF IInv, Shape, locals
  <2> QED BY <2>2, <2>3, <2>4, <2>5 DEF IInv
<1> QED BY <1>1, <1>2 DEF FindSale, Goto

LEMMA UpdateTotalsIInv ==
  ASSUME IInv, NEW t \in Txs, UpdateTotals(t)
  PROVE  IInv'
<1> USE ConstantsAssumption
<1> DEFINE s == ShiftFor(t)
<1>1. /\ pc[t] = "total"
      /\ rowLock[s] \in {None, t}
      /\ rowLock' = [rowLock EXCEPT ![s] = t]
      /\ pc' = [pc EXCEPT ![t] = "commit"]
      /\ UNCHANGED <<shifts, rows, shareLock, saleLock, req, seen, sum>>
  BY DEF UpdateTotals, Goto, UpdateHolders
<1>2. s \in Shifts /\ req[t].kind \in {"sale", "void"}
  BY <1>1 DEF IInv, Fresh, Control, ControlOf, ShiftFor, Steps
<1>3. Shape' /\ Fresh'
  BY <1>1, <1>2 DEF IInv, Shape, Fresh, Keyed, shifts, rows, Steps
<1>4. Control'
  BY <1>1, <1>2 DEF IInv, Shape, Control, ControlOf, rows, Steps
<1>5. Holders'
  <2>1. \A u \in Txs : ShiftFor(u)' = ShiftFor(u)
    BY <1>1 DEF ShiftFor, rows
  <2>2. rowLock[s] # t
    BY <1>1, <1>2 DEF IInv, Holders
  <2> QED BY <1>1, <1>2, <2>1, <2>2 DEF IInv, Shape, Holders
<1>6. CountStands'
  BY <1>1, <1>2, CountKept DEF IInv, Shape
<1> QED BY <1>3, <1>4, <1>5, <1>6 DEF IInv

(* A commit changes rows of the one shift whose row it holds, so no        *)
(* closing is counting that shift.                                         *)
LEMMA CommitIInv ==
  ASSUME IInv, NEW t \in Txs, Commit(t)
  PROVE  IInv'
<1> USE ConstantsAssumption
<1> DEFINE s == ShiftFor(t)
           u == IF req[t].kind = "sale" THEN t ELSE req[t].target
<1>1. /\ pc[t] = "commit" /\ req[t].kind \in {"sale", "void"}
      /\ pc' = [pc EXCEPT ![t] = "done"]
      /\ Release(t)
      /\ UNCHANGED <<phase, expected, locals>>
  BY DEF Commit, Goto
<1>2. u \in Txs /\ s \in Shifts
  BY <1>1 DEF IInv, Fresh, Control, ControlOf, ShiftFor, Steps
<1>3. /\ row' = [row EXCEPT ![u] = IF req[t].kind = "sale" THEN "completed" ELSE "voided"]
      /\ shiftOf' = IF req[t].kind = "sale" THEN [shiftOf EXCEPT ![t] = s] ELSE shiftOf
  BY <1>1 DEF Commit, RowVoided
<1>4. shiftOf[u] \in {None, s} /\ shiftOf'[u] = s
  BY <1>1, <1>2, <1>3 DEF IInv, Shape, Fresh, ShiftFor
<1>5. pc[u] \in {"commit", "done"}
  BY <1>1, <1>2 DEF IInv, Fresh, Control, ControlOf, Steps
<1>6. Shape'
  BY <1>1, <1>2, <1>3 DEF IInv, Shape, Keyed, Release, locals, Terminal
<1>7. Fresh'
  <2> SUFFICES ASSUME NEW v \in Txs
               PROVE  /\ pc'[v] # "done" => row'[v] = "none" /\ shiftOf'[v] = None
                      /\ row'[v] # "none" => shiftOf'[v] \in Shifts
                      /\ shiftOf'[v] \in Shifts => row'[v] # "none"
    BY DEF Fresh
  <2>1. CASE v = u
    <3>1. pc'[u] = "done"
      BY <1>1, <1>2 DEF IInv, Shape, Control, ControlOf, Fresh, Steps
    <3> QED BY <2>1, <3>1, <1>2, <1>3, <1>4 DEF IInv, Shape
  <2>2. CASE v # u
    <3>1. pc'[v] # "done" => pc[v] # "done"
      BY <1>1 DEF IInv, Shape
    <3>2. row'[v] = row[v] /\ shiftOf'[v] = shiftOf[v]
      BY <2>2, <1>3, <1>2 DEF IInv, Shape
    <3> QED BY <3>1, <3>2 DEF IInv, Fresh
  <2> QED BY <2>1, <2>2
<1>8. Control'
  BY <1>1, <1>2, <1>3 DEF IInv, Shape, Control, ControlOf, locals, Steps
<1>9. Holders'
  <2>1. \A v \in Txs : v # t => pc'[v] = pc[v]
    BY <1>1 DEF IInv, Shape
  <2>2. /\ \A x \in Shifts : rowLock'[x] \in Txs => rowLock'[x] = rowLock[x] /\ rowLock[x] # t
        /\ \A x \in Shifts : shareLock'[x] = shareLock[x] \ {t}
        /\ \A x \in Txs : saleLock'[x] \in Txs => saleLock'[x] = saleLock[x] /\ saleLock[x] # t
        /\ \A x \in Shifts : rowLock[x] # t => rowLock'[x] = rowLock[x]
    BY <1>1 DEF IInv, Shape, Release
  <2>3. \A v \in Txs : pc'[v] \in {"sum", "commit"} => v # t /\ pc[v] = pc'[v]
    BY <1>1, <2>1 DEF IInv, Shape
  <2>4. \A v \in Txs : (pc[v] = "commit" /\ req[v].kind = "void") => shiftOf'[req[v].target] = shiftOf[req[v].target]
    BY <1>1, <1>3, <1>2 DEF IInv, Shape, Fresh, Control, ControlOf, Steps
  <2>5. \A v \in Txs : (pc[v] \in {"sum", "commit"} /\ req[v].kind # "close") => ShiftFor(v)' = ShiftFor(v)
    BY <1>1, <2>4 DEF IInv, Control, ControlOf, ShiftFor, locals, Steps
  <2>6. \A v \in Txs : pc'[v] \in {"sum", "commit"} =>
           rowLock'[IF req[v].kind = "close" THEN seen[v] ELSE ShiftFor(v)] = v
    <3> SUFFICES ASSUME NEW v \in Txs, pc'[v] \in {"sum", "commit"}
                 PROVE  rowLock'[IF req[v].kind = "close" THEN seen[v] ELSE ShiftFor(v)] = v
      OBVIOUS
    <3> DEFINE x == IF req[v].kind = "close" THEN seen[v] ELSE ShiftFor(v)
    <3>1. v # t /\ rowLock[x] = v
      BY <2>3 DEF IInv, Holders
    <3>2. x \in Shifts
      BY <2>3 DEF IInv, Fresh, Control, ControlOf, ShiftFor, Steps
    <3> QED BY <3>1, <3>2, <2>2
  <2>7. \A v \in Txs : pc'[v] \in {"sum", "commit"} =>
           rowLock'[IF req'[v].kind = "close" THEN seen'[v] ELSE ShiftFor(v)'] = v
    BY <1>1, <2>3, <2>5, <2>6 DEF locals
  <2>8. \A x \in Shifts : rowLock'[x] \in Txs => pc'[rowLock'[x]] \in {"sum", "commit"}
    BY <2>1, <2>2 DEF IInv, Holders
  <2>9. \A x \in Shifts : \A v \in shareLock'[x] : pc'[v] \in {"total", "commit"}
    BY <2>1, <2>2 DEF IInv, Shape, Holders
  <2>10. \A x \in Txs : saleLock'[x] \in Txs => pc'[saleLock'[x]] \in {"total", "commit"}
    BY <2>1, <2>2 DEF IInv, Holders
  <2> QED BY <2>7, <2>8, <2>9, <2>10 DEF Holders
<1>10. CountStands'
  <2> SUFFICES ASSUME NEW v \in Txs, (pc[v] = "commit" /\ req[v].kind = "close")'
               PROVE  (sum[v] = Drawer(seen[v]))'
    BY DEF CountStands
  <2>1. v # t /\ pc[v] = "commit" /\ req[v].kind = "close" /\ seen'[v] = seen[v]
    BY <1>1 DEF IInv, Shape, locals
  <2>2. rowLock[seen[v]] = v /\ seen[v] \in Shifts
    BY <2>1 DEF IInv, Holders, Control, ControlOf, Steps
  <2>3. seen[v] # s
    BY <1>1, <2>1, <2>2 DEF IInv, Holders
  <2>4. Recorded(seen[v])' = Recorded(seen[v]) /\ u \notin Recorded(seen[v])
    BY <1>2, <1>3, <1>4, <2>1, <2>2, <2>3 DEF IInv, Shape, Recorded
  <2>5. \A w \in Recorded(seen[v]) : CashOf(w)' = CashOf(w)
    BY <1>1, <1>2, <1>3, <2>4 DEF IInv, Shape, CashOf, Recorded, locals
  <2>6. Drawer(seen[v])' = Drawer(seen[v])
    BY <2>1, <2>4, <2>5, Zenon DEF Drawer
  <2> QED BY <1>1, <2>1, <2>6 DEF IInv, CountStands, locals
<1> QED BY <1>6, <1>7, <1>8, <1>9, <1>10 DEF IInv

LEMMA LockIInv ==
  ASSUME IInv, NEW t \in Txs, LockShift(t)
  PROVE  IInv'
<1> USE ConstantsAssumption
<1> DEFINE s == seen[t]
<1>1. CASE Rollback(t)
  BY <1>1, RollbackIInv DEF LockShift, Steps
<1>2. CASE /\ CloseHolders(s) = {}
           /\ rowLock' = [rowLock EXCEPT ![s] = t]
           /\ pc' = [pc EXCEPT ![t] = "sum"]
           /\ UNCHANGED <<shifts, rows, shareLock, saleLock, locals>>
  <2>1. pc[t] = "lock" /\ req[t].kind = "close" /\ s \in Shifts
    BY DEF LockShift, IInv, Control, ControlOf, Steps
  <2>2. Shape' /\ Fresh'
    BY <1>2, <2>1 DEF IInv, Shape, Fresh, Keyed, shifts, rows, locals, Steps
  <2>3. Control'
    BY <1>2, <2>1 DEF IInv, Shape, Control, ControlOf, rows, locals, Steps
  <2>4. Holders'
    <3>1. \A v \in Txs : ShiftFor(v)' = ShiftFor(v)
      BY <1>2 DEF ShiftFor, rows, locals
    <3>2. rowLock[s] \notin Txs
      BY <1>2, <2>1 DEF IInv, Shape, CloseHolders
    <3> QED BY <1>2, <2>1, <3>1, <3>2 DEF IInv, Shape, Holders, locals
  <2>5. CountStands'
    BY <1>2, <2>1, CountKept DEF IInv, Shape, locals
  <2> QED BY <2>2, <2>3, <2>4, <2>5 DEF IInv
<1> QED BY <1>1, <1>2 DEF LockShift, Goto

LEMMA SumIInv ==
  ASSUME IInv, NEW t \in Txs, SumCash(t)
  PROVE  IInv'
<1> USE ConstantsAssumption
<1>1. /\ pc[t] = "sum" /\ sum' = [sum EXCEPT ![t] = Drawer(seen[t])]
      /\ pc' = [pc EXCEPT ![t] = "commit"]
      /\ UNCHANGED <<shifts, rows, locks, req, seen, base>>
  BY DEF SumCash, Goto
<1>2. req[t].kind = "close" /\ seen[t] \in Shifts
  BY <1>1 DEF IInv, Control, ControlOf, Steps
<1>3. Shape' /\ Fresh'
  BY <1>1 DEF IInv, Shape, Fresh, Keyed, shifts, rows, locks, Steps
<1>4. Control'
  BY <1>1, <1>2 DEF IInv, Shape, Control, ControlOf, rows, Steps
<1>5. Holders'
  <2>1. \A v \in Txs : ShiftFor(v)' = ShiftFor(v)
    BY <1>1 DEF ShiftFor, rows
  <2> QED BY <1>1, <2>1 DEF IInv, Shape, Holders, locks
<1>6. CountStands'
  <2> SUFFICES ASSUME NEW v \in Txs, (pc[v] = "commit" /\ req[v].kind = "close")'
               PROVE  (sum[v] = Drawer(seen[v]))'
    BY DEF CountStands
  <2>1. Drawer(seen[v])' = Drawer(seen[v])
    BY <1>1 DEF Drawer, Recorded, CashOf, rows
  <2>2. CASE v = t
    BY <2>1, <2>2, <1>1 DEF IInv, Shape, Keyed
  <2>3. CASE v # t
    BY <2>1, <2>3, <1>1 DEF IInv, Shape, Keyed, CountStands
  <2> QED BY <2>2, <2>3
<1> QED BY <1>3, <1>4, <1>5, <1>6 DEF IInv

LEMMA CloseIInv ==
  ASSUME IInv, NEW t \in Txs, CloseShift(t)
  PROVE  IInv'
<1> USE ConstantsAssumption
<1> DEFINE s == seen[t]
<1>1. CASE Rollback(t)
  BY <1>1, RollbackIInv DEF CloseShift, Steps
<1>2. CASE /\ phase' = [phase EXCEPT ![s] = "closed"]
           /\ expected' = [expected EXCEPT ![s] = sum[t]]
           /\ pc' = [pc EXCEPT ![t] = "done"]
           /\ Release(t)
           /\ UNCHANGED <<tally, rows, locals>>
  <2>1. pc[t] = "commit" /\ req[t].kind = "close" /\ s \in Shifts
    BY DEF CloseShift, IInv, Control, ControlOf, Steps
  <2>2. Shape' /\ Fresh'
    BY <1>2, <2>1 DEF IInv, Shape, Fresh, Keyed, Release, rows, locals, Terminal
  <2>3. Control'
    BY <1>2, <2>1 DEF IInv, Shape, Control, ControlOf, rows, locals, Steps
  <2>4. Holders'
    BY <1>2, <2>1 DEF IInv, Shape, Holders, Control, ControlOf, Fresh, Release, ShiftFor, rows, locals, Steps
  <2>5. CountStands'
    BY <1>2, <2>1, CountKept DEF IInv, Shape, locals
  <2> QED BY <2>2, <2>3, <2>4, <2>5 DEF IInv
<1> QED BY <1>1, <1>2 DEF CloseShift, Goto

LEMMA NextIInv == IInv /\ [Next]_vars => IInv'
<1> SUFFICES ASSUME IInv, [Next]_vars PROVE IInv'
  OBVIOUS
<1>1. CASE UNCHANGED vars
  <2>1. Shape' /\ Fresh' /\ Control' /\ Holders'
    BY <1>1 DEF IInv, Shape, Keyed, Fresh, Control, ControlOf, Holders, ShiftFor,
                vars, shifts, rows, locks, locals
  <2>2. CountStands'
    BY <1>1, CountKept DEF vars, locals
  <2> QED BY <2>1, <2>2 DEF IInv
<1>2. ASSUME NEW t \in Txs,
             \/ Begin(t) \/ CreateShift(t) \/ InsertSale(t) \/ InsertOperation(t)
             \/ FindSale(t) \/ UpdateTotals(t) \/ Commit(t)
             \/ LockShift(t) \/ SumCash(t) \/ CloseShift(t) \/ Fail(t)
      PROVE  IInv'
  <2>1. CASE Fail(t)
    BY <2>1, RollbackIInv DEF Fail, Active
  <2> QED
    BY <1>2, <2>1, BeginIInv, CreateIInv, InsertSaleIInv, InsertOperationIInv, FindIInv,
       UpdateTotalsIInv, CommitIInv, LockIInv, SumIInv, CloseIInv
<1> QED BY <1>1, <1>2 DEF Next

(* Locks and program counters fit together in every reachable state: the   *)
(* invariant the other theorems rest on.                                   *)
THEOREM Invariance == Spec => []IInv
BY InitIInv, NextIInv, PTL DEF Spec

-----------------------------------------------------------------------------
(* At most one shift is open at a time (idx_shifts_single_open), whatever  *)
(* StartShift requests overlap.                                            *)
THEOREM SingleOpenShift == Spec => []OneOpenShift
<1>1. Init => OneOpenShift
  BY DEF Init, OneOpenShift, Open
<1>2. IInv /\ OneOpenShift /\ [Next]_vars => OneOpenShift'
  <2> SUFFICES ASSUME IInv, OneOpenShift, [Next]_vars PROVE OneOpenShift'
    OBVIOUS
  <2>1. CASE UNCHANGED phase
    BY <2>1 DEF OneOpenShift, Open
  <2>2. CASE \E t \in Txs : CreateShift(t) /\ ~UNCHANGED phase
    <3>1. PICK s \in Shifts : phase' = [phase EXCEPT ![s] = "open"]
      BY <2>2 DEF CreateShift, Rollback, shifts
    <3>2. Open = {}
      BY <2>2 DEF CreateShift, IndexRefuses, Rollback, shifts
    <3> QED BY <3>1, <3>2 DEF OneOpenShift, Open, IInv, Shape
  <2>3. CASE \E t \in Txs : CloseShift(t) /\ ~UNCHANGED phase
    <3>1. PICK t \in Txs : phase' = [phase EXCEPT ![seen[t]] = "closed"]
      BY <2>3 DEF CloseShift, Rollback, shifts
    <3> QED BY <3>1 DEF OneOpenShift, Open, IInv, Shape
  <2> QED
    BY <2>1, <2>2, <2>3 DEF Next, vars, shifts, Begin, InsertSale, InsertOperation, FindSale,
       UpdateTotals, Commit, LockShift, SumCash, Fail, Rollback
<1> QED BY <1>1, <1>2, Invariance, PTL DEF Spec

(* A closed shift stays closed with the expected cash it was closed with,  *)
(* however many closings of it are under way.                              *)
THEOREM ClosedForGood == Spec => ClosedIsFinal
<1>1. IInv /\ [Next]_vars =>
        \A s \in Shifts : phase[s] = "closed" => phase'[s] = "closed" /\ expected'[s] = expected[s]
  <2> SUFFICES ASSUME IInv, [Next]_vars, NEW s \in Shifts, phase[s] = "closed"
               PROVE  phase'[s] = "closed" /\ expected'[s] = expected[s]
    OBVIOUS
  <2>1. CASE UNCHANGED <<phase, expected>>
    BY <2>1
  <2>2. CASE \E t \in Txs : CreateShift(t)
    BY <2>2 DEF CreateShift, Rollback, shifts, IInv, Shape
  <2>3. CASE \E t \in Txs : CloseShift(t)
    BY <2>3 DEF CloseShift, Closable, Rollback, shifts, IInv, Shape, Keyed
  <2> QED
    BY <2>1, <2>2, <2>3 DEF Next, vars, shifts, Begin, InsertSale, InsertOperation, FindSale,
       UpdateTotals, Commit, LockShift, SumCash, Fail, Rollback
<1> QED BY <1>1, Invariance, PTL DEF Spec, ClosedIsFinal

(* The expected cash stored by a closing is exactly the cash on the shift  *)
(* when it closes: FOR UPDATE keeps every sale, void, pay-in and pay-out   *)
(* of the shift from being committed between the sum and the commit.       *)
THEOREM ClosingIsExact == Spec => ExpectedCashExact
<1>1. IInv /\ [Next]_vars =>
        \A s \in Shifts : (phase[s] = "open" /\ phase'[s] = "closed") => expected'[s] = Drawer(s)
  <2> SUFFICES ASSUME IInv, [Next]_vars, NEW s \in Shifts, phase[s] = "open", phase'[s] = "closed"
               PROVE  expected'[s] = Drawer(s)
    OBVIOUS
  <2>1. PICK t \in Txs : CloseShift(t)
    BY DEF Next, vars, shifts, Begin, CreateShift, InsertSale, InsertOperation, FindSale,
       UpdateTotals, Commit, LockShift, SumCash, Fail, Rollback, IInv, Shape
  <2>2. /\ pc[t] = "commit" /\ req[t].kind = "close"
        /\ seen[t] = s
        /\ expected' = [expected EXCEPT ![s] = sum[t]]
    BY <2>1 DEF CloseShift, Rollback, shifts, IInv, Shape
  <2> QED BY <2>2 DEF IInv, Shape, Keyed, CountStands
<1> QED BY <1>1, Invariance, PTL DEF Spec, ExpectedCashExact

(* No set of transactions waits in a circle: who holds a shift's row waits *)
(* for nothing, who shares it or holds a sale waits only for such a        *)
(* holder, and the rest wait for these.                                    *)
THEOREM DeadlockFreedom == Spec => []NoDeadlock
<1>1. IInv => NoDeadlock
  <2> SUFFICES ASSUME IInv, NEW S \in SUBSET Txs, S # {}
               PROVE  \E t \in S : Blockers(t) \cap S = {}
    BY DEF NoDeadlock
  <2> USE ConstantsAssumption
  <2>1. \A t \in Txs : pc[t] \notin {"insert", "find", "total", "lock"} => Blockers(t) = {}
    BY DEF Blockers
  <2>2. \A t \in Txs : pc[t] \in {"insert", "total"} =>
           \A h \in Blockers(t) \cap Txs : pc[h] \in {"sum", "commit"}
    <3> SUFFICES ASSUME NEW t \in Txs, pc[t] \in {"insert", "total"}, NEW h \in Txs, h \in Blockers(t)
                 PROVE  pc[h] \in {"sum", "commit"}
      OBVIOUS
    <3>1. \E s \in Shifts : h = rowLock[s]
      BY DEF Blockers, InsertHolders, UpdateHolders, IInv, Control, ControlOf, Fresh, ShiftFor, Steps
    <3> QED BY <3>1 DEF IInv, Holders
  <2>3. \A t \in Txs : pc[t] \in {"find", "lock"} =>
           \A h \in Blockers(t) \cap Txs : pc[h] \in {"total", "sum", "commit"}
    <3> SUFFICES ASSUME NEW t \in Txs, pc[t] \in {"find", "lock"}, NEW h \in Txs, h \in Blockers(t)
                 PROVE  pc[h] \in {"total", "sum", "commit"}
      OBVIOUS
    <3>1. \/ \E s \in Shifts : h = rowLock[s] \/ h \in shareLock[s]
          \/ \E u \in Txs : h = saleLock[u]
      BY DEF Blockers, CloseHolders, IInv, Control, ControlOf, Steps
    <3> QED BY <3>1 DEF IInv, Holders
  <2>4. CASE \E t \in S : pc[t] \notin {"insert", "find", "total", "lock"}
    BY <2>1, <2>4
  <2>5. CASE \A t \in S : pc[t] \in {"insert", "find", "total", "lock"}
    <3>1. CASE \E t \in S : pc[t] \in {"insert", "total"}
      BY <2>2, <2>5, <3>1
    <3>2. CASE \A t \in S : pc[t] \in {"find", "lock"}
      BY <2>3, <3>2
    <3> QED BY <2>5, <3>1, <3>2
  <2> QED BY <2>4, <2>5
<1> QED BY <1>1, Invariance, PTL
-----------------------------------------------------------------------------
(* The numbers: what TypeOK says beyond Shape.                             *)
Numbers ==
  /\ expected \in [Shifts -> Int] /\ sum \in [Txs -> Int]
  /\ tally \in [Shifts -> Tallies] /\ base \in [Txs -> Tallies]
  /\ req \in [Txs -> Requests \cup {NoRequest}]

(* The cash on a shift is a number: it is a sum over finitely many rows.   *)
LEMMA DrawerInt ==
  ASSUME IInv, NEW s \in Shifts
  PROVE  Drawer(s) \in Int
<1> DEFINE f == [t \in Recorded(s) |-> CashOf(t)]
<1>1. IsFiniteSet(Recorded(s)) /\ Recorded(s) \subseteq Txs
  BY FS_Subset, ConstantsAssumption DEF Recorded
<1>2. \A t \in Recorded(s) : f[t] \in Int
  <2> SUFFICES ASSUME NEW t \in Recorded(s) PROVE CashOf(t) \in Int
    OBVIOUS
  <2>1. req[t].cash \in Int /\ req[t].total \in Int
    BY <1>1 DEF IInv, Shape, Request
  <2> QED BY <2>1 DEF CashOf
<1>3. DOMAIN f = Recorded(s)
  OBVIOUS
<1> HIDE DEF f
<1>4. SumFunctionOnSet(f, Recorded(s)) \in Int
  BY <1>1, <1>2, SumInt
<1> QED BY <1>3, <1>4, ConstantsAssumption DEF Drawer, SumFunction, f

LEMMA InitNumbers == Init => Numbers
BY DEF Init, Numbers, NoTally, Tallies

LEMMA TalliesClosed ==
  ASSUME NEW b \in Tallies, NEW a \in Int
  PROVE  /\ [b EXCEPT !.voided = @ + a, !.voids = @ + 1] \in Tallies
         /\ [b EXCEPT !.sales = @ + a, !.count = @ + 1] \in Tallies
<1>1. /\ b = [sales |-> b.sales, count |-> b.count, voided |-> b.voided, voids |-> b.voids]
      /\ b.sales \in Int /\ b.count \in Int /\ b.voided \in Int /\ b.voids \in Int
  BY DEF Tallies
<1>2. /\ b.sales + a \in Int /\ b.count + 1 \in Int
      /\ b.voided + a \in Int /\ b.voids + 1 \in Int
  BY <1>1
<1> QED BY <1>1, <1>2 DEF Tallies

LEMMA TallyEqual ==
  ASSUME NEW a \in Tallies, NEW b \in Tallies,
         a.sales = b.sales, a.count = b.count, a.voided = b.voided, a.voids = b.voids
  PROVE  a = b
BY DEF Tallies

LEMMA TallyExcept ==
  ASSUME NEW b \in Tallies, NEW a \in Int
  PROVE  /\ [b EXCEPT !.voided = @ + a, !.voids = @ + 1]
              = [sales |-> b.sales, count |-> b.count, voided |-> b.voided + a, voids |-> b.voids + 1]
         /\ [b EXCEPT !.sales = @ + a, !.count = @ + 1]
              = [sales |-> b.sales + a, count |-> b.count + 1, voided |-> b.voided, voids |-> b.voids]
<1> DEFINE v == [b EXCEPT !.voided = @ + a, !.voids = @ + 1]
           s == [b EXCEPT !.sales = @ + a, !.count = @ + 1]
           w == [sales |-> b.sales, count |-> b.count, voided |-> b.voided + a, voids |-> b.voids + 1]
           r == [sales |-> b.sales + a, count |-> b.count + 1, voided |-> b.voided, voids |-> b.voids]
<1>1. v \in Tallies /\ s \in Tallies
  BY TalliesClosed
<1>2. w \in Tallies /\ r \in Tallies
  BY DEF Tallies
<1>3. v.sales = b.sales /\ v.count = b.count /\ v.voided = b.voided + a /\ v.voids = b.voids + 1
  BY DEF Tallies
<1>4. s.sales = b.sales + a /\ s.count = b.count + 1 /\ s.voided = b.voided /\ s.voids = b.voids
  BY DEF Tallies
<1>5. /\ w.sales = b.sales /\ w.count = b.count /\ w.voided = b.voided + a /\ w.voids = b.voids + 1
      /\ r.sales = b.sales + a /\ r.count = b.count + 1 /\ r.voided = b.voided /\ r.voids = b.voids
  OBVIOUS
<1> HIDE DEF v, s, w, r
<1>6. v = w /\ s = r
  BY <1>1, <1>2, <1>3, <1>4, <1>5, TallyEqual
<1> QED BY <1>6 DEF v, s, w, r

LEMMA TallyType ==
  ASSUME IInv, Numbers, NEW t \in Txs, pc[t] = "commit", req[t].kind \in {"sale", "void"}
  PROVE  NewTally(t) \in Tallies
<1>1. /\ base[t] \in Tallies /\ req[t].total \in Int
      /\ req[t].kind = "void" => req[t].target \in Txs /\ req[req[t].target].total \in Int
  BY DEF IInv, Shape, Numbers, Control, ControlOf, Request, Steps
<1> QED BY <1>1, TalliesClosed DEF NewTally

LEMMA NextNumbers == IInv /\ Numbers /\ [Next]_vars => Numbers'
<1> SUFFICES ASSUME IInv, Numbers, [Next]_vars PROVE Numbers'
  OBVIOUS
<1>1. CASE UNCHANGED vars
  BY <1>1 DEF Numbers, vars, shifts, locals
<1>2. ASSUME NEW t \in Txs, Begin(t) PROVE Numbers'
  <2>1. UNCHANGED <<shifts, base, sum>> /\ \E r \in Requests : req' = [req EXCEPT ![t] = r]
    BY <1>2 DEF Begin
  <2> QED BY <2>1 DEF Numbers, shifts
<1>3. ASSUME NEW t \in Txs, Rollback(t) PROVE Numbers'
  BY <1>3 DEF Rollback, Numbers, shifts, locals
<1>4. ASSUME NEW t \in Txs, \/ CreateShift(t) \/ InsertSale(t) \/ InsertOperation(t)
                            \/ FindSale(t) \/ LockShift(t)
      PROVE  Numbers'
  BY <1>3, <1>4 DEF CreateShift, InsertSale, InsertOperation, FindSale, LockShift,
                    Numbers, shifts, locals
<1>5. ASSUME NEW t \in Txs, UpdateTotals(t) PROVE Numbers'
  <2>1. ShiftFor(t) \in Shifts
    BY <1>5 DEF UpdateTotals, IInv, Fresh, Control, ControlOf, ShiftFor, Steps
  <2>2. base' = [base EXCEPT ![t] = tally[ShiftFor(t)]] /\ UNCHANGED <<shifts, req, sum>>
    BY <1>5 DEF UpdateTotals
  <2> QED BY <2>1, <2>2 DEF Numbers, shifts
<1>6. ASSUME NEW t \in Txs, Commit(t) PROVE Numbers'
  <2>1. NewTally(t) \in Tallies
    BY <1>6, TallyType DEF Commit
  <2>2. tally' = [tally EXCEPT ![ShiftFor(t)] = NewTally(t)] /\ UNCHANGED <<expected, locals>>
    BY <1>6 DEF Commit
  <2> QED BY <2>1, <2>2 DEF Numbers, locals
<1>7. ASSUME NEW t \in Txs, SumCash(t) PROVE Numbers'
  <2>1. Drawer(seen[t]) \in Int
    BY <1>7, DrawerInt DEF SumCash, IInv, Control, ControlOf, Steps
  <2>2. sum' = [sum EXCEPT ![t] = Drawer(seen[t])] /\ UNCHANGED <<shifts, req, base>>
    BY <1>7 DEF SumCash
  <2> QED BY <2>1, <2>2 DEF Numbers, shifts
<1>8. ASSUME NEW t \in Txs, CloseShift(t) PROVE Numbers'
  BY <1>3, <1>8 DEF CloseShift, Numbers, locals
<1> QED BY <1>1, <1>2, <1>3, <1>4, <1>5, <1>6, <1>7, <1>8 DEF Next, Fail

(* Every variable has its type in every reachable state; the money columns *)
(* stay integers although two of them hold sums over the rows of a shift.  *)
THEOREM TypeCorrect == Spec => []TypeOK
<1>1. Spec => []Numbers
  BY InitNumbers, NextNumbers, Invariance, PTL DEF Spec
<1>2. IInv /\ Numbers => TypeOK
  BY DEF IInv, Shape, Numbers, TypeOK
<1> QED BY <1>1, <1>2, Invariance, PTL
-----------------------------------------------------------------------------
(* The totals a sale or a void adds to are still the shift's: it has held  *)
(* the shift's row since it read them.                                     *)
BaseStands ==
  \A t \in Txs : (pc[t] = "commit" /\ req[t].kind \in {"sale", "void"})
                   => base[t] = tally[ShiftFor(t)]
(* A void keeps its sale locked, and completed, until it commits.          *)
VoidStands ==
  \A t \in Txs : (pc[t] \in {"total", "commit"} /\ req[t].kind = "void")
                   => saleLock[req[t].target] = t /\ row[req[t].target] = "completed"
(* TalliesMatchSales, with the sets it speaks of as parameters.            *)
Total(q, S) == SumFunctionOnSet([t \in S |-> q[t].total], S)
TallyFor(q, S, V) == [sales  |-> Total(q, S), count |-> Cardinality(S),
                      voided |-> Total(q, V), voids |-> Cardinality(V)]
Sold(s)   == Sales \cap Recorded(s)
Voided(s) == {t \in Sold(s) : row[t] = "voided"}
Tallied   == \A s \in Shifts : tally[s] = TallyFor(req, Sold(s), Voided(s))

Book == BaseStands /\ VoidStands /\ Tallied

LEMMA TalliedIs == TalliesMatchSales <=> Tallied
<1>1. \A S : TotalOf(S) = Total(req, S)
  BY Zenon DEF TotalOf, Total, SumFunction
<1>2. \A s : /\ Sold(s) = Sales \cap Recorded(s)
             /\ Voided(s) = {t \in Sales \cap Recorded(s) : row[t] = "voided"}
  BY DEF Sold, Voided
<1> QED BY <1>1, <1>2 DEF TalliesMatchSales, Tallied, TallyFor

LEMMA TotalSame ==
  ASSUME NEW S, IsFiniteSet(S), NEW q, NEW p, \A t \in S : q[t] = p[t]
  PROVE  Total(q, S) = Total(p, S)
<1>1. [t \in S |-> q[t].total] = [t \in S |-> p[t].total]
  OBVIOUS
<1> QED BY <1>1 DEF Total

LEMMA TotalAdd ==
  ASSUME NEW S, IsFiniteSet(S), NEW t, t \notin S,
         NEW q, \A u \in S \cup {t} : q[u].total \in Int
  PROVE  Total(q, S \cup {t}) = Total(q, S) + q[t].total
<1> DEFINE f == [u \in S \cup {t} |-> q[u].total]
           e == [u \in S |-> q[u].total]
<1>1. /\ \A u \in S \cup {t} : f[u] \in Int
      /\ \A u \in S : f[u] = e[u] /\ e[u] \in Int
      /\ f[t] = q[t].total /\ f[t] \in Int
  OBVIOUS
<1>2. Total(q, S \cup {t}) = SumFunctionOnSet(f, S \cup {t}) /\ Total(q, S) = SumFunctionOnSet(e, S)
  BY DEF Total
<1> HIDE DEF f, e
<1>3. SumFunctionOnSet(f, S \cup {t}) = f[t] + SumFunctionOnSet(f, S)
  BY <1>1, SumAdd
<1>4. SumFunctionOnSet(f, S) = SumFunctionOnSet(e, S) /\ SumFunctionOnSet(e, S) \in Int
  BY <1>1, SumSame, SumInt
<1> QED BY <1>1, <1>2, <1>3, <1>4

(* One more sale, and one more voided sale, in a tally.                    *)
LEMMA TallySale ==
  ASSUME NEW S, IsFiniteSet(S), NEW V, NEW t, t \notin S,
         NEW q, \A u \in S \cup {t} : q[u].total \in Int,
         NEW b, b = TallyFor(q, S, V), NEW a, a = q[t].total
  PROVE  TallyFor(q, S \cup {t}, V)
           = [sales |-> b.sales + a, count |-> b.count + 1, voided |-> b.voided, voids |-> b.voids]
BY TotalAdd, FS_AddElement DEF TallyFor

LEMMA TallyVoid ==
  ASSUME NEW S, NEW V, IsFiniteSet(V), NEW t, t \notin V,
         NEW q, \A u \in V \cup {t} : q[u].total \in Int,
         NEW b, b = TallyFor(q, S, V), NEW a, a = q[t].total
  PROVE  TallyFor(q, S, V \cup {t})
           = [sales |-> b.sales, count |-> b.count, voided |-> b.voided + a, voids |-> b.voids + 1]
BY TotalAdd, FS_AddElement DEF TallyFor

LEMMA SoldFinite ==
  ASSUME NEW s
  PROVE  /\ IsFiniteSet(Sold(s)) /\ Sold(s) \subseteq Txs
         /\ IsFiniteSet(Voided(s)) /\ Voided(s) \subseteq Sold(s)
<1>1. Sold(s) \subseteq Txs /\ Voided(s) \subseteq Sold(s)
  BY DEF Sold, Voided, Recorded
<1> QED BY <1>1, FS_Subset, ConstantsAssumption

LEMMA InitBook == Init => Book
<1> SUFFICES ASSUME Init PROVE Book
  OBVIOUS
<1>1. BaseStands /\ VoidStands
  BY DEF Init, BaseStands, VoidStands
<1>2. ASSUME NEW s \in Shifts PROVE tally[s] = TallyFor(req, Sold(s), Voided(s))
  <2>1. Sold(s) = {} /\ Voided(s) = {} /\ tally[s] = NoTally
    BY <1>2 DEF Init, Sold, Voided, Sales
  <2>2. Cardinality({}) = 0 /\ Total(req, {}) = 0
    BY FS_EmptySet, SumEmpty DEF Total
  <2> QED BY <2>1, <2>2 DEF NoTally, TallyFor
<1> QED BY <1>1, <1>2 DEF Book, Tallied

(* A step that leaves the totals, the sales and their requests alone.      *)
LEMMA TalliedKept ==
  ASSUME Tallied, UNCHANGED tally,
         \A s \in Shifts : Sold(s)' = Sold(s) /\ Voided(s)' = Voided(s),
         \A t \in Txs : row[t] # "none" => req'[t] = req[t]
  PROVE  Tallied'
<1> SUFFICES ASSUME NEW s \in Shifts
             PROVE  tally'[s] = TallyFor(req', Sold(s)', Voided(s)')
  BY Zenon DEF Tallied
<1> DEFINE S == Sold(s)
           V == Voided(s)
<1>1. \A t \in S : req[t] = req'[t]
  BY SoldFinite DEF Sold, Sales
<1>2. IsFiniteSet(S) /\ IsFiniteSet(V) /\ V \subseteq S
  BY SoldFinite
<1>3. tally[s] = TallyFor(req, S, V)
  BY Zenon DEF Tallied
<1>4. Sold(s)' = S /\ Voided(s)' = V
  OBVIOUS
<1> HIDE DEF S, V
<1>5. Total(req, S) = Total(req', S) /\ Total(req, V) = Total(req', V)
  BY <1>1, <1>2, TotalSame
<1> QED BY <1>3, <1>4, <1>5 DEF TallyFor

LEMMA SetsKept ==
  ASSUME UNCHANGED rows
  PROVE  \A s \in Shifts : Sold(s)' = Sold(s) /\ Voided(s)' = Voided(s)
BY DEF rows, Sold, Voided, Sales, Recorded

(* A commit adds its own sale to the sales of its shift, or its target to  *)
(* the voided ones, and the amount to the totals it read.                  *)
LEMMA CommitTallied ==
  ASSUME IInv, Numbers, Book, NEW t \in Txs, Commit(t)
  PROVE  Tallied'
<1> USE ConstantsAssumption
<1> DEFINE s == ShiftFor(t)
<1>1. /\ pc[t] = "commit" /\ req[t].kind \in {"sale", "void"}
      /\ tally' = [tally EXCEPT ![s] = NewTally(t)]
      /\ UNCHANGED <<phase, expected, locals>>
  BY DEF Commit
<1>2. /\ s \in Shifts
      /\ req[t].kind = "sale" => row[t] = "none" /\ shiftOf[t] = None
      /\ req[t].kind = "void" => /\ req[t].target \in Txs
                                 /\ row[req[t].target] = "completed"
                                 /\ shiftOf[req[t].target] = s
  BY <1>1 DEF IInv, Book, VoidStands, Fresh, Control, ControlOf, ShiftFor, Steps
<1>3. /\ req[t].kind = "sale" => /\ row' = [row EXCEPT ![t] = "completed"]
                                 /\ shiftOf' = [shiftOf EXCEPT ![t] = s]
      /\ req[t].kind = "void" => /\ row' = [row EXCEPT ![req[t].target] = "voided"]
                                 /\ shiftOf' = shiftOf
  BY <1>1 DEF Commit, RowVoided
<1>4. base[t] = TallyFor(req, Sold(s), Voided(s))
  BY <1>1, <1>2 DEF Book, BaseStands, Tallied
<1>5. req' = req /\ \A u \in Txs : req[u].total \in Int
  BY <1>1 DEF locals, IInv, Shape, Request
<1> SUFFICES ASSUME NEW x \in Shifts
             PROVE  tally'[x] = TallyFor(req, Sold(x)', Voided(x)')
  BY <1>5, Zenon DEF Tallied
<1>6. CASE x # s
  <2>1. Sold(x)' = Sold(x) /\ Voided(x)' = Voided(x)
    BY <1>1, <1>2, <1>3, <1>6 DEF Sold, Voided, Sales, Recorded, IInv, Shape
  <2>2. tally'[x] = tally[x]
    BY <1>1, <1>2, <1>6 DEF Numbers
  <2> QED BY <2>1, <2>2 DEF Book, Tallied
<1> DEFINE S == Sold(x)
           V == Voided(x)
<1>7. IsFiniteSet(S) /\ IsFiniteSet(V) /\ S \subseteq Txs /\ V \subseteq S
  BY SoldFinite
<1>8. CASE x = s /\ req[t].kind = "sale"
  <2>1. \A v \in Txs : /\ row'[v] = IF v = t THEN "completed" ELSE row[v]
                       /\ shiftOf'[v] = IF v = t THEN x ELSE shiftOf[v]
    BY <1>3, <1>8 DEF IInv, Shape
  <2>2. Sold(x)' = S \cup {t} /\ t \notin S /\ Voided(x)' = V
    <3>1. Sold(x)' = S \cup {t} /\ t \notin S
      BY <1>2, <1>8, <2>1 DEF Sold, Sales, Recorded
    <3>2. \A v \in S : row'[v] = row[v]
      BY <2>1, <3>1, <1>7
    <3>3. row'[t] # "voided"
      BY <2>1
    <3>4. Voided(x)' = {v \in S \cup {t} : row'[v] = "voided"} /\ V = {v \in S : row[v] = "voided"}
      BY <3>1 DEF Voided
    <3> QED BY <3>1, <3>2, <3>3, <3>4
  <2>3. tally'[x] = [base[t] EXCEPT !.sales = @ + req[t].total, !.count = @ + 1]
    BY <1>1, <1>2, <1>8 DEF Numbers, NewTally
  <2>4. base[t] = TallyFor(req, S, V)
    BY <1>4, <1>8
  <2> HIDE DEF S, V, s
  <2>5. \A v \in S \cup {t} : req[v].total \in Int
    BY <1>5, <1>7, <2>2
  <2>6. tally'[x] = [sales |-> base[t].sales + req[t].total, count |-> base[t].count + 1,
                 voided |-> base[t].voided, voids |-> base[t].voids]
    BY <2>3, <2>5, TallyExcept DEF Numbers
  <2>7. TallyFor(req, S \cup {t}, V)
          = [sales |-> base[t].sales + req[t].total, count |-> base[t].count + 1,
                 voided |-> base[t].voided, voids |-> base[t].voids]
    <3> DEFINE a == req[t].total
               b == base[t]
    <3>1. a = req[t].total /\ b = TallyFor(req, S, V)
      BY <2>4
    <3> HIDE DEF a, b
    <3>2. TallyFor(req, S \cup {t}, V)
            = [sales |-> b.sales + a, count |-> b.count + 1, voided |-> b.voided, voids |-> b.voids]
      BY <1>7, <2>2, <2>5, <3>1, TallySale
    <3> QED BY <3>2 DEF a, b
  <2> QED BY <2>2, <2>6, <2>7
<1>9. CASE x = s /\ req[t].kind = "void"
  <2> DEFINE u == req[t].target
  <2>1. /\ u \in Txs /\ row[u] = "completed" /\ shiftOf[u] = x /\ shiftOf' = shiftOf
        /\ \A v \in Txs : row'[v] = IF v = u THEN "voided" ELSE row[v]
    BY <1>2, <1>3, <1>9 DEF IInv, Shape
  <2>2. Sold(x)' = S /\ Voided(x)' = V \cup {u} /\ u \notin V
    <3>1. Sold(x)' = S /\ u \in S
      BY <2>1 DEF Sold, Sales, Recorded
    <3>2. Voided(x)' = {v \in S : row'[v] = "voided"} /\ V = {v \in S : row[v] = "voided"}
      BY <3>1 DEF Voided
    <3> QED BY <2>1, <3>1, <3>2, <1>7
  <2>3. tally'[x] = [base[t] EXCEPT !.voided = @ + req[u].total, !.voids = @ + 1]
    BY <1>1, <1>2, <1>9 DEF Numbers, NewTally
  <2>4. base[t] = TallyFor(req, S, V)
    BY <1>4, <1>9
  <2> HIDE DEF S, V, s, u
  <2>5. \A v \in V \cup {u} : req[v].total \in Int
    BY <1>5, <1>7, <2>2, <2>1
  <2>6. tally'[x] = [sales |-> base[t].sales, count |-> base[t].count,
                 voided |-> base[t].voided + req[u].total, voids |-> base[t].voids + 1]
    BY <2>3, <2>5, TallyExcept DEF Numbers
  <2>7. TallyFor(req, S, V \cup {u})
          = [sales |-> base[t].sales, count |-> base[t].count,
                 voided |-> base[t].voided + req[u].total, voids |-> base[t].voids + 1]
    <3> DEFINE a == req[u].total
               b == base[t]
    <3>1. a = req[u].total /\ b = TallyFor(req, S, V)
      BY <2>4
    <3> HIDE DEF a, b
    <3>2. TallyFor(req, S, V \cup {u})
            = [sales |-> b.sales, count |-> b.count, voided |-> b.voided + a, voids |-> b.voids + 1]
      BY <1>7, <2>2, <2>5, <3>1, TallyVoid
    <3> QED BY <3>2 DEF a, b
  <2> QED BY <2>2, <2>6, <2>7
<1> QED BY <1>1, <1>6, <1>8, <1>9

LEMMA CommitBook ==
  ASSUME IInv, Numbers, Book, NEW t \in Txs, Commit(t)
  PROVE  Book'
<1> USE ConstantsAssumption
<1>1. /\ pc[t] = "commit" /\ req[t].kind \in {"sale", "void"}
      /\ pc' = [pc EXCEPT ![t] = "done"]
      /\ tally' = [tally EXCEPT ![ShiftFor(t)] = NewTally(t)]
      /\ Release(t)
      /\ UNCHANGED <<phase, expected, locals>>
  BY DEF Commit, Goto
<1>2. \A u \in Txs : pc'[u] \in {"total", "commit"} => u # t /\ pc[u] = pc'[u]
  BY <1>1 DEF IInv, Shape
<1> DEFINE w == IF req[t].kind = "sale" THEN t ELSE req[t].target
<1>3. /\ w \in Txs /\ w # None
      /\ \A u \in Txs : u # w => row'[u] = row[u] /\ shiftOf'[u] = shiftOf[u]
      /\ req[t].kind = "void" => UNCHANGED shiftOf
      /\ req[t].kind = "sale" => row[w] = "none"
      /\ req[t].kind = "void" => saleLock[w] = t
  BY <1>1 DEF Commit, RowVoided, IInv, Shape, Fresh, Control, ControlOf, Steps, Book, VoidStands
<1>4. ASSUME NEW u \in Txs, pc'[u] \in {"total", "commit"}, req[u].kind = "void"
      PROVE  /\ req[u].target \in Txs /\ req[u].target # w
             /\ saleLock[req[u].target] = u /\ row[req[u].target] = "completed"
  <2>1. u # t /\ req[u].target \in Txs /\ saleLock[req[u].target] = u /\ row[req[u].target] = "completed"
    BY <1>2, <1>4 DEF Book, VoidStands, IInv, Control, ControlOf, Steps
  <2> QED BY <2>1, <1>1, <1>3
<1>5. VoidStands'
  <2> SUFFICES ASSUME NEW u \in Txs, pc'[u] \in {"total", "commit"}, req[u].kind = "void"
               PROVE  saleLock'[req[u].target] = u /\ row'[req[u].target] = "completed"
    BY <1>1 DEF VoidStands, locals
  <2>1. u # t
    BY <1>2
  <2> QED BY <1>1, <1>3, <1>4, <2>1 DEF Release
<1>6. BaseStands'
  <2> SUFFICES ASSUME NEW u \in Txs, pc'[u] = "commit", req[u].kind \in {"sale", "void"}
               PROVE  base[u] = tally'[ShiftFor(u)']
    BY <1>1, Zenon DEF BaseStands, locals
  <2>1. u # t /\ pc[u] = "commit" /\ base[u] = tally[ShiftFor(u)]
    BY <1>2 DEF Book, BaseStands
  <2>2. ShiftFor(u)' = ShiftFor(u)
    BY <1>1, <1>3, <1>4 DEF ShiftFor, locals
  <2>3. ShiftFor(u) \in Shifts /\ ShiftFor(u) # ShiftFor(t)
    BY <1>1, <2>1 DEF IInv, Holders, Fresh, Control, ControlOf, ShiftFor, Steps
  <2> QED BY <1>1, <2>1, <2>2, <2>3 DEF Numbers
<1> QED BY <1>5, <1>6, CommitTallied DEF Book

LEMMA NextBook == IInv /\ Numbers /\ Book /\ [Next]_vars => Book'
<1> SUFFICES ASSUME IInv, Numbers, Book, [Next]_vars PROVE Book'
  OBVIOUS
<1> USE ConstantsAssumption
<1>1. CASE UNCHANGED vars
  <2>1. BaseStands' /\ VoidStands'
    BY <1>1 DEF Book, BaseStands, VoidStands, ShiftFor, vars, shifts, rows, locks, locals
  <2>2. Tallied'
    BY <1>1, TalliedKept, SetsKept DEF Book, vars, shifts, locals
  <2> QED BY <2>1, <2>2 DEF Book
<1>2. ASSUME NEW t \in Txs, Begin(t) PROVE Book'
  <2>0. /\ UNCHANGED <<shifts, rows, locks, base, sum>> /\ pc[t] = "idle"
        /\ \E r \in Requests : req' = [req EXCEPT ![t] = r]
        /\ seen' = seen \/ \E s : seen' = [seen EXCEPT ![t] = s]
        /\ \E l \in {"create", "find", "lock", "insert"} : pc' = [pc EXCEPT ![t] = l]
    BY <1>2, Zenon DEF Begin, Goto
  <2>1. /\ UNCHANGED <<shifts, rows, locks, base, sum>> /\ pc[t] = "idle"
        /\ \E r \in Requests : req' = [req EXCEPT ![t] = r]
        /\ \A u \in Txs : u # t => seen'[u] = seen[u]
        /\ \A u \in Txs : u # t => pc'[u] = pc[u]
        /\ pc'[t] \notin {"total", "commit"}
    BY <2>0 DEF IInv, Shape
  <2>2. row[t] = "none" /\ \A u \in Txs : u # t => req'[u] = req[u]
    BY <2>1 DEF IInv, Shape, Fresh
  <2>3. Tallied'
    <3>1. UNCHANGED tally /\ UNCHANGED rows
      BY <2>1 DEF shifts
    <3> QED BY <2>2, <3>1, TalliedKept, SetsKept DEF Book
  <2>4. \A u \in Txs : pc'[u] = "commit" => u # t /\ pc[u] = "commit"
    BY <2>1
  <2>5. BaseStands'
    BY <2>1, <2>2, <2>4 DEF Book, BaseStands, ShiftFor, rows, shifts
  <2>6. VoidStands'
    BY <2>1, <2>2 DEF Book, VoidStands, rows, locks
  <2> QED BY <2>3, <2>5, <2>6 DEF Book
(* A rollback takes back no total and frees only its own locks.            *)
<1>3. ASSUME NEW t \in Txs, Rollback(t) PROVE Book'
  <2>1. /\ UNCHANGED <<shifts, rows, locals>> /\ pc' = [pc EXCEPT ![t] = "failed"]
        /\ \A u \in Txs : saleLock[u] # t => saleLock'[u] = saleLock[u]
    BY <1>3 DEF Rollback, Release, Goto
  <2>2. \A u \in Txs : pc'[u] \in {"total", "commit"} => u # t /\ pc[u] = pc'[u]
    BY <2>1 DEF IInv, Shape
  <2>3. BaseStands'
    BY <2>1, <2>2 DEF Book, BaseStands, ShiftFor, shifts, rows, locals
  <2>4. VoidStands'
    <3> SUFFICES ASSUME NEW u \in Txs, pc'[u] \in {"total", "commit"}, req[u].kind = "void"
                 PROVE  saleLock'[req[u].target] = u /\ row[req[u].target] = "completed"
      BY <2>1 DEF VoidStands, rows, locals
    <3>1. u # t /\ saleLock[req[u].target] = u /\ row[req[u].target] = "completed"
      BY <2>2 DEF Book, VoidStands
    <3>2. req[u].target \in Txs
      BY <2>2 DEF IInv, Control, ControlOf, Steps
    <3> QED BY <2>1, <3>1, <3>2
  <2>5. Tallied'
    BY <2>1, TalliedKept, SetsKept DEF Book, shifts, locals
  <2> QED BY <2>3, <2>4, <2>5 DEF Book
(* Steps that change no row, no total and no request of another kind.      *)
<1>4. ASSUME NEW t \in Txs, UNCHANGED <<tally, rows, req, seen, base, saleLock>>,
             \A u \in Txs : pc'[u] = "commit" /\ req[u].kind \in {"sale", "void"} => pc[u] = "commit",
             \A u \in Txs : pc'[u] = "total" /\ req[u].kind = "void" => pc[u] = "total"
      PROVE  Book'
  <2>1. BaseStands' /\ VoidStands'
    BY <1>4 DEF Book, BaseStands, VoidStands, ShiftFor, rows
  <2>2. Tallied'
    BY <1>4, TalliedKept, SetsKept DEF Book
  <2> QED BY <2>1, <2>2 DEF Book
<1>5. ASSUME NEW t \in Txs, CreateShift(t) PROVE Book'
  <2>1. pc[t] = "create"
    BY <1>5 DEF CreateShift
  <2>2. CASE Rollback(t)
    BY <2>2, <1>3
  <2>3. CASE ~Rollback(t)
    BY <1>4, <1>5, <2>1, <2>3 DEF CreateShift, Goto, IInv, Shape, locks, locals
  <2> QED BY <2>2, <2>3
<1>6. ASSUME NEW t \in Txs, InsertSale(t) PROVE Book'
  BY <1>4, <1>6 DEF InsertSale, Goto, IInv, Shape, shifts, locals
<1>7. ASSUME NEW t \in Txs, InsertOperation(t) PROVE Book'
  <2>1. /\ row' = [row EXCEPT ![t] = req[t].kind] /\ req[t].kind \in {"pay_in", "pay_out"}
        /\ shiftOf' = [shiftOf EXCEPT ![t] = seen[t]]
        /\ pc' = [pc EXCEPT ![t] = "done"]
        /\ UNCHANGED <<shifts, locks, locals>> /\ pc[t] = "insert"
    BY <1>7 DEF InsertOperation, Goto
  <2>2. row[t] = "none"
    BY <2>1 DEF IInv, Fresh
  <2>3. \A u \in Txs : pc'[u] \in {"total", "commit"} => u # t /\ pc[u] = pc'[u]
    BY <2>1 DEF IInv, Shape
  <2>4. \A u \in Txs : (pc[u] \in {"total", "commit"} /\ req[u].kind = "void") => req[u].target # t
    BY <2>2 DEF Book, VoidStands
  <2>5. BaseStands' /\ VoidStands'
    BY <2>1, <2>3, <2>4 DEF Book, BaseStands, VoidStands, ShiftFor, shifts, locks, locals, IInv, Shape
  <2>6. \A s \in Shifts : Sold(s)' = Sold(s) /\ Voided(s)' = Voided(s)
    BY <2>1, <2>2 DEF Sold, Voided, Sales, Recorded, IInv, Shape
  <2>7. Tallied'
    BY <2>1, <2>6, TalliedKept DEF Book, shifts, locals
  <2> QED BY <2>5, <2>7 DEF Book
<1>8. ASSUME NEW t \in Txs, FindSale(t) PROVE Book'
  <2>1. CASE Rollback(t)
    BY <2>1, <1>3
  <2>2. CASE ~Rollback(t)
    <3>1. /\ pc[t] = "find" /\ row[req[t].target] = "completed"
          /\ saleLock[req[t].target] = None
          /\ saleLock' = [saleLock EXCEPT ![req[t].target] = t]
          /\ pc' = [pc EXCEPT ![t] = "total"]
          /\ UNCHANGED <<shifts, rows, shareLock, rowLock, locals>>
      BY <1>8, <2>2 DEF FindSale, Goto
    <3>2. req[t].target \in Txs
      BY <3>1 DEF IInv, Control, ControlOf, Steps
    <3>3. BaseStands'
      BY <3>1 DEF Book, BaseStands, ShiftFor, shifts, rows, locals, IInv, Shape
    <3>4. VoidStands'
      BY <3>1, <3>2 DEF Book, VoidStands, rows, locals, IInv, Shape
    <3>5. Tallied'
      BY <3>1, TalliedKept, SetsKept DEF Book, shifts, locals
    <3> QED BY <3>3, <3>4, <3>5 DEF Book
  <2> QED BY <2>1, <2>2
<1>9. ASSUME NEW t \in Txs, UpdateTotals(t) PROVE Book'
  <2>1. /\ base' = [base EXCEPT ![t] = tally[ShiftFor(t)]]
        /\ pc[t] = "total" /\ pc' = [pc EXCEPT ![t] = "commit"]
        /\ UNCHANGED <<shifts, rows, shareLock, saleLock, req, seen, sum>>
    BY <1>9 DEF UpdateTotals, Goto
  <2>2. BaseStands'
    BY <2>1 DEF Book, BaseStands, ShiftFor, shifts, rows, IInv, Shape, Numbers
  <2>3. VoidStands'
    BY <2>1 DEF Book, VoidStands, rows, IInv, Shape
  <2>4. Tallied'
    BY <2>1, TalliedKept, SetsKept DEF Book, shifts
  <2> QED BY <2>2, <2>3, <2>4 DEF Book
<1>10. ASSUME NEW t \in Txs, LockShift(t) PROVE Book'
  <2>1. CASE Rollback(t)
    BY <2>1, <1>3
  <2>2. CASE ~Rollback(t)
    BY <1>4, <1>10, <2>2 DEF LockShift, Goto, IInv, Shape, shifts, locals
  <2> QED BY <2>1, <2>2
<1>11. ASSUME NEW t \in Txs, SumCash(t) PROVE Book'
  <2>1. pc[t] = "sum" /\ req[t].kind = "close"
    BY <1>11 DEF SumCash, IInv, Control, ControlOf
  <2> QED BY <1>4, <1>11, <2>1 DEF SumCash, Goto, IInv, Shape, shifts, locks
<1>12. ASSUME NEW t \in Txs, CloseShift(t) PROVE Book'
  <2>1. CASE Rollback(t)
    BY <2>1, <1>3
  <2>2. CASE ~Rollback(t)
    <3>1. /\ pc[t] = "commit" /\ req[t].kind = "close" /\ pc' = [pc EXCEPT ![t] = "done"]
          /\ Release(t) /\ UNCHANGED <<tally, rows, locals>>
      BY <1>12, <2>2 DEF CloseShift, Goto
    <3>2. \A u \in Txs : pc'[u] \in {"total", "commit"} => u # t /\ pc[u] = pc'[u]
      BY <3>1 DEF IInv, Shape
    <3>3. BaseStands'
      BY <3>1, <3>2 DEF Book, BaseStands, ShiftFor, rows, locals
    <3>4. VoidStands'
      <4> SUFFICES ASSUME NEW u \in Txs, pc'[u] \in {"total", "commit"}, req[u].kind = "void"
                   PROVE  saleLock'[req[u].target] = u /\ row[req[u].target] = "completed"
        BY <3>1 DEF VoidStands, rows, locals
      <4>1. u # t /\ saleLock[req[u].target] = u /\ row[req[u].target] = "completed"
        BY <3>2 DEF Book, VoidStands
      <4>2. req[u].target \in Txs
        BY <3>2 DEF IInv, Control, ControlOf, Steps
      <4> QED BY <3>1, <4>1, <4>2 DEF Release
    <3>5. Tallied'
      BY <3>1, TalliedKept, SetsKept DEF Book, locals
    <3> QED BY <3>3, <3>4, <3>5 DEF Book
  <2> QED BY <2>1, <2>2
<1>13. ASSUME NEW t \in Txs, Commit(t) PROVE Book'
  BY <1>13, CommitBook
<1> QED
  BY <1>1, <1>2, <1>3, <1>5, <1>6, <1>7, <1>8, <1>9, <1>10, <1>11, <1>12, <1>13 DEF Next, Fail

(* The totals kept on a shift are the sums over its sales and its voided   *)
(* sales, in every reachable state: overlapping sales and voids lose no    *)
(* increment (UPDATE ... SET total = total + $1 under the row's lock), and *)
(* a sale is voided, and counted as voided, once.                          *)
THEOREM TalliesAreRight == Spec => []TalliesMatchSales
<1>1. Spec => []Numbers
  BY InitNumbers, NextNumbers, Invariance, PTL DEF Spec
<1>2. Spec => []Book
  BY <1>1, InitBook, NextBook, Invariance, PTL DEF Spec
<1>3. Book => TalliesMatchSales
  BY TalliedIs DEF Book
<1> QED BY <1>2, <1>3, PTL
=============================================================================
