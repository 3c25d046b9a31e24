--------------------------- MODULE PurchasesProofs ---------------------------
(***************************************************************************)
(* What Purchases.tla guarantees for any expenses, products and slots.     *)
(***************************************************************************)
EXTENDS Purchases, SequenceTheorems, TLAPS

Changes == [product: Products, units: Int]

(* What a plan of at most two adjustments still does to a product.         *)
Nth(q, n, p) == IF n <= Len(q) /\ q[n].product = p THEN q[n].units ELSE 0
Left(q, p) == Nth(q, 1, p) + Nth(q, 2, p)

(* Made and planned adjustments always add up to the difference between    *)
(* the row read and the row to be written.                                 *)
Balanced(t) ==
  /\ Len(plan[t]) <= 2
  /\ pc[t] = "commit" => plan[t] = <<>>
  /\ pc[t] = "adjust" => plan[t] # <<>>
  /\ pc[t] \notin InTx => seen[t] = New
  /\ pc[t] \in InTx =>
       /\ target[t] \in Expenses
       /\ \A p \in Products :
            made[t][p] + Left(plan[t], p) = Effect(final[t])[p] - Effect(seen[t])[p]

(* Units a transaction has moved are under its lock and in the stock.      *)
Covered(t) ==
  /\ pc[t] \notin InTx => made[t] = Nothing
  /\ \A p \in Products : /\ made[t][p] # 0 => invLock[p] = t
                         /\ stock[p] + made[t][p] >= 0

(* The id of an expense being created is nobody else's.                    *)
Fresh(t) ==
  (pc[t] \in InTx /\ kind[t] = "create")
    => row[target[t]] = New /\ \A u \in Slots \ {t} : target[u] # target[t]

IInv == /\ TypeOK /\ StockNonNegative /\ BookedAsStated
        /\ \A t \in Slots : Balanced(t) /\ Covered(t) /\ Fresh(t)
-------------------------------------------------------------------------------
LEMMA Constants ==
  /\ Plain \in Row /\ New \in Row /\ Gone \in Row /\ LiveRows \subseteq Row
  /\ NoProduct \notin Products /\ NoExpense \notin Expenses /\ NoSlot \notin Slots
  BY ConstantsAssumption DEF Plain, New, Gone, LiveRows, Buys, Row, Moves

LEMMA RowFields ==
  ASSUME NEW r \in Row
  PROVE  /\ r.units \in Int /\ r.units >= 0
         /\ Moves(r) => r.product \in Products
         /\ ~Moves(r) => r.units = 0 /\ r.product = NoProduct
<1>1. /\ r.product \in Products \cup {NoProduct} /\ r.units \in Quantities \cup {0}
      /\ ~Moves(r) => r.units = 0
  BY DEF Row
<1>2. \A n \in Quantities \cup {0} : n \in Int /\ n >= 0
  BY ConstantsAssumption
<1> QED BY <1>1, <1>2 DEF Moves

(* The effect of a row on a product is a number of units.                  *)
LEMMA EffectType ==
  ASSUME NEW r \in Row
  PROVE  Effect(r) \in [Products -> Int]
  BY RowFields DEF Effect

(* What is left of a plan of one and of two adjustments.                   *)
LEMMA SingleLeft ==
  ASSUME NEW c \in Changes
  PROVE  /\ <<c>> \in Seq(Changes) /\ Len(<<c>>) = 1
         /\ \A p \in Products : Left(<<c>>, p) = IF c.product = p THEN c.units ELSE 0
<1>1. Len(<<c>>) = 1 /\ <<c>>[1] = c
  OBVIOUS
<1>2. \A p \in Products : /\ Nth(<<c>>, 2, p) = 0
                          /\ Nth(<<c>>, 1, p) = IF c.product = p THEN c.units ELSE 0
  BY <1>1 DEF Nth
<1> QED BY <1>2 DEF Left, Changes

LEMMA PairLeft ==
  ASSUME NEW c \in Changes, NEW d \in Changes
  PROVE  /\ <<c, d>> \in Seq(Changes) /\ Len(<<c, d>>) = 2
         /\ \A p \in Products :
              Left(<<c, d>>, p) = (IF c.product = p THEN c.units ELSE 0)
                                    + (IF d.product = p THEN d.units ELSE 0)
<1>1. Len(<<c, d>>) = 2 /\ <<c, d>>[1] = c /\ <<c, d>>[2] = d
  OBVIOUS
<1>2. \A p \in Products : /\ Nth(<<c, d>>, 1, p) = IF c.product = p THEN c.units ELSE 0
                          /\ Nth(<<c, d>>, 2, p) = IF d.product = p THEN d.units ELSE 0
  BY <1>1 DEF Nth
<1> QED BY <1>2 DEF Left, Changes

LEMMA LeftType ==
  ASSUME NEW q \in Seq(Changes), NEW p \in Products
  PROVE  Left(q, p) \in Int
<1>1. Len(q) \in Nat /\ \A n \in 1..Len(q) : q[n].units \in Int
  <2>1. Len(q) \in Nat
    BY LenProperties
  <2>2. ASSUME NEW n \in 1..Len(q) PROVE q[n] \in Changes
    BY ElementOfSeq
  <2> QED BY <2>1, <2>2 DEF Changes
<1>2. Nth(q, 1, p) \in Int /\ Nth(q, 2, p) \in Int
  BY <1>1 DEF Nth
<1> QED BY <1>2 DEF Left

LEMMA PairConcat ==
  ASSUME NEW c \in Changes, NEW d \in Changes
  PROVE  <<c>> \o <<d>> = <<c, d>>
<1> DEFINE q == <<c>> \o <<d>>
<1>1. <<c>> \in Seq(Changes) /\ <<d>> \in Seq(Changes) /\ <<c, d>> \in Seq(Changes)
  BY SingleLeft, PairLeft
<1>2. q \in Seq(Changes) /\ Len(q) = 2 /\ q[1] = c /\ q[2] = d
  BY <1>1, ConcatProperties
<1> HIDE DEF q
<1>3. Len(<<c, d>>) = 2 /\ \A n \in 1..2 : q[n] = <<c, d>>[n]
  BY <1>2
<1> QED BY <1>1, <1>2, <1>3, SeqEqual DEF q

LEMMA EmptyLeft == <<>> \in Seq(Changes) /\ Len(<<>>) = 0
                     /\ \A p \in Products : Left(<<>>, p) = 0
<1>1. Len(<<>>) = 0
  OBVIOUS
<1>2. \A p \in Products : Nth(<<>>, 1, p) = 0 /\ Nth(<<>>, 2, p) = 0
  BY <1>1 DEF Nth
<1> QED BY <1>2 DEF Left

(* syncExpenseInventory plans at most two adjustments, on products that    *)
(* exist, and together they make exactly the difference.                   *)
LEMMA PlanRight ==
  ASSUME NEW old \in Row, NEW new \in Row
  PROVE  /\ Plan(old, new) \in Seq(Changes) /\ Len(Plan(old, new)) <= 2
         /\ \A p \in Products :
              Left(Plan(old, new), p) = Effect(new)[p] - Effect(old)[p]
<1> DEFINE q == Plan(old, new)
           took == [product |-> old.product, units |-> -old.units]
           gave == [product |-> new.product, units |-> new.units]
           diff == [product |-> new.product, units |-> new.units - old.units]
<1>1. /\ \A p \in Products : Effect(old)[p] = IF old.product = p THEN old.units ELSE 0
      /\ \A p \in Products : Effect(new)[p] = IF new.product = p THEN new.units ELSE 0
  BY DEF Effect
<1>2. /\ Moves(old) => took \in Changes
      /\ Moves(new) => gave \in Changes /\ diff \in Changes
  BY RowFields DEF Changes
<1>3. CASE old.product # new.product /\ Moves(old) /\ Moves(new)
  <2>1. q = <<took>> \o <<gave>>
    BY <1>3 DEF Plan, Revert, Apply, Change
  <2>2. q = <<took, gave>>
    BY <1>2, <1>3, <2>1, PairConcat
  <2> QED BY <1>1, <1>2, <1>3, <2>2, PairLeft, RowFields
<1>4. CASE old.product # new.product /\ Moves(old) /\ ~Moves(new)
  <2>1. q = <<took>>
    BY <1>4 DEF Plan, Revert, Apply, Change
  <2> QED BY <1>1, <1>2, <1>4, <2>1, SingleLeft, RowFields
<1>5. CASE old.product # new.product /\ ~Moves(old) /\ Moves(new)
  <2>1. q = <<gave>>
    BY <1>5 DEF Plan, Revert, Apply, Change
  <2> QED BY <1>1, <1>2, <1>5, <2>1, SingleLeft, RowFields
<1>6. CASE old.product = new.product /\ old.units = new.units
  <2>1. q = <<>>
    BY <1>6 DEF Plan
  <2> QED BY <1>1, <1>6, <2>1, EmptyLeft, RowFields
<1>7. CASE old.product = new.product /\ old.units # new.units
  <2>1. q = <<diff>> /\ Moves(new)
    BY <1>7, RowFields DEF Plan, Change, Moves
  <2> QED BY <1>1, <1>2, <1>7, <2>1, SingleLeft, RowFields
<1> QED BY <1>3, <1>4, <1>5, <1>6, <1>7 DEF Moves

(* Making the first adjustment of a plan takes it out of what is left.     *)
LEMMA TailLeft ==
  ASSUME NEW q \in Seq(Changes), q # <<>>, Len(q) <= 2
  PROVE  /\ Head(q) \in Changes /\ Tail(q) \in Seq(Changes) /\ Len(Tail(q)) <= 2
         /\ \A p \in Products :
              Left(q, p) = Left(Tail(q), p)
                             + (IF Head(q).product = p THEN Head(q).units ELSE 0)
<1>1. /\ Len(q) \in Nat \ {0} /\ \A n \in 1..Len(q) : q[n] \in Changes
      /\ Head(q) = q[1] /\ Tail(q) \in Seq(Changes) /\ Len(Tail(q)) = Len(q) - 1
      /\ \A n \in 1..Len(Tail(q)) : Tail(q)[n] = q[n+1]
  BY HeadTailProperties, EmptySeq, LenProperties, ElementOfSeq
<1>2. \A p \in Products :
        /\ Nth(q, 1, p) = IF Head(q).product = p THEN Head(q).units ELSE 0
        /\ Nth(Tail(q), 1, p) = Nth(q, 2, p)
        /\ Nth(Tail(q), 2, p) = 0
  BY <1>1 DEF Nth
<1>3. \A p \in Products : Nth(q, 1, p) \in Int /\ Nth(q, 2, p) \in Int
  BY <1>1 DEF Nth, Changes
<1> QED BY <1>1, <1>2, <1>3 DEF Left

LEMMA InitIInv == Init => IInv
<1> SUFFICES ASSUME Init PROVE IInv
  OBVIOUS
<1> USE Constants, ConstantsAssumption DEF Init
<1>1. row \in [Expenses -> Row]
  BY DEF LiveRows
<1>2. TypeOK
  BY <1>1, EffectType DEF TypeOK, Nothing, Kinds
<1>3. StockNonNegative /\ BookedAsStated
  BY DEF StockNonNegative, BookedAsStated
<1>4. ASSUME NEW t \in Slots PROVE Balanced(t) /\ Covered(t) /\ Fresh(t)
  BY DEF Balanced, Covered, Fresh, InTx, Nothing
<1> QED BY <1>2, <1>3, <1>4 DEF IInv

-------------------------------------------------------------------------------
Same(u) ==
  /\ pc'[u] = pc[u] /\ kind'[u] = kind[u] /\ target'[u] = target[u]
  /\ seen'[u] = seen[u] /\ final'[u] = final[u]
  /\ plan'[u] = plan[u] /\ made'[u] = made[u]

SlotInv(t) == Balanced(t) /\ Covered(t) /\ Fresh(t)

(* What a step of t must respect so that another slot's invariant stands.  *)
LEMMA OtherSlot ==
  ASSUME IInv, NEW t \in Slots, NEW u \in Slots \ {t}, Same(u),
         \A w \in Slots \ {t} : target'[w] = target[w],
         \A p \in Products : made[u][p] # 0 => invLock'[p] = u /\ stock'[p] + made[u][p] >= 0,
         \A p \in Products : stock'[p] \in Int /\ stock'[p] >= 0,
         (pc[u] \in InTx /\ kind[u] = "create")
            => row'[target[u]] = New /\ target'[t] # target[u]
  PROVE  SlotInv(u)'
<1>1. Balanced(u) /\ Covered(u) /\ Fresh(u) /\ made[u] \in [Products -> Int]
  BY DEF IInv, TypeOK
<1>2. Balanced(u)'
  BY <1>1 DEF Balanced, Same
<1>3. Covered(u)'
  <2>1. \A p \in Products : stock'[p] + made[u][p] >= 0
    OBVIOUS
  <2> QED BY <1>1, <2>1 DEF Covered, Same
<1>4. Fresh(u)'
  BY <1>1 DEF Fresh, Same
<1> QED BY <1>2, <1>3, <1>4 DEF SlotInv

LEMMA RefuseIInv == ASSUME IInv, NEW t \in Slots, Refuse(t) PROVE IInv'
<1> USE Constants
<1>1. /\ pc' = [pc EXCEPT ![t] = "refused"]
      /\ invLock' = [p \in Products |-> IF invLock[p] = t THEN NoSlot ELSE invLock[p]]
      /\ plan' = [plan EXCEPT ![t] = <<>>] /\ made' = [made EXCEPT ![t] = Nothing]
      /\ seen' = [seen EXCEPT ![t] = New] /\ final' = [final EXCEPT ![t] = New]
      /\ UNCHANGED <<kind, target, row, stock, booked, raced>>
  BY DEF Refuse, Release, Forget
<1>2. TypeOK'
  <2>1. plan' \in [Slots -> Seq([product: Products, units: Int])]
    BY <1>1, EmptySeq DEF IInv, TypeOK
  <2>2. made' \in [Slots -> [Products -> Int]]
    BY <1>1 DEF IInv, TypeOK, Nothing
  <2>3. invLock' \in [Products -> Slots \cup {NoSlot}]
    BY <1>1 DEF IInv, TypeOK
  <2>4. pc' \in [Slots -> {"idle"} \cup InTx \cup Ended]
    BY <1>1 DEF IInv, TypeOK, Ended
  <2>5. seen' \in [Slots -> Row] /\ final' \in [Slots -> Row]
    BY <1>1 DEF IInv, TypeOK
  <2> QED BY <1>1, <2>1, <2>2, <2>3, <2>4, <2>5 DEF IInv, TypeOK
<1>3. StockNonNegative' /\ BookedAsStated'
  BY <1>1 DEF IInv, StockNonNegative, BookedAsStated
<1>4. SlotInv(t)'
  <2>1. pc'[t] = "refused" /\ plan'[t] = <<>> /\ made'[t] = Nothing /\ seen'[t] = New
    BY <1>1 DEF IInv, TypeOK
  <2>2. \A p \in Products : stock'[p] + Nothing[p] >= 0
    BY <1>1, <1>2, <1>3 DEF Nothing, StockNonNegative, TypeOK
  <2> QED BY <2>1, <2>2 DEF SlotInv, Balanced, Covered, Fresh, InTx, Nothing
<1>5. ASSUME NEW u \in Slots \ {t} PROVE SlotInv(u)'
  <2>1. Same(u) /\ \A w \in Slots : target'[w] = target[w]
    BY <1>1 DEF IInv, TypeOK, Same
  <2>2. Covered(u) /\ Fresh(u)
    BY DEF IInv
  <2>3. \A p \in Products : made[u][p] # 0 => invLock'[p] = u /\ stock'[p] + made[u][p] >= 0
    BY <1>1, <2>2 DEF Covered
  <2>4. \A p \in Products : stock'[p] \in Int /\ stock'[p] >= 0
    BY <1>2, <1>3 DEF StockNonNegative, TypeOK
  <2>5. (pc[u] \in InTx /\ kind[u] = "create")
           => row'[target[u]] = New /\ target'[t] # target[u]
    BY <1>1, <2>1, <2>2 DEF Fresh
  <2> QED BY <2>1, <2>3, <2>4, <2>5, OtherSlot
<1> QED BY <1>2, <1>3, <1>4, <1>5 DEF IInv, SlotInv

(* A request begins: nothing but its own slot changes, and what it plans   *)
(* is the difference between the row it read and the row it will write.    *)
LEMMA BegunIInv ==
  ASSUME IInv, NEW t \in Slots, pc[t] = "idle",
         NEW e \in Expenses, NEW k \in Kinds, NEW old \in Row, NEW r \in Row,
         UNCHANGED <<row, stock, booked, invLock, made, raced>>,
         target' = [target EXCEPT ![t] = e], kind' = [kind EXCEPT ![t] = k],
         pc' = [pc EXCEPT ![t] = "check"], seen' = [seen EXCEPT ![t] = old],
         final' = [final EXCEPT ![t] = r], plan' = [plan EXCEPT ![t] = Plan(old, r)],
         k = "create" => row[e] = New /\ \A u \in Slots : target[u] # e,
         k # "create" => row[e] # New
  PROVE  IInv'
<1>1. /\ Plan(old, r) \in Seq([product: Products, units: Int]) /\ Len(Plan(old, r)) <= 2
      /\ \A p \in Products : Left(Plan(old, r), p) = Effect(r)[p] - Effect(old)[p]
      /\ Effect(r) \in [Products -> Int] /\ Effect(old) \in [Products -> Int]
  BY PlanRight, EffectType DEF Changes
<1>2. TypeOK'
  BY <1>1 DEF IInv, TypeOK, InTx
<1>3. StockNonNegative' /\ BookedAsStated'
  BY DEF IInv, StockNonNegative, BookedAsStated
<1>4. SlotInv(t)'
  <2>1. /\ pc'[t] = "check" /\ target'[t] = e /\ kind'[t] = k /\ seen'[t] = old
        /\ final'[t] = r /\ plan'[t] = Plan(old, r) /\ made'[t] = made[t]
        /\ \A u \in Slots \ {t} : target'[u] = target[u]
    BY DEF IInv, TypeOK
  <2>2. made[t] = Nothing /\ Covered(t)
    BY DEF IInv, Covered, InTx
  <2>3. Balanced(t)'
    BY <1>1, <2>1, <2>2 DEF Balanced, Nothing, InTx
  <2>4. Covered(t)'
    BY <2>1, <2>2 DEF Covered, InTx
  <2>5. Fresh(t)'
    BY <2>1 DEF Fresh
  <2> QED BY <2>3, <2>4, <2>5 DEF SlotInv
<1>5. ASSUME NEW u \in Slots \ {t} PROVE SlotInv(u)'
  <2>1. Same(u) /\ (\A w \in Slots \ {t} : target'[w] = target[w]) /\ target'[t] = e
    BY DEF IInv, TypeOK, Same
  <2>2. Covered(u) /\ Fresh(u)
    BY DEF IInv
  <2>3. \A p \in Products : made[u][p] # 0 => invLock'[p] = u /\ stock'[p] + made[u][p] >= 0
    BY <2>2 DEF Covered
  <2>4. \A p \in Products : stock'[p] \in Int /\ stock'[p] >= 0
    BY <1>2, <1>3 DEF StockNonNegative, TypeOK
  <2>5. (pc[u] \in InTx /\ kind[u] = "create")
           => row'[target[u]] = New /\ target'[t] # target[u]
    BY <2>1, <2>2 DEF Fresh
  <2> QED BY <2>1, <2>3, <2>4, <2>5, OtherSlot
<1> QED BY <1>2, <1>3, <1>4, <1>5 DEF IInv, SlotInv

LEMMA SubmitCreateIInv == ASSUME IInv, NEW t \in Slots, SubmitCreate(t) PROVE IInv'
<1>1. PICK e \in Expenses, r \in LiveRows :
        /\ row[e] = New /\ \A u \in Slots : target[u] # e
        /\ target' = [target EXCEPT ![t] = e] /\ final' = [final EXCEPT ![t] = r]
        /\ plan' = [plan EXCEPT ![t] = Plan(New, r)]
  BY DEF SubmitCreate
<1>2. seen' = [seen EXCEPT ![t] = New]
  BY DEF SubmitCreate, IInv, TypeOK, Balanced, InTx
<1> QED BY <1>1, <1>2, BegunIInv, Constants DEF SubmitCreate, Kinds

LEMMA BeginChangeIInv == ASSUME IInv, NEW t \in Slots, BeginChange(t) PROVE IInv'
<1>1. PICK e \in Expenses, k \in {"edit", "delete"} :
        /\ row[e] # New
        /\ kind' = [kind EXCEPT ![t] = k] /\ target' = [target EXCEPT ![t] = e]
        /\ \/ /\ seen' = [seen EXCEPT ![t] = row[e]]
              /\ \E r \in LiveRows \cup {Gone} :
                   /\ final' = [final EXCEPT ![t] = r]
                   /\ plan' = [plan EXCEPT ![t] = Plan(row[e], r)]
              /\ pc' = [pc EXCEPT ![t] = "check"]
           \/ /\ pc' = [pc EXCEPT ![t] = "refused"]
              /\ UNCHANGED <<seen, final, plan>>
  BY DEF BeginChange
<1>2. pc[t] = "idle" /\ UNCHANGED <<row, stock, booked, invLock, made, raced>>
  BY DEF BeginChange
<1>3. CASE pc' = [pc EXCEPT ![t] = "check"]
  <2>1. row[e] \in Row
    BY DEF IInv, TypeOK
  <2>2. "refused" # "check" /\ t \in DOMAIN pc
    BY DEF IInv, TypeOK
  <2>3. PICK r \in Row :
          /\ seen' = [seen EXCEPT ![t] = row[e]]
          /\ final' = [final EXCEPT ![t] = r]
          /\ plan' = [plan EXCEPT ![t] = Plan(row[e], r)]
    BY <1>1, <1>3, <2>2, Constants
  <2> QED BY <1>1, <1>2, <1>3, <2>1, <2>3, BegunIInv DEF Kinds
<1>4. CASE pc' = [pc EXCEPT ![t] = "refused"] /\ UNCHANGED <<seen, final, plan>>
  <2>1. TypeOK' /\ StockNonNegative' /\ BookedAsStated'
    BY <1>1, <1>2, <1>4 DEF IInv, TypeOK, StockNonNegative, BookedAsStated, Kinds, Ended
  <2>2. SlotInv(t)'
    BY <1>2, <1>4 DEF IInv, TypeOK, SlotInv, Balanced, Covered, Fresh, InTx
  <2>3. ASSUME NEW u \in Slots \ {t} PROVE SlotInv(u)'
    <3>1. Same(u) /\ (\A w \in Slots \ {t} : target'[w] = target[w]) /\ target'[t] = e
      BY <1>1, <1>2, <1>4 DEF IInv, TypeOK, Same
    <3>2. Covered(u) /\ Fresh(u)
      BY DEF IInv
    <3> QED BY <1>1, <1>2, <2>1, <3>1, <3>2, OtherSlot DEF Covered, Fresh, StockNonNegative, TypeOK
  <2> QED BY <2>1, <2>2, <2>3 DEF IInv, SlotInv
<1> QED BY <1>1, <1>3, <1>4

LEMMA CheckIInv == ASSUME IInv, NEW t \in Slots, Check(t) PROVE IInv'
<1>1. /\ pc[t] = "check" /\ pc'[t] = (IF plan[t] = <<>> THEN "commit" ELSE "adjust")
      /\ \A u \in Slots \ {t} : pc'[u] = pc[u]
      /\ pc' \in [Slots -> {"idle"} \cup InTx \cup Ended]
      /\ UNCHANGED <<row, stock, booked, invLock, kind, target, seen, final, plan, made, raced>>
  BY DEF Check, locals, IInv, TypeOK, InTx
<1>2. TypeOK' /\ StockNonNegative' /\ BookedAsStated'
  BY <1>1 DEF IInv, TypeOK, StockNonNegative, BookedAsStated
<1>3. ASSUME NEW u \in Slots PROVE SlotInv(u)'
  <2>1. Balanced(u) /\ Covered(u) /\ Fresh(u)
    BY DEF IInv
  <2>2. Balanced(u)'
    BY <1>1, <2>1 DEF Balanced, InTx
  <2>3. Covered(u)' /\ Fresh(u)'
    BY <1>1, <2>1 DEF Covered, Fresh, InTx
  <2> QED BY <2>2, <2>3 DEF SlotInv
<1> QED BY <1>2, <1>3 DEF IInv, SlotInv

(* The lock was free, so nobody had moved units of the product: the        *)
(* quantity that is looked at is the quantity that is written.             *)
LEMMA AdjustIInv == ASSUME IInv, NEW t \in Slots, Adjust(t) PROVE IInv'
<1> DEFINE p == Head(plan[t]).product
           change == Head(plan[t]).units
<1>1. CASE Refuse(t)
  BY <1>1, RefuseIInv
<1>2. CASE ~Refuse(t)
  <2>1. /\ pc[t] = "adjust" /\ invLock[p] = NoSlot /\ stock[p] + change >= 0
        /\ invLock' = [invLock EXCEPT ![p] = t]
        /\ made' = [made EXCEPT ![t][p] = @ + change]
        /\ plan' = [plan EXCEPT ![t] = Tail(@)]
        /\ pc' = [pc EXCEPT ![t] = IF Tail(plan[t]) = <<>> THEN "commit" ELSE "check"]
        /\ UNCHANGED <<row, stock, booked, kind, target, seen, final, raced>>
    BY <1>2 DEF Adjust, Enough
  <2>2. /\ plan[t] \in Seq(Changes) /\ plan[t] # <<>> /\ Len(plan[t]) <= 2
        /\ Balanced(t) /\ Covered(t) /\ Fresh(t)
    BY <2>1 DEF IInv, TypeOK, Balanced, Changes
  <2>3. /\ p \in Products /\ change \in Int
        /\ Tail(plan[t]) \in Seq(Changes) /\ Len(Tail(plan[t])) <= 2
        /\ \A x \in Products :
             Left(plan[t], x) = Left(Tail(plan[t]), x) + (IF p = x THEN change ELSE 0)
    <3>1. Head(plan[t]) \in Changes
      BY <2>2, TailLeft
    <3> QED BY <2>2, <3>1, TailLeft DEF Changes
  <2> HIDE DEF p, change
  <2>4. \A u \in Slots : made[u] \in [Products -> Int] /\ made[u][p] = 0
    BY <2>1, <2>3, Constants DEF IInv, TypeOK, Covered
  <2>5. /\ pc'[t] \in {"commit", "check"} /\ (pc'[t] = "commit" <=> Tail(plan[t]) = <<>>)
        /\ plan'[t] = Tail(plan[t]) /\ made'[t] = [made[t] EXCEPT ![p] = @ + change]
        /\ kind'[t] = kind[t] /\ target'[t] = target[t]
        /\ seen'[t] = seen[t] /\ final'[t] = final[t]
        /\ \A u \in Slots \ {t} : Same(u)
    BY <2>1 DEF IInv, TypeOK, Same
  <2>6. \A x \in Products : made'[t][x] = IF x = p THEN change ELSE made[t][x]
    BY <2>3, <2>4, <2>5
  <2>7. TypeOK'
    <3>1. plan' \in [Slots -> Seq([product: Products, units: Int])]
      BY <2>1, <2>3 DEF IInv, TypeOK, Changes
    <3>2. made' \in [Slots -> [Products -> Int]]
      <4>1. [made[t] EXCEPT ![p] = @ + change] \in [Products -> Int]
        BY <2>3, <2>4
      <4>2. made' = [made EXCEPT ![t] = [made[t] EXCEPT ![p] = @ + change]]
        BY <2>1
      <4> QED BY <4>1, <4>2 DEF IInv, TypeOK
    <3>3. pc' \in [Slots -> {"idle"} \cup InTx \cup Ended]
      BY <2>1 DEF IInv, TypeOK, InTx
    <3> QED BY <2>1, <3>1, <3>2, <3>3 DEF IInv, TypeOK
  <2>8. StockNonNegative' /\ BookedAsStated'
    BY <2>1 DEF IInv, StockNonNegative, BookedAsStated
  <2>9. SlotInv(t)'
    <3>1. \A x \in Products :
            /\ made[t][x] \in Int /\ Left(Tail(plan[t]), x) \in Int
            /\ made[t][x] + Left(plan[t], x) = Effect(final[t])[x] - Effect(seen[t])[x]
      <4>1. \A x \in Products : Left(Tail(plan[t]), x) \in Int
        BY <2>3, LeftType
      <4> QED BY <2>1, <2>2, <2>4, <4>1 DEF Balanced, InTx
    <3>2. \A x \in Products :
            made'[t][x] + Left(plan'[t], x) = Effect(final'[t])[x] - Effect(seen'[t])[x]
      <4> SUFFICES ASSUME NEW x \in Products
                   PROVE  made'[t][x] + Left(Tail(plan[t]), x) = made[t][x] + Left(plan[t], x)
        BY <2>5, <3>1
      <4>1. CASE x = p
        BY <2>3, <2>4, <2>6, <3>1, <4>1
      <4>2. CASE x # p
        BY <2>3, <2>6, <3>1, <4>2
      <4> QED BY <4>1, <4>2
    <3>3. Balanced(t)'
      BY <2>1, <2>2, <2>3, <2>5, <3>2 DEF Balanced, InTx
    <3>4. Covered(t)'
      BY <2>1, <2>2, <2>3, <2>5, <2>6 DEF Covered, InTx, IInv, TypeOK
    <3>5. Fresh(t)'
      BY <2>1, <2>2 DEF Fresh, InTx
    <3> QED BY <3>3, <3>4, <3>5 DEF SlotInv
  <2>10. ASSUME NEW u \in Slots \ {t} PROVE SlotInv(u)'
    <3>1. Same(u) /\ Covered(u) /\ Fresh(u) /\ made[u][p] = 0
      BY <2>4, <2>5 DEF IInv
    <3>2. \A x \in Products :
            made[u][x] # 0 => invLock'[x] = u /\ stock'[x] + made[u][x] >= 0
      BY <2>1, <3>1 DEF Covered, IInv, TypeOK
    <3>3. \A x \in Products : stock'[x] \in Int /\ stock'[x] >= 0
      BY <2>7, <2>8 DEF StockNonNegative, TypeOK
    <3>4. (pc[u] \in InTx /\ kind[u] = "create")
             => row'[target[u]] = New /\ target'[t] # target[u]
      BY <2>1, <2>5, <3>1 DEF Fresh
    <3> QED BY <2>1, <3>1, <3>2, <3>3, <3>4, OtherSlot
  <2> QED BY <2>7, <2>8, <2>9, <2>10 DEF IInv, SlotInv
<1> QED BY <1>1, <1>2

(* The commit books what was made, which by then is the difference between *)
(* the row that was read and the row that is written.                      *)
LEMMA CommitIInv == ASSUME IInv, NEW t \in Slots, Commit(t) PROVE IInv'
<1> DEFINE e == target[t]
<1> USE Constants
<1>1. CASE Refuse(t)
  BY <1>1, RefuseIInv
<1>2. CASE ~Refuse(t)
  <2>1. /\ pc[t] = "commit" /\ RowThere(t)
        /\ row' = [row EXCEPT ![e] = final[t]]
        /\ stock' = [p \in Products |-> stock[p] + made[t][p]]
        /\ booked' = [booked EXCEPT ![e] = [p \in Products |-> booked[e][p] + made[t][p]]]
        /\ raced' = IF row[e] = seen[t] THEN raced ELSE raced \cup {e}
        /\ pc' = [pc EXCEPT ![t] = "done"]
        /\ invLock' = [p \in Products |-> IF invLock[p] = t THEN NoSlot ELSE invLock[p]]
        /\ plan' = [plan EXCEPT ![t] = <<>>] /\ made' = [made EXCEPT ![t] = Nothing]
        /\ seen' = [seen EXCEPT ![t] = New] /\ final' = [final EXCEPT ![t] = New]
        /\ UNCHANGED <<kind, target>>
    <3>1. booked' = [booked EXCEPT ![e] = [p \in Products |-> @[p] + made[t][p]]]
      BY <1>2 DEF Commit
    <3> QED BY <1>2, <3>1 DEF Commit, Release, Forget, IInv, TypeOK
  <2>2. Balanced(t) /\ Covered(t) /\ Fresh(t) /\ e \in Expenses
    BY <2>1 DEF IInv, Balanced, InTx
  <2>3. /\ made[t] \in [Products -> Int] /\ final[t] \in Row /\ seen[t] \in Row
        /\ \A p \in Products : stock[p] \in Int /\ stock[p] >= 0
    BY DEF IInv, TypeOK, StockNonNegative
  <2>4. \A p \in Products : made[t][p] = Effect(final[t])[p] - Effect(seen[t])[p]
    BY <2>1, <2>2, <2>3, EmptyLeft DEF Balanced, InTx
  <2> HIDE DEF e
  <2>5. TypeOK'
    <3>1. plan' \in [Slots -> Seq([product: Products, units: Int])]
      BY <2>1, EmptySeq DEF IInv, TypeOK
    <3>2. made' \in [Slots -> [Products -> Int]] /\ stock' \in [Products -> Int]
      BY <2>1, <2>3 DEF IInv, TypeOK, Nothing
    <3>3. booked' \in [Expenses -> [Products -> Int]]
      <4>1. [p \in Products |-> booked[e][p] + made[t][p]] \in [Products -> Int]
        BY <2>2, <2>3 DEF IInv, TypeOK
      <4> QED BY <2>1, <2>2, <4>1 DEF IInv, TypeOK
    <3>4. invLock' \in [Products -> Slots \cup {NoSlot}]
      BY <2>1 DEF IInv, TypeOK
    <3>5. pc' \in [Slots -> {"idle"} \cup InTx \cup Ended]
      BY <2>1 DEF IInv, TypeOK, Ended
    <3>6. row' \in [Expenses -> Row] /\ raced' \subseteq Expenses
      BY <2>1, <2>2, <2>3 DEF IInv, TypeOK
    <3>7. seen' \in [Slots -> Row] /\ final' \in [Slots -> Row]
      BY <2>1 DEF IInv, TypeOK
    <3> QED BY <2>1, <3>1, <3>2, <3>3, <3>4, <3>5, <3>6, <3>7 DEF IInv, TypeOK
  <2>6. StockNonNegative'
    BY <2>1, <2>2 DEF StockNonNegative, Covered
  <2>7. BookedAsStated'
    <3> SUFFICES ASSUME NEW x \in Expenses, x \notin raced'
                 PROVE  booked'[x] = Effect(row'[x])
      BY DEF BookedAsStated
    <3>1. x \notin raced /\ booked[x] = Effect(row[x])
      BY <2>1 DEF IInv, BookedAsStated
    <3>2. CASE x # e
      BY <2>1, <3>1, <3>2 DEF IInv, TypeOK
    <3>3. CASE x = e
      <4>1. row[e] = seen[t]
        BY <2>1, <3>3
      <4>2. \A p \in Products : booked[e][p] + made[t][p] = Effect(final[t])[p]
        BY <2>3, <2>4, <3>1, <3>3, <4>1, EffectType
      <4>3. booked'[e] = [p \in Products |-> Effect(final[t])[p]]
        BY <2>1, <2>2, <4>2 DEF IInv, TypeOK
      <4>4. row'[e] = final[t]
        BY <2>1, <2>2 DEF IInv, TypeOK
      <4> QED BY <3>3, <4>3, <4>4, EffectType, <2>3 DEF Effect
    <3> QED BY <3>2, <3>3
  <2>8. SlotInv(t)'
    <3>1. pc'[t] = "done" /\ plan'[t] = <<>> /\ made'[t] = Nothing /\ seen'[t] = New
      BY <2>1 DEF IInv, TypeOK
    <3>2. \A p \in Products : stock'[p] + Nothing[p] >= 0
      BY <2>5, <2>6 DEF Nothing, StockNonNegative, TypeOK
    <3> QED BY <3>1, <3>2 DEF SlotInv, Balanced, Covered, Fresh, InTx, Nothing
  <2>9. ASSUME NEW u \in Slots \ {t} PROVE SlotInv(u)'
    <3>1. Same(u) /\ \A w \in Slots : target'[w] = target[w]
      BY <2>1 DEF IInv, TypeOK, Same
    <3>2. Covered(u) /\ Fresh(u)
      BY DEF IInv
    <3>3. \A p \in Products : made[u][p] # 0 => invLock'[p] = u /\ stock'[p] + made[u][p] >= 0
      <4> SUFFICES ASSUME NEW p \in Products, made[u][p] # 0
                   PROVE  invLock'[p] = u /\ stock'[p] + made[u][p] >= 0
        OBVIOUS
      <4>1. invLock[p] = u /\ stock[p] + made[u][p] >= 0
        BY <3>2 DEF Covered
      <4>2. made[t][p] = 0
        BY <2>2, <4>1 DEF Covered
      <4> QED BY <2>1, <2>3, <4>1, <4>2
    <3>4. \A p \in Products : stock'[p] \in Int /\ stock'[p] >= 0
      BY <2>5, <2>6 DEF StockNonNegative, TypeOK
    <3>5. (pc[u] \in InTx /\ kind[u] = "create")
             => row'[target[u]] = New /\ target'[t] # target[u]
      <4> SUFFICES ASSUME pc[u] \in InTx, kind[u] = "create"
                   PROVE  row'[target[u]] = New /\ target'[t] # target[u]
        OBVIOUS
      <4>1. row[target[u]] = New /\ e # target[u] /\ target[u] \in Expenses
        BY <3>2 DEF Fresh, e, IInv, Balanced
      <4>2. row'[target[u]] = row[target[u]]
        BY <2>1, <2>2, <4>1 DEF IInv, TypeOK
      <4> QED BY <3>1, <4>1, <4>2 DEF e
    <3> QED BY <3>1, <3>3, <3>4, <3>5, OtherSlot
  <2> QED BY <2>5, <2>6, <2>7, <2>8, <2>9 DEF IInv, SlotInv
<1> QED BY <1>1, <1>2

LEMMA OtherTrafficIInv == ASSUME IInv, NEW p \in Products, OtherTraffic(p) PROVE IInv'
<1>1. /\ invLock[p] = NoSlot
      /\ UNCHANGED <<row, booked, invLock, pc, kind, target, seen, final, plan, made, raced>>
      /\ stock' \in [Products -> Int] /\ stock'[p] >= 0
      /\ \A x \in Products \ {p} : stock'[x] = stock[x]
  BY ConstantsAssumption DEF OtherTraffic, locals, IInv, TypeOK, StockNonNegative
<1>2. TypeOK' /\ StockNonNegative' /\ BookedAsStated'
  BY <1>1 DEF IInv, TypeOK, StockNonNegative, BookedAsStated
<1>3. ASSUME NEW u \in Slots PROVE SlotInv(u)'
  <2>1. Balanced(u) /\ Covered(u) /\ Fresh(u) /\ made[u] \in [Products -> Int]
    BY DEF IInv, TypeOK
  <2>2. made[u][p] = 0
    BY <1>1, <2>1, Constants DEF Covered
  <2>3. \A x \in Products : stock'[x] + made[u][x] >= 0
    BY <1>1, <2>1, <2>2 DEF Covered
  <2> QED BY <1>1, <2>1, <2>3 DEF SlotInv, Balanced, Covered, Fresh
<1> QED BY <1>2, <1>3 DEF IInv, SlotInv

LEMMA NextIInv == IInv /\ [Next]_vars => IInv'
<1> SUFFICES ASSUME IInv, [Next]_vars PROVE IInv'
  OBVIOUS
<1>1. ASSUME NEW t \in Slots, SubmitCreate(t) PROVE IInv'
  BY <1>1, SubmitCreateIInv
<1>2. ASSUME NEW t \in Slots, BeginChange(t) PROVE IInv'
  BY <1>2, BeginChangeIInv
<1>3. ASSUME NEW t \in Slots, Check(t) PROVE IInv'
  BY <1>3, CheckIInv
<1>4. ASSUME NEW t \in Slots, Adjust(t) PROVE IInv'
  BY <1>4, AdjustIInv
<1>5. ASSUME NEW t \in Slots, Commit(t) PROVE IInv'
  BY <1>5, CommitIInv
<1>6. ASSUME NEW t \in Slots, Fail(t) \/ DeadlockAbort(t) PROVE IInv'
  BY <1>6, RefuseIInv DEF Fail, DeadlockAbort
<1>7. ASSUME NEW p \in Products, OtherTraffic(p) PROVE IInv'
  BY <1>7, OtherTrafficIInv
<1>8. CASE UNCHANGED vars
  <2>1. UNCHANGED <<row, stock, booked, invLock, pc, kind, target, seen, final, plan, made, raced>>
    BY <1>8 DEF vars, locals
  <2>2. TypeOK' /\ StockNonNegative' /\ BookedAsStated'
    BY <2>1 DEF IInv, TypeOK, StockNonNegative, BookedAsStated
  <2>3. ASSUME NEW t \in Slots PROVE SlotInv(t)'
    <3>1. Balanced(t) /\ Covered(t) /\ Fresh(t)
      BY DEF IInv
    <3> QED BY <2>1, <3>1 DEF SlotInv, Balanced, Covered, Fresh
  <2> QED BY <2>2, <2>3 DEF IInv, SlotInv
<1> QED BY <1>1, <1>2, <1>3, <1>4, <1>5, <1>6, <1>7, <1>8 DEF Next, Proceed

(* Expenses, plans, locks and stock fit together in every reachable state: *)
(* the invariant the other theorems rest on.                               *)
THEOREM Invariance == Spec => []IInv
  BY InitIInv, NextIInv, PTL DEF Spec

(* The state of Purchases is well typed for any constants.                 *)
THEOREM TypeCorrect == Spec => []TypeOK
<1>1. IInv => TypeOK
  BY DEF IInv
<1> QED BY <1>1, Invariance, PTL

(* No correction, deletion or creation of a purchase drives a quantity     *)
(* below zero.                                                             *)
THEOREM StockSafety == Spec => []StockNonNegative
<1>1. IInv => StockNonNegative
  BY DEF IInv
<1> QED BY <1>1, Invariance, PTL

(* An expense nobody wrote over unseen has moved exactly the units that    *)
(* its row says.                                                           *)
THEOREM BooksFollowExpenses == Spec => []BookedAsStated
<1>1. IInv => BookedAsStated
  BY DEF IInv
<1> QED BY <1>1, Invariance, PTL

(* A deleted expense stays deleted, and nothing more is booked to it.      *)
THEOREM DeletionIsFinal == Spec => DeletedIsFinal
<1> DEFINE Kept == \A e \in Expenses : row[e].status \notin {"new", "live"}
                     => row'[e] = row[e] /\ booked'[e] = booked[e]
<1>1. IInv /\ [Next]_vars => [Kept]_vars
  <2> SUFFICES ASSUME IInv, Next, NEW e \in Expenses, row[e].status \notin {"new", "live"}
               PROVE  row'[e] = row[e] /\ booked'[e] = booked[e]
    OBVIOUS
  <2>1. ASSUME NEW t \in Slots, Refuse(t) PROVE row'[e] = row[e] /\ booked'[e] = booked[e]
    BY <2>1 DEF Refuse
  <2>2. ASSUME NEW t \in Slots, Commit(t), ~Refuse(t)
        PROVE  row'[e] = row[e] /\ booked'[e] = booked[e]
    <3>1. row[target[t]].status \in {"new", "live"}
      <4>1. pc[t] = "commit" /\ RowThere(t) /\ Fresh(t)
        BY <2>2 DEF Commit, IInv
      <4> QED BY <4>1 DEF RowThere, Fresh, New, InTx
    <3> QED BY <2>2, <3>1 DEF Commit, IInv, TypeOK
  <2>3. ASSUME NEW t \in Slots, SubmitCreate(t) \/ BeginChange(t) \/ Check(t)
        PROVE  row'[e] = row[e] /\ booked'[e] = booked[e]
    BY <2>3 DEF SubmitCreate, BeginChange, Check
  <2>4. ASSUME NEW t \in Slots, Adjust(t), ~Refuse(t)
        PROVE  row'[e] = row[e] /\ booked'[e] = booked[e]
    BY <2>4 DEF Adjust
  <2>5. ASSUME NEW p \in Products, OtherTraffic(p)
        PROVE  row'[e] = row[e] /\ booked'[e] = booked[e]
    BY <2>5 DEF OtherTraffic
  <2> QED BY <2>1, <2>2, <2>3, <2>4, <2>5 DEF Next, Proceed, Fail, DeadlockAbort
<1> QED BY <1>1, Invariance, PTL DEF Spec, DeletedIsFinal
=============================================================================
