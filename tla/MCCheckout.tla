------------------------------ MODULE MCCheckout ------------------------------
(***************************************************************************)
(* Instances of Checkout for TLC: two products and a small menu of         *)
(* requests for each question.                                             *)
(***************************************************************************)
EXTENDS Checkout, TLC

CONSTANTS p1, p2

Units1(p, q) == [x \in Products |-> IF x = p THEN q ELSE 0]
Units2(q1, q2) == (p1 :> q1) @@ (p2 :> q2)

Sale1(p, q) == [kind |-> "sale", order |-> <<p>>, units |-> Units1(p, q), target |-> NoTx]
Sale2(o, q1, q2) == [kind |-> "sale", order |-> o, units |-> Units2(q1, q2), target |-> NoTx]
Cart(p, q) == [kind |-> "validate", order |-> <<p>>, units |-> Units1(p, q), target |-> NoTx]
Stock(k, p, q) == [kind |-> k, order |-> <<p>>, units |-> Units1(p, q), target |-> NoTx]
Void(t) == [kind |-> "void", order |-> <<>>, units |-> Units1(p1, 0), target |-> t]

TwoOpening == Units2(2, 1)
Symmetric == Permutations(Txs)

(* One of every kind: a two-line and a one-line cart, a validation, an     *)
(* adjustment, a count, a purchase and the voids of any sale.              *)
EveryKind ==
  {Sale2(<<p1, p2>>, 1, 1), Sale1(p2, 1), Cart(p1, 1),
   Stock("adjust", p1, -1), Stock("count", p2, 2), Stock("purchase", p1, 1)}
    \cup {Void(t) : t \in Txs}

(* A sale and an inventory purchase of one and the same product.           *)
SaleAndPurchase == {Sale1(p1, 1), Stock("purchase", p1, 1)}
=============================================================================
