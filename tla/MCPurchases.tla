----------------------------- MODULE MCPurchases -----------------------------
(* Instances of Purchases for TLC: a little stock of every product.        *)
EXTENDS Purchases, TLC

OneEach == [p \in Products |-> 1]
Symmetric == Permutations(Slots) \cup Permutations(Expenses) \cup Permutations(Products)
=============================================================================
