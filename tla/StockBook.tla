------------------------------ MODULE StockBook ------------------------------
(***************************************************************************)
(* What the inventory and sales tables promise to the shop, with every     *)
(* operation a single atomic step: a sale takes units that are there, a    *)
(* void gives back the units of a completed sale once, an adjustment never *)
(* drives a quantity below zero, a count replaces it.                      *)
(* Checkout.tla implements this book with concurrent transactions.         *)
(***************************************************************************)
EXTENDS Integers

CONSTANTS
  Products,   \* the products the shop stocks
  Sales,      \* sale identifiers
  Baskets,    \* the units a sale may take of every product
  Changes,    \* the signed changes an adjustment may make
  Counts,     \* the quantities a count may find
  Opening     \* [Products -> Nat], the quantity each product starts with

VARIABLES
  stock,      \* inventory_items.quantity
  status,     \* sales.status, "none" before the row exists
  sold        \* the units of every product a sale took

bookVars == <<stock, status, sold>>

BookInit ==
  /\ stock = Opening
  /\ status = [s \in Sales |-> "none"]
  /\ sold = [s \in Sales |-> [p \in Products |-> 0]]

(* A sale commits only when every product still holds the units it takes.  *)
Sell(s, units) ==
  /\ status[s] = "none"
  /\ \A p \in Products : units[p] <= stock[p]
  /\ stock' = [p \in Products |-> stock[p] - units[p]]
  /\ status' = [status EXCEPT ![s] = "completed"]
  /\ sold' = [sold EXCEPT ![s] = units]

(* Voiding gives back exactly what the sale took, and only once.           *)
VoidSale(s) ==
  /\ status[s] = "completed"
  /\ stock' = [p \in Products |-> stock[p] + sold[s][p]]
  /\ status' = [status EXCEPT ![s] = "voided"]
  /\ UNCHANGED sold

Adjust(p, change) ==
  /\ stock[p] + change >= 0
  /\ stock' = [stock EXCEPT ![p] = @ + change]
  /\ UNCHANGED <<status, sold>>

Count(p, quantity) ==
  /\ stock' = [stock EXCEPT ![p] = quantity]
  /\ UNCHANGED <<status, sold>>

BookNext ==
  \/ \E s \in Sales, units \in Baskets : Sell(s, units)
  \/ \E s \in Sales : VoidSale(s)
  \/ \E p \in Products, change \in Changes : Adjust(p, change)
  \/ \E p \in Products, quantity \in Counts : Count(p, quantity)

BookSpec == BookInit /\ [][BookNext]_bookVars
=============================================================================
