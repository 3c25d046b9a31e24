--------------------------- MODULE MCBrowserSession ---------------------------
(***************************************************************************)
(* One run for a tab and for the accounts its device remembers. The two    *)
(* share no variable: one is explored while the other rests where it began.*)
(* Bound: the tab of a user who may be deactivated is explored with access *)
(* tokens that last, the tab whose tokens expire with a user who stays.    *)
(***************************************************************************)
EXTENDS BrowserSession, QuickAccess, TLC

VARIABLE part

BothInit == Init /\ QuickInit /\ part \in {"stays", "deactivated", "accounts"}

BothNext ==
  /\ \/ part = "stays" /\ Next /\ active' = Users /\ UNCHANGED quickVars
     \/ part = "deactivated" /\ Next /\ ~Expire /\ UNCHANGED quickVars
     \/ part = "accounts" /\ QuickNext /\ UNCHANGED vars
  /\ UNCHANGED part

BothSpec == BothInit /\ [][BothNext]_<<part, vars, quickVars>>

Symmetric == Permutations(Slots) \cup Permutations(Streams) \cup Permutations(Ids)
===============================================================================
