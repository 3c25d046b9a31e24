----------------------------- MODULE MCCashShift -----------------------------
(* Instances of CashShift for TLC. Cash amounts are distinct powers of    *)
(* two, so that a sum tells which rows it counts.                          *)
EXTENDS CashShift, TLC

CONSTANTS s1, s2

Shift2 == {s1, s2}
Opening2 == (s1 :> 16) @@ (s2 :> 32)

Plain(kind, total, cash) ==
  [kind |-> kind, total |-> total, cash |-> cash, target |-> None, form |-> None]

Voids == {[NoRequest EXCEPT !.kind = "void", !.target = t] : t \in Txs}

(* One of each; one form names the shift it was opened on.                 *)
EveryKind ==
  {Plain("start", 0, 0), Plain("sale", 3, 1), Plain("pay_in", 4, 0),
   Plain("pay_out", 8, 0), Plain("close", 0, 0),
   [Plain("close", 0, 0) EXCEPT !.form = s1]} \cup Voids

Symmetric == Permutations(Txs)
=============================================================================
