------------------------------ MODULE PosTotals ------------------------------
(***************************************************************************)
(* The amounts of a sale, once as the point of sale computes them for the  *)
(* cashier and once as the server computes them before it accepts the      *)
(* payment. Amounts are hundredths of the currency unit, rates and         *)
(* discounts whole per cents; a product of the two is therefore in         *)
(* ten-thousandths, the unit of the server's exact decimals. The error of  *)
(* binary floating point is left out.                                      *)
(***************************************************************************)
EXTENDS Integers, FiniteSets, Functions

CONSTANTS
  Products,
  TaxRate     \* [Products -> Nat], products.tax_rate in per cent

ASSUME TaxRateAssumption ==
  IsFiniteSet(Products) /\ TaxRate \in [Products -> 0..100]

(* A cart holds, for each product, a quantity and the unit price of the    *)
(* product record that was put into it.                                    *)
Line(cart, p) == cart[p].price * cart[p].qty

(* Ten-thousandths to the nearest hundredth, half upwards.                 *)
RoundCurrencyAmount(x) == (x + 50) \div 100

Subtotal(cart) == SumFunction([p \in Products |-> Line(cart, p)])
TotalTax(cart) ==
  SumFunction([p \in Products |->
                 RoundCurrencyAmount(Line(cart, p) * TaxRate[p])])
(* Mutant: the discount is taken from the taxed amount.                    *)
TaxedDiscount(cart, discount) ==
  RoundCurrencyAmount((Subtotal(cart) + TotalTax(cart)) * discount)
DiscountAmount(cart, discount) == RoundCurrencyAmount(Subtotal(cart) * discount)
CartTotal(cart, discount) ==
  Subtotal(cart) + TotalTax(cart) - DiscountAmount(cart, discount)

(* The server's total of the same goods, in ten-thousandths: nothing is    *)
(* rounded, neither the tax of an item nor the discount.                   *)
ServerTotal(cart, discount) ==
  100 * Subtotal(cart)
    + SumFunction([p \in Products |-> Line(cart, p) * TaxRate[p]])
    - Subtotal(cart) * discount

(* validateSaleFinancialIntegrity: the payments are the total, exactly.    *)
PaymentMatches(amount, cart, discount) ==
  100 * amount = ServerTotal(cart, discount)
(* validateSalePaymentTender, for no tender at all and for cash.           *)
TenderFits(amount, tendered, change) ==
  \/ tendered = 0 /\ change = 0
  \/ tendered >= amount /\ change = tendered - amount
=============================================================================
