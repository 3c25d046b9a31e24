------------------------------ MODULE PosScreen ------------------------------
(***************************************************************************)
(* The point of sale screen of one cashier: the cart, the shift bar and    *)
(* the four dialogs, with the requests their handlers wait for. A handler  *)
(* runs from one await to the next; between them the cashier may use       *)
(* whatever the screen leaves enabled, the 30-second poll may fire, and    *)
(* the server, other registers included, moves on.                         *)
(*                                                                         *)
(* Amounts and reasons typed into the shift and drawer dialogs decide      *)
(* nothing and are left out. Prices are changed in the back office at any  *)
(* moment: the price a product has is chosen when the server looks at it.  *)
(* Stock is Checkout's.                                                    *)
(***************************************************************************)
EXTENDS PosTotals, Sequences, FiniteSets

CONSTANTS
  Shifts,      \* shifts that may be opened, by anybody
  Slots,       \* handlers that may be waiting for an answer at once
  None,        \* no shift
  Prices,      \* unit prices a product may be given
  GridPrices,  \* bound: those of them a record in the grid may carry
  Discounts,   \* percentages the cashier may enter
  Tenders,     \* amounts the cashier may enter as received
  MaxQty,      \* bound: quantity of a product in the cart
  MaxLost      \* bound: answers to recorded sales the network loses

Dialogs  == {"start", "drawer", "details", "checkout"}
Handlers == {"none", "poll", "checkout", "complete", "end", "start", "drawer",
             "details"}
Apis     == {"getShift", "validate", "createSale", "closeShift", "startShift",
             "cashDrawer", "getOperations"}
(* The server's refusal of the amounts is told apart from other errors.    *)
Errors   == {"error", "amount"}
Answers  == Shifts \cup Errors \cup {None, "pending", "ok"}

ASSUME PosAssumption ==
  /\ IsFiniteSet(Slots) /\ Slots # {} /\ None \notin Shifts
  /\ (Shifts \cup {None}) \cap (Errors \cup {"pending", "ok"}) = {}
  /\ Prices \subseteq Nat \ {0} /\ GridPrices \subseteq Prices
  /\ Discounts \subseteq 0..100 /\ 0 \in Discounts
  /\ Tenders \subseteq Nat /\ MaxQty \in Nat \ {0} /\ MaxLost \in Nat

VARIABLES
  (* the server *)
  openShift,     \* the shift whose status is open
  started,       \* shifts opened so far
  (* the screen *)
  currentShift, cart, discount,
  dialogs,       \* open dialogs, the topmost last
  isProcessing, isSubmittingOp, saleComplete, shiftClosed,
  call,          \* what each waiting handler has asked and remembers
  (* history *)
  sold,          \* sales recorded of the cart as it stands
  lost           \* answers to recorded sales that never arrived

server  == <<openShift, started>>
order   == <<cart, discount>>
busy    == <<isProcessing, isSubmittingOp>>
history == <<sold, lost>>
vars    == <<server, currentShift, order, dialogs, saleComplete, busy, shiftClosed,
             call, history>>
-----------------------------------------------------------------------------
EmptyCart == [p \in Products |-> [qty |-> 0, price |-> 0]]
Total     == CartTotal(cart, discount)

NoCall == [handler |-> "none", api |-> "getShift", answer |-> "pending",
           shift |-> None, cart |-> EmptyCart, discount |-> 0, total |-> 0,
           tendered |-> 0, change |-> 0,
           watched |-> TRUE, where |-> None]
Idle(s)      == call[s].handler = "none"
Waiting(s)   == ~Idle(s) /\ call[s].answer = "pending"
Resumes(s,h,a) ==
  call[s].handler = h /\ call[s].api = a /\ call[s].answer # "pending"
Refused(s)   == call[s].answer \in Errors

(* A handler asks, goes on to its next request, or returns.                *)
Ask(h, a, asked) ==
  \E s \in Slots : /\ Idle(s)
                   /\ call' = [call EXCEPT ![s] =
                        [asked EXCEPT !.handler = h, !.api = a]]
Then(s, a, asked) ==
  call' = [call EXCEPT ![s] = [asked EXCEPT !.api = a, !.answer = "pending"]]
Return(s) == call' = [call EXCEPT ![s] = NoCall]

Top       == IF dialogs = <<>> THEN "none" ELSE dialogs[Len(dialogs)]
Shown(d)  == \E i \in DOMAIN dialogs : dialogs[i] = d
Opened(d) == IF Shown(d) THEN dialogs ELSE Append(dialogs, d)
Place(d)  == CHOOSE i \in DOMAIN dialogs : dialogs[i] = d
Closed(d) == IF Shown(d)
               THEN SubSeq(dialogs, 1, Place(d) - 1)
                      \o SubSeq(dialogs, Place(d) + 1, Len(dialogs))
               ELSE dialogs

(* The shift a request names; without one the server takes the open shift. *)
(* Mutant: requests carry no shift.                                        *)
NoShiftSent(shift) == None
ShiftSent(shift)   == shift
ShiftFits(sent)    == openShift # None /\ (sent = None \/ sent = openShift)

(* Mutant: the button ignores isProcessing.                                *)
AlwaysEnabled == TRUE
SubmitEnabled == ~isProcessing
-----------------------------------------------------------------------------
Init ==
  /\ openShift \in Shifts \cup {None}
  /\ started = {openShift} \ {None}
  /\ currentShift = None /\ cart = EmptyCart /\ discount = 0
  /\ dialogs = <<>>
  /\ isProcessing = FALSE /\ isSubmittingOp = FALSE
  /\ saleComplete = FALSE /\ shiftClosed = FALSE
  /\ call = [s \in Slots |-> NoCall]
  /\ sold = 0 /\ lost = 0
-----------------------------------------------------------------------------
(* The server answers. Each endpoint is one step here; CashShift and       *)
(* Checkout have their transactions.                                       *)
Answer(s, a) == call' = [call EXCEPT ![s].answer = a]
(* What the call asks for is booked in the open shift.                     *)
Book(s) == call' = [call EXCEPT ![s].answer = "ok", ![s].where = openShift]

PricesStand(c, now) == \A p \in Products : c[p].qty > 0 => c[p].price = now[p]

ServeRead(s) ==
  /\ Waiting(s)
  /\ \/ call[s].api = "getShift" /\ Answer(s, openShift)
     \/ call[s].api = "getOperations" /\ Answer(s, "ok")
     \/ /\ call[s].api = "validate"
        /\ \E now \in [Products -> Prices] :
             Answer(s, IF /\ ShiftFits(ShiftSent(call[s].shift))
                          /\ PricesStand(call[s].cart, now)
                       THEN "ok" ELSE "error")
  /\ UNCHANGED <<server, currentShift, order, dialogs, saleComplete,
                 busy, shiftClosed, history>>

(* A sale is refused when another shift is open, a price has changed, or   *)
(* the payments are not the total.                                         *)
Refusal(c, now) ==
  IF ~ShiftFits(ShiftSent(c.shift)) \/ ~PricesStand(c.cart, now) THEN "error"
  ELSE IF \/ ~PaymentMatches(c.total, c.cart, c.discount)
          \/ ~TenderFits(c.total, c.tendered, c.change) THEN "amount"
  ELSE "none"

ServeSale(s) ==
  /\ Waiting(s) /\ call[s].api = "createSale"
  /\ \E now \in [Products -> Prices] :
       IF Refusal(call[s], now) = "none"
         THEN Book(s) /\ sold' = IF call[s].cart = cart THEN sold + 1 ELSE sold
         ELSE Answer(s, Refusal(call[s], now)) /\ UNCHANGED sold
  /\ UNCHANGED <<server, currentShift, order, dialogs, saleComplete,
                 busy, shiftClosed, lost>>

(* closeShift, payIn and payOut.                                           *)
ServeDrawer(s) ==
  /\ Waiting(s) /\ call[s].api \in {"closeShift", "cashDrawer"}
  /\ IF ShiftFits(ShiftSent(call[s].shift))
       THEN /\ Book(s)
            /\ openShift' = IF call[s].api = "closeShift" THEN None
                            ELSE openShift
       ELSE Answer(s, "error") /\ UNCHANGED openShift
  /\ UNCHANGED <<started, currentShift, order, dialogs,
                 saleComplete, busy, shiftClosed, history>>

ServeStart(s) ==
  /\ Waiting(s) /\ call[s].api = "startShift"
  /\ IF openShift = None /\ started # Shifts
       THEN \E new \in Shifts \ started :
              /\ openShift' = new /\ started' = started \cup {new}
              /\ Answer(s, new)
       ELSE Answer(s, "error") /\ UNCHANGED <<openShift, started>>
  /\ UNCHANGED <<currentShift, order, dialogs, saleComplete, busy, shiftClosed,
                 history>>

(* A request is lost before it is served, or its answer afterwards.        *)
Lose(s) ==
  /\ ~Idle(s) /\ ~Refused(s) /\ Answer(s, "error")
  /\ IF call[s].api = "createSale" /\ call[s].answer = "ok"
       THEN lost < MaxLost /\ lost' = lost + 1
       ELSE UNCHANGED lost
  /\ UNCHANGED <<server, currentShift, order, dialogs, saleComplete, busy,
                 shiftClosed, sold>>

(* Other registers and the shifts screen.                                  *)
Others ==
  /\ \/ openShift # None /\ openShift' = None /\ UNCHANGED started
     \/ /\ openShift = None
        /\ \E new \in Shifts \ started :
             openShift' = new /\ started' = started \cup {new}
  /\ UNCHANGED <<currentShift, order, dialogs, saleComplete, busy,
                 shiftClosed, call, history>>
-----------------------------------------------------------------------------
(* The cart. A modal dialog keeps the cashier from it.                     *)
(* Mutant: a dialog leaves the rest of the screen in reach.                *)
Reachable(d) == TRUE
Behind(d) == Top = d
Edit(newCart) ==
  /\ Behind("none") /\ newCart # cart
  /\ cart' = newCart /\ sold' = 0
  /\ UNCHANGED <<server, currentShift, dialogs, saleComplete, busy,
                 shiftClosed, call, lost>>

(* What the cards of the grid and the cart beside it offer.                *)
CardOffered     == Behind("none") /\ currentShift # None
CheckoutOffered == Behind("none") /\ currentShift # None /\ cart # EmptyCart

(* The grid's record of a product may be of an earlier price, and a        *)
(* product already in the cart keeps the record it was added with.         *)
AddToCart(p) ==
  /\ CardOffered /\ cart[p].qty < MaxQty /\ UNCHANGED discount
  /\ \E record \in GridPrices :
       Edit([cart EXCEPT ![p] =
               [qty   |-> @.qty + 1,
                price |-> IF @.qty = 0 THEN record ELSE @.price]])
UpdateQuantity(p, delta) ==
  /\ cart[p].qty > 0 /\ cart[p].qty + delta <= MaxQty /\ UNCHANGED discount
  /\ Edit([cart EXCEPT ![p] = IF @.qty + delta <= 0 THEN EmptyCart[p]
                              ELSE [qty |-> @.qty + delta, price |-> @.price]])
RemoveFromCart(p) ==
  /\ cart[p].qty > 0 /\ UNCHANGED discount
  /\ Edit([cart EXCEPT ![p] = EmptyCart[p]])
ClearCart == cart # EmptyCart /\ Edit(EmptyCart) /\ discount' = 0
SetDiscount(d) ==
  /\ Behind("none") /\ d # discount /\ discount' = d
  /\ UNCHANGED <<server, currentShift, cart, dialogs, saleComplete,
                 busy, shiftClosed, call, history>>

-----------------------------------------------------------------------------
(* Mutant: an error is shown like an answer.                               *)
ShowAnything(s) == currentShift' = call[s].answer
(* refreshShift: what the server says is shown, an error changes nothing.  *)
ShowShift(s) ==
  currentShift' = IF Refused(s) THEN currentShift ELSE call[s].answer

Poll ==
  /\ \A s \in Slots : call[s].handler # "poll"
  /\ Ask("poll", "getShift", NoCall)
  /\ UNCHANGED <<server, currentShift, order, dialogs, saleComplete,
                 busy, shiftClosed, history>>
Polled(s) ==
  /\ Resumes(s, "poll", "getShift") /\ ShowShift(s) /\ Return(s)
  /\ UNCHANGED <<server, order, dialogs, saleComplete, busy,
                 shiftClosed, history>>

(* openCheckout: the shift is asked for, then the cart as it was when the  *)
(* button was pressed is validated, then the dialog opens.                 *)
OpenCheckout ==
  /\ CheckoutOffered
  /\ Ask("checkout", "getShift", [NoCall EXCEPT !.cart = cart])
  /\ UNCHANGED <<server, currentShift, order, dialogs, saleComplete,
                 busy, shiftClosed, history>>
CheckoutShift(s) ==
  /\ Resumes(s, "checkout", "getShift") /\ ShowShift(s)
  /\ IF call[s].answer \in Shifts
       THEN Then(s, "validate", [call[s] EXCEPT !.shift = call[s].answer])
       ELSE Return(s)
  /\ UNCHANGED <<server, order, dialogs, saleComplete, busy,
                 shiftClosed, history>>
CheckoutValidated(s) ==
  /\ Resumes(s, "checkout", "validate") /\ Return(s)
  /\ dialogs' = IF Refused(s) THEN dialogs ELSE Opened("checkout")
  /\ UNCHANGED <<server, currentShift, order, saleComplete, busy, shiftClosed,
                 history>>

(* The payment form of the checkout dialog. What it can be made to hold    *)
(* when Complete Sale goes through: no cash, or at least the total; and    *)
(* what buildSaleRequest makes of it.                                      *)
PaymentForm == Top = "checkout" /\ ~saleComplete
Payments(total) ==
  {[tendered |-> 0, change |-> 0]}
    \cup {[tendered |-> x, change |-> x - total] :
             x \in {y \in Tenders \cup {total} : y >= total}}

CompleteSale ==
  /\ PaymentForm /\ SubmitEnabled
  /\ currentShift # None /\ cart # EmptyCart
  /\ isProcessing' = TRUE
  /\ \E payment \in Payments(Total) :
       Ask("complete", "createSale",
           [NoCall EXCEPT !.shift = currentShift, !.cart = cart,
                          !.discount = discount, !.total = Total,
                          !.tendered = payment.tendered,
                          !.change = payment.change])
  /\ UNCHANGED <<server, currentShift, order, dialogs, saleComplete,
                 isSubmittingOp, shiftClosed, history>>
(* Mutant: a refused sale leaves the button busy.                          *)
StillBusy(flag)   == flag
(* The finally block.                                                      *)
Released(flag)    == FALSE
SaleAnswered(s) ==
  /\ Resumes(s, "complete", "createSale")
  /\ IF Refused(s)
       THEN /\ isProcessing' = Released(isProcessing) /\ Return(s)
            /\ UNCHANGED <<order, saleComplete, sold>>
       ELSE /\ saleComplete' = TRUE /\ cart' = EmptyCart /\ discount' = 0
            /\ sold' = 0
            /\ Then(s, "getShift", [NoCall EXCEPT !.handler = call[s].handler])
            /\ UNCHANGED isProcessing
  /\ UNCHANGED <<server, currentShift, dialogs, isSubmittingOp,
                 shiftClosed, lost>>
SaleRefreshed(s) ==
  /\ Resumes(s, "complete", "getShift") /\ ShowShift(s) /\ Return(s)
  /\ isProcessing' = FALSE
  /\ UNCHANGED <<server, order, dialogs, saleComplete, isSubmittingOp,
                 shiftClosed, history>>

(* closeCheckoutDialog: Cancel, New Sale or Escape, also while a sale is   *)
(* being recorded, whose handler then is no longer watched.                *)
CloseCheckout ==
  /\ Top = "checkout"
  /\ dialogs' = Closed("checkout")
  /\ saleComplete' = FALSE
  /\ call' = [s \in Slots |-> IF call[s].handler = "complete"
                THEN [call[s] EXCEPT !.watched = FALSE] ELSE call[s]]
  /\ UNCHANGED <<server, currentShift, order, busy, shiftClosed, history>>
-----------------------------------------------------------------------------
(* The shift and drawer dialogs: what the bar above the grid offers, and   *)
(* what the dialogs do once they are open.                                 *)
BarOffers(d) ==
  /\ Behind("none")
  /\ IF currentShift = None THEN d = "start" ELSE d \in {"drawer", "details"}
StartForm  == Top = "start"
DrawerForm == Top = "drawer" /\ ~isSubmittingOp
EndForm    == Top = "details" /\ ~shiftClosed /\ currentShift # None

OpenDialog(d) ==
  /\ d # "details" /\ BarOffers(d) /\ dialogs' = Opened(d)
  /\ UNCHANGED <<server, currentShift, order, saleComplete, busy,
                 shiftClosed, call, history>>
CloseDialog(d) ==
  /\ d # "checkout" /\ Top = d /\ dialogs' = Closed(d)
  /\ UNCHANGED <<server, currentShift, order, saleComplete, busy,
                 shiftClosed, call, history>>

StartShift ==
  /\ StartForm /\ Ask("start", "startShift", NoCall)
  /\ UNCHANGED <<server, currentShift, order, dialogs, saleComplete,
                 busy, shiftClosed, history>>
ShiftStarted(s) ==
  /\ Resumes(s, "start", "startShift") /\ ShowShift(s) /\ Return(s)
  /\ dialogs' = IF Refused(s) THEN dialogs ELSE Closed("start")
  /\ UNCHANGED <<server, order, saleComplete, busy, shiftClosed, history>>

OpenShiftDetails ==
  /\ BarOffers("details")
  /\ Ask("details", "getShift", NoCall)
  /\ UNCHANGED <<server, currentShift, order, dialogs, saleComplete,
                 busy, shiftClosed, history>>
DetailsShift(s) ==
  /\ Resumes(s, "details", "getShift") /\ ShowShift(s)
  /\ IF call[s].answer \in Shifts
       THEN /\ Then(s, "getOperations", [NoCall EXCEPT !.handler = "details"])
            /\ UNCHANGED <<dialogs, shiftClosed>>
       ELSE /\ Return(s)
            /\ dialogs' = IF Refused(s) THEN dialogs ELSE Opened("details")
            /\ shiftClosed' = (Refused(s) /\ shiftClosed)
  /\ UNCHANGED <<server, order, saleComplete, busy, history>>
DetailsOpen(s) ==
  /\ Resumes(s, "details", "getOperations") /\ Return(s)
  /\ dialogs' = Opened("details") /\ shiftClosed' = FALSE
  /\ UNCHANGED <<server, currentShift, order, saleComplete, busy, history>>

(* handleEndShift. Its dialog offers the form only while a shift is shown. *)
EndShift ==
  /\ EndForm /\ SubmitEnabled
  /\ isProcessing' = TRUE
  /\ Ask("end", "closeShift", [NoCall EXCEPT !.shift = currentShift])
  /\ UNCHANGED <<server, currentShift, order, dialogs, saleComplete,
                 isSubmittingOp, shiftClosed, history>>
ShiftEnded(s) ==
  /\ Resumes(s, "end", "closeShift") /\ Return(s) /\ isProcessing' = FALSE
  /\ IF Refused(s) THEN UNCHANGED <<shiftClosed, currentShift>>
     ELSE shiftClosed' = TRUE /\ currentShift' = None
  /\ UNCHANGED <<server, order, dialogs, saleComplete, isSubmittingOp,
                 history>>

(* handleCashDrawerOp; the shift may have gone while the dialog was open.  *)
CashDrawerOp ==
  /\ DrawerForm /\ isSubmittingOp' = TRUE
  /\ Ask("drawer", "cashDrawer", [NoCall EXCEPT !.shift = currentShift])
  /\ UNCHANGED <<server, currentShift, order, dialogs, saleComplete,
                 isProcessing, shiftClosed, history>>
DrawerAnswered(s) ==
  /\ Resumes(s, "drawer", "cashDrawer")
  /\ IF Refused(s)
       THEN isSubmittingOp' = FALSE /\ Return(s) /\ UNCHANGED dialogs
       ELSE /\ dialogs' = Closed("drawer") /\ Then(s, "getShift", [NoCall EXCEPT !.handler = call[s].handler])
            /\ UNCHANGED isSubmittingOp
  /\ UNCHANGED <<server, currentShift, order, saleComplete,
                 isProcessing, shiftClosed, history>>
DrawerRefreshed(s) ==
  /\ Resumes(s, "drawer", "getShift") /\ ShowShift(s) /\ Return(s)
  /\ isSubmittingOp' = FALSE
  /\ UNCHANGED <<server, order, dialogs, saleComplete, isProcessing,
                 shiftClosed, history>>
-----------------------------------------------------------------------------
Serve(s) == ServeRead(s) \/ ServeSale(s) \/ ServeDrawer(s) \/ ServeStart(s)
Resume(s) ==
  \/ Polled(s) \/ CheckoutShift(s) \/ CheckoutValidated(s)
  \/ SaleAnswered(s) \/ SaleRefreshed(s) \/ ShiftStarted(s)
  \/ DetailsShift(s) \/ DetailsOpen(s) \/ ShiftEnded(s)
  \/ DrawerAnswered(s) \/ DrawerRefreshed(s)
Order ==
  \/ \E p \in Products : \/ AddToCart(p) \/ RemoveFromCart(p)
                         \/ \E delta \in {-1, 1} : UpdateQuantity(p, delta)
  \/ ClearCart \/ \E d \in Discounts : SetDiscount(d)
  \/ OpenCheckout \/ CompleteSale \/ CloseCheckout
ShiftBar ==
  \/ \E d \in Dialogs : OpenDialog(d) \/ CloseDialog(d)
  \/ StartShift \/ OpenShiftDetails \/ EndShift \/ CashDrawerOp
Next ==
  \/ Order \/ ShiftBar \/ Poll \/ Others
  \/ \E s \in Slots : Serve(s) \/ Resume(s) \/ Lose(s)

Spec == Init /\ [][Next]_vars
-----------------------------------------------------------------------------
Call == [handler: Handlers, api: Apis, answer: Answers,
         shift: Shifts \cup {None},
         cart: [Products -> [qty: 0..MaxQty, price: Prices \cup {0}]],
         discount: Discounts, total: Nat, tendered: Nat, change: Nat,
         watched: BOOLEAN, where: Shifts \cup {None}]

TypeOK ==
  /\ openShift \in Shifts \cup {None} /\ started \subseteq Shifts
  /\ currentShift \in Shifts \cup {None}
  /\ cart \in [Products -> [qty: 0..MaxQty, price: Prices \cup {0}]]
  /\ discount \in Discounts /\ dialogs \in Seq(Dialogs)
  /\ {isProcessing, isSubmittingOp, saleComplete, shiftClosed} \subseteq BOOLEAN
  /\ call \in [Slots -> Call]
  /\ sold \in Nat /\ lost \in 0..MaxLost

(* What the cashier books while a shift is shown is booked in that shift   *)
(* or not at all, whoever closes it and opens another one meanwhile; the   *)
(* same for the shift End Shift closes.                                    *)
BookedInShownShift ==
  \A s \in Slots : {call[s].shift, call[s].where} \subseteq Shifts
                    => call[s].where = call[s].shift

(* A cart left as it is, whatever is clicked, is sold once, and once more  *)
(* only for an answer that never arrived.                                  *)
SoldOnce == sold <= 1 + lost

(* The two sides add up a sale separately: the screen in hundredths, with  *)
(* the tax of each line and the discount rounded, the server in exact      *)
(* decimals. The server refuses the screen's amounts only where something  *)
(* had to be rounded.                                                      *)
WholeHundredths(c) ==
  /\ \A p \in Products : (Line(c.cart, p) * TaxRate[p]) % 100 = 0
  /\ (Subtotal(c.cart) * c.discount) % 100 = 0
RefusedOverFractions ==
  \A s \in Slots : call[s].answer = "amount" => ~WholeHundredths(call[s])

(* Completing a sale and ending a shift share the flag that disables their *)
(* buttons: it is up exactly while one of them is under way, never left    *)
(* behind and never taken down by the other one.                           *)
BusyWhileWorking ==
  /\ isProcessing <=> \E s \in Slots : call[s].handler \in {"complete", "end"}
  /\ isSubmittingOp <=> \E s \in Slots : call[s].handler = "drawer"

(* A sale recorded while its dialog stayed open empties exactly the cart   *)
(* that was sold.                                                          *)
SoldIsCleared ==
  [][\A s \in Slots :
       (/\ call[s].handler = "complete" /\ call[s].api = "createSale"
        /\ call[s].watched /\ call'[s].api = "getShift")
         => cart = call[s].cart]_vars

=============================================================================
