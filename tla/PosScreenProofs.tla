---------------------------- MODULE PosScreenProofs ----------------------------
(***************************************************************************)
(* What the point of sale screen guarantees for any products, prices and   *)
(* shifts and any number of handlers waiting at once.                      *)
(***************************************************************************)
EXTENDS PosScreen, SequenceTheorems, SumTheorems, TLAPS

(* What every handler's memory satisfies.                                  *)
Booking(c) == {c.shift, c.where} \subseteq Shifts => c.where = c.shift
Fits(c) ==
  /\ c.api = "createSale" => c.handler = "complete"
  /\ c.api \in {"closeShift", "cashDrawer"} => c.handler # "checkout"
  /\ c.handler = "checkout" => c.where = None
Fine(c) == DOMAIN c = DOMAIN NoCall /\ Fits(c) /\ Booking(c)
CallsFine == DOMAIN call = Slots /\ \A s \in Slots : Fine(call[s])

(* Each flag has one holder: the buttons look at it before they raise it.  *)
Works(s) == call[s].handler \in {"complete", "end"}
Pays(s)  == call[s].handler = "drawer"
Alone ==
  /\ isProcessing \in BOOLEAN /\ isSubmittingOp \in BOOLEAN
  /\ BusyWhileWorking
  /\ \A s, u \in Slots : Works(s) /\ Works(u) => s = u
  /\ \A s, u \in Slots : Pays(s) /\ Pays(u) => s = u

(* A sale beyond those whose answers were lost has its answer on the way.  *)
Recorded(s) == /\ call[s].handler = "complete" /\ call[s].api = "createSale"
               /\ call[s].answer = "ok" /\ call[s].cart = cart
Counted ==
  /\ sold \in Nat /\ lost \in Nat
  /\ sold <= lost \/ (sold <= lost + 1 /\ \E s \in Slots : Recorded(s))

(* While a sale is watched its dialog covers the cart that is being sold.  *)
Watched(s) == /\ call[s].handler = "complete" /\ call[s].api = "createSale"
              /\ call[s].watched
Covered ==
  /\ dialogs \in Seq(Dialogs)
  /\ \A s \in Slots : Watched(s) => Shown("checkout") /\ call[s].cart = cart

IInv == CallsFine /\ Alone /\ Counted /\ Covered
-----------------------------------------------------------------------------
(* Dialogs.                                                                *)
LEMMA Opening ==
  ASSUME dialogs \in Seq(Dialogs), NEW d \in Dialogs, dialogs' = Opened(d)
  PROVE  dialogs' \in Seq(Dialogs) /\ (Shown("checkout") => Shown("checkout")')
<1>1. CASE Shown(d)
  BY <1>1 DEF Opened, Shown
<1>2. CASE ~Shown(d)
  <2>1. dialogs' = Append(dialogs, d)
    BY <1>2 DEF Opened
  <2>2. /\ dialogs' \in Seq(Dialogs) /\ Len(dialogs') = Len(dialogs) + 1
        /\ \A i \in 1..Len(dialogs) : dialogs'[i] = dialogs[i]
    BY <2>1
  <2>3. DOMAIN dialogs = 1..Len(dialogs) /\ DOMAIN dialogs' = 1..Len(dialogs')
        /\ Len(dialogs) \in Nat
    BY <2>2, LenProperties
  <2> QED BY <2>2, <2>3 DEF Shown
<1> QED BY <1>1, <1>2

LEMMA Shutting ==
  ASSUME dialogs \in Seq(Dialogs), NEW d \in Dialogs, dialogs' = Closed(d)
  PROVE  /\ dialogs' \in Seq(Dialogs)
         /\ d # "checkout" /\ Shown("checkout") => Shown("checkout")'
<1>0. DOMAIN dialogs = 1..Len(dialogs) /\ Len(dialogs) \in Nat
      /\ \A i \in 1..Len(dialogs) : dialogs[i] \in Dialogs
  BY LenProperties, ElementOfSeq
<1>1. CASE ~Shown(d)
  BY <1>1 DEF Closed, Shown
<1>2. CASE Shown(d)
  <2> DEFINE p == Place(d)
             n == Len(dialogs)
             a == SubSeq(dialogs, 1, p - 1)
             b == SubSeq(dialogs, p + 1, n)
  <2>1. p \in 1..n /\ dialogs[p] = d
    BY <1>0, <1>2 DEF Place, Shown
  <2>2. /\ a \in Seq(Dialogs) /\ Len(a) = p - 1
        /\ \A i \in 1..(p - 1) : a[i] = dialogs[i]
    <3>1. \A i \in 1..(p - 1) : dialogs[i] \in Dialogs
      BY <1>0, <2>1
    <3>2. /\ a \in Seq(Dialogs) /\ Len(a) = IF 1 <= p - 1 THEN (p - 1) - 1 + 1 ELSE 0
          /\ \A i \in 1..((p - 1) - 1 + 1) : a[i] = dialogs[1 + i - 1]
      BY <2>1, <3>1, SubSeqProperties
    <3> QED BY <2>1, <3>2
  <2>3. /\ b \in Seq(Dialogs) /\ Len(b) = n - p
        /\ \A i \in 1..(n - p) : b[i] = dialogs[p + i]
    <3>1. \A i \in (p + 1)..n : dialogs[i] \in Dialogs
      BY <1>0, <2>1
    <3>2. /\ b \in Seq(Dialogs)
          /\ Len(b) = IF p + 1 <= n THEN n - (p + 1) + 1 ELSE 0
          /\ \A i \in 1..(n - (p + 1) + 1) : b[i] = dialogs[(p + 1) + i - 1]
      BY <1>0, <2>1, <3>1, SubSeqProperties
    <3> QED BY <1>0, <2>1, <3>2
  <2>4. dialogs' = a \o b
    BY <1>2 DEF Closed
  <2>5. /\ dialogs' \in Seq(Dialogs) /\ Len(dialogs') = n - 1
        /\ \A i \in 1..(n - 1) : dialogs'[i] = IF i <= p - 1 THEN a[i] ELSE b[i - (p - 1)]
    <3>1. /\ a \o b \in Seq(Dialogs) /\ Len(a \o b) = Len(a) + Len(b)
          /\ \A i \in 1..(Len(a) + Len(b)) :
               (a \o b)[i] = IF i <= Len(a) THEN a[i] ELSE b[i - Len(a)]
      BY <2>2, <2>3, ConcatProperties
    <3> HIDE DEF a, b, p, n
    <3>2. Len(a) + Len(b) = n - 1
      BY <1>0, <2>1, <2>2, <2>3 DEF n
    <3> QED BY <2>2, <2>4, <3>1, <3>2
  <2>6. DOMAIN dialogs' = 1..(n - 1)
    BY <2>5, LenProperties
  <2> HIDE DEF a, b, p
  <2>7. ASSUME d # "checkout", NEW i \in 1..n, dialogs[i] = "checkout"
        PROVE  Shown("checkout")'
    <3>1. CASE i < p
      <4>1. i \in 1..(n - 1) /\ i \in 1..(p - 1)
        BY <1>0, <2>1, <3>1
      <4>2. dialogs'[i] = "checkout"
        BY <2>2, <2>5, <2>7, <4>1
      <4> QED BY <2>6, <4>1, <4>2 DEF Shown
    <3>2. CASE i > p
      <4>1. i - 1 \in 1..(n - 1) /\ ~(i - 1 <= p - 1) /\ i - p \in 1..(n - p)
            /\ (i - 1) - (p - 1) = i - p /\ p + (i - p) = i
        BY <1>0, <2>1, <3>2
      <4>2. dialogs'[i - 1] = "checkout"
        BY <2>3, <2>5, <2>7, <4>1
      <4> QED BY <2>6, <4>1, <4>2 DEF Shown
    <3>3. i # p
      BY <2>1, <2>7
    <3> QED BY <1>0, <2>1, <3>1, <3>2, <3>3
  <2> QED BY <1>0, <2>5, <2>7 DEF Shown
<1> QED BY <1>1, <1>2
-----------------------------------------------------------------------------
(* How a step treats the calls: one slot gets a new record, or none does.  *)
Put(s, c) == call' = [call EXCEPT ![s] = c]
Set(s, c) == Fine(c) /\ Put(s, c)

LEMMA Setting ==
  ASSUME CallsFine, NEW s \in Slots, NEW c, Set(s, c)
  PROVE  /\ CallsFine' /\ call'[s] = c
         /\ \A u \in Slots \ {s} : call'[u] = call[u]
  BY DEF CallsFine, Set, Put

LEMMA NoCallFine ==
  /\ Fine(NoCall)
  /\ NoCall.handler = "none" /\ NoCall.api = "getShift" /\ NoCall.answer = "pending"
  /\ NoCall.shift = None /\ NoCall.where = None
  BY PosAssumption DEF Fine, Fits, Booking, NoCall

(* A record changed in one field keeps the others.                         *)
LEMMA Fields ==
  ASSUME NEW c, DOMAIN c = DOMAIN NoCall, NEW v
  PROVE  /\ LET d == [c EXCEPT !.answer = v] IN
              /\ DOMAIN d = DOMAIN NoCall /\ d.answer = v
              /\ d.handler = c.handler /\ d.api = c.api /\ d.shift = c.shift
              /\ d.cart = c.cart /\ d.watched = c.watched /\ d.where = c.where
         /\ LET d == [c EXCEPT !.api = v] IN
              /\ DOMAIN d = DOMAIN NoCall /\ d.api = v
              /\ d.handler = c.handler /\ d.answer = c.answer /\ d.shift = c.shift
              /\ d.cart = c.cart /\ d.watched = c.watched /\ d.where = c.where
         /\ LET d == [c EXCEPT !.handler = v] IN
              /\ DOMAIN d = DOMAIN NoCall /\ d.handler = v
              /\ d.api = c.api /\ d.answer = c.answer /\ d.shift = c.shift
              /\ d.cart = c.cart /\ d.watched = c.watched /\ d.where = c.where
         /\ LET d == [c EXCEPT !.where = v] IN
              /\ DOMAIN d = DOMAIN NoCall /\ d.where = v
              /\ d.handler = c.handler /\ d.api = c.api /\ d.answer = c.answer
              /\ d.shift = c.shift /\ d.cart = c.cart /\ d.watched = c.watched
         /\ LET d == [c EXCEPT !.watched = v] IN
              /\ DOMAIN d = DOMAIN NoCall /\ d.watched = v
              /\ d.handler = c.handler /\ d.api = c.api /\ d.answer = c.answer
              /\ d.shift = c.shift /\ d.cart = c.cart /\ d.where = c.where
         /\ LET d == [c EXCEPT !.shift = v] IN
              /\ DOMAIN d = DOMAIN NoCall /\ d.shift = v
              /\ d.handler = c.handler /\ d.api = c.api /\ d.answer = c.answer
              /\ d.watched = c.watched /\ d.cart = c.cart /\ d.where = c.where
  BY DEF NoCall

(* The flags. A step lets handlers be, starts one, or ends one.            *)
Calm == /\ \A s \in Slots : call'[s].handler = call[s].handler
        /\ UNCHANGED busy
Starts(s, h) ==
  /\ call[s].handler = "none" /\ call'[s].handler = h /\ h # "none"
  /\ \A u \in Slots \ {s} : call'[u] = call[u]
  /\ IF h \in {"complete", "end"} THEN ~isProcessing /\ isProcessing' = TRUE
     ELSE UNCHANGED isProcessing
  /\ IF h = "drawer" THEN ~isSubmittingOp /\ isSubmittingOp' = TRUE
     ELSE UNCHANGED isSubmittingOp
Ends(s) ==
  /\ call'[s].handler = "none"
  /\ \A u \in Slots \ {s} : call'[u] = call[u]
  /\ IF Works(s) THEN isProcessing' = FALSE ELSE UNCHANGED isProcessing
  /\ IF Pays(s) THEN isSubmittingOp' = FALSE ELSE UNCHANGED isSubmittingOp

LEMMA AloneKept ==
  ASSUME Alone, Calm \/ (\E s \in Slots, h \in Handlers : Starts(s, h))
                     \/ (\E s \in Slots : Ends(s))
  PROVE  Alone'
<1>1. CASE Calm
  BY <1>1 DEF Alone, Calm, busy, BusyWhileWorking, Works, Pays
<1>2. ASSUME NEW s \in Slots, NEW h \in Handlers, Starts(s, h) PROVE Alone'
  <2>1. \A u \in Slots \ {s} : call'[u].handler = call[u].handler
    BY <1>2 DEF Starts
  <2>2. CASE h \in {"complete", "end"}
    BY <1>2, <2>1, <2>2 DEF Alone, Starts, BusyWhileWorking, Works, Pays
  <2>3. CASE h = "drawer"
    BY <1>2, <2>1, <2>3 DEF Alone, Starts, BusyWhileWorking, Works, Pays
  <2>4. CASE h \notin {"complete", "end", "drawer"}
    BY <1>2, <2>1, <2>4 DEF Alone, Starts, BusyWhileWorking, Works, Pays
  <2> QED BY <2>2, <2>3, <2>4
<1>3. ASSUME NEW s \in Slots, Ends(s) PROVE Alone'
  <2>1. \A u \in Slots \ {s} : call'[u].handler = call[u].handler
    BY <1>3 DEF Ends
  <2>2. \A u \in Slots \ {s} : (Works(u)' <=> Works(u)) /\ (Pays(u)' <=> Pays(u))
    BY <2>1 DEF Works, Pays
  <2>3. ~Works(s)' /\ ~Pays(s)'
    BY <1>3 DEF Ends, Works, Pays
  <2>4. isProcessing' \in BOOLEAN /\ (isProcessing' <=> \E u \in Slots : Works(u)')
    <3>1. isProcessing \in BOOLEAN /\ (isProcessing <=> \E u \in Slots : Works(u))
      BY DEF Alone, BusyWhileWorking, Works
    <3>2. CASE Works(s)
      BY <1>3, <2>2, <2>3, <3>2, Zenon DEF Ends, Alone
    <3>3. CASE ~Works(s)
      BY <1>3, <2>2, <2>3, <3>1, <3>3, Zenon DEF Ends
    <3> QED BY <3>2, <3>3
  <2>5. isSubmittingOp' \in BOOLEAN /\ (isSubmittingOp' <=> \E u \in Slots : Pays(u)')
    <3>1. isSubmittingOp \in BOOLEAN /\ (isSubmittingOp <=> \E u \in Slots : Pays(u))
      BY DEF Alone, BusyWhileWorking, Pays
    <3>2. CASE Pays(s)
      BY <1>3, <2>2, <2>3, <3>2, Zenon DEF Ends, Alone
    <3>3. CASE ~Pays(s)
      BY <1>3, <2>2, <2>3, <3>1, <3>3, Zenon DEF Ends
    <3> QED BY <3>2, <3>3
  <2>6. /\ \A u, v \in Slots : Works(u)' /\ Works(v)' => u = v
        /\ \A u, v \in Slots : Pays(u)' /\ Pays(v)' => u = v
    BY <2>2, <2>3, Zenon DEF Alone
  <2>7. BusyWhileWorking'
    BY <2>4, <2>5 DEF BusyWhileWorking, Works, Pays
  <2> QED BY <2>4, <2>5, <2>6, <2>7 DEF Alone
<1> QED BY <1>1, <1>2, <1>3

(* The cart, the count of its sales and the dialog above it are as good as *)
(* before: nothing recorded is forgotten, and nobody is watched anew.      *)
Apart ==
  /\ UNCHANGED <<cart, history>>
  /\ \A s \in Slots : Recorded(s) => Recorded(s)'
Unveiled ==
  /\ dialogs' \in Seq(Dialogs)
  /\ \A s \in Slots : Watched(s)' =>
       /\ Watched(s) /\ call'[s].cart = call[s].cart
       /\ cart' = cart /\ (Shown("checkout") => Shown("checkout")')

LEMMA CountedKept ==
  ASSUME Counted, Apart
  PROVE  Counted'
  BY DEF Counted, Apart, history
LEMMA CoveredKept ==
  ASSUME Covered, Unveiled
  PROVE  Covered'
  BY DEF Covered, Unveiled
-----------------------------------------------------------------------------
(* Steps that leave the calls alone.                                       *)
LEMMA Stutter ==
  ASSUME IInv, UNCHANGED <<call, cart, dialogs, busy, history>>
  PROVE  IInv'
<1>1. CallsFine' /\ Calm /\ Apart
  BY DEF IInv, CallsFine, Calm, Apart, Recorded
<1>2. Unveiled
  BY DEF IInv, Covered, Unveiled, Watched, Shown
<1> QED BY <1>1, <1>2, AloneKept, CountedKept, CoveredKept DEF IInv

LEMMA Uncovered ==
  ASSUME Covered, Behind("none"), NEW s \in Slots
  PROVE  ~Watched(s)
<1>1. ASSUME Shown("checkout") PROVE FALSE
  <2>1. /\ Len(dialogs) \in Nat /\ DOMAIN dialogs = 1..Len(dialogs)
        /\ \A i \in 1..Len(dialogs) : dialogs[i] \in Dialogs
    BY LenProperties, ElementOfSeq DEF Covered
  <2>2. dialogs # <<>> /\ Len(dialogs) \in 1..Len(dialogs)
    BY <1>1, <2>1 DEF Shown
  <2> QED BY <2>1, <2>2 DEF Behind, Top, Dialogs
<1> QED BY <1>1 DEF Covered

LEMMA Editing ==
  ASSUME IInv, NEW newCart, Edit(newCart)
  PROVE  IInv'
<1>1. CallsFine' /\ Calm
  BY DEF IInv, CallsFine, Calm, Edit
<1>2. Counted'
  BY DEF IInv, Counted, Edit
<1>3. \A s \in Slots : ~Watched(s)'
  BY Uncovered DEF IInv, Edit, Watched
<1>4. Covered'
  BY <1>3 DEF IInv, Covered, Edit
<1> QED BY <1>1, <1>2, <1>4, AloneKept DEF IInv

LEMMA Dialog ==
  ASSUME IInv, UNCHANGED <<call, cart, busy, history>>,
         NEW d \in Dialogs,
         dialogs' = Opened(d) \/ (d # "checkout" /\ dialogs' = Closed(d))
  PROVE  IInv'
<1>1. CallsFine' /\ Calm /\ Apart
  BY DEF IInv, CallsFine, Calm, Apart, Recorded
<1>2. dialogs' \in Seq(Dialogs) /\ (Shown("checkout") => Shown("checkout")')
  BY Opening, Shutting DEF IInv, Covered
<1>3. Unveiled
  BY <1>2 DEF IInv, Unveiled, Watched
<1> QED BY <1>1, <1>3, AloneKept, CountedKept, CoveredKept DEF IInv
-----------------------------------------------------------------------------
(* The server.                                                             *)
LEMMA Answered ==
  ASSUME IInv, NEW s \in Slots, NEW a, Answer(s, a)
  PROVE  /\ CallsFine'
         /\ \A u \in Slots \ {s} : call'[u] = call[u]
         /\ call'[s].answer = a
         /\ call'[s].handler = call[s].handler /\ call'[s].api = call[s].api
         /\ call'[s].cart = call[s].cart /\ call'[s].watched = call[s].watched
<1> DEFINE c == [call[s] EXCEPT !.answer = a]
<1>1. Fine(call[s])
  BY DEF IInv, CallsFine
<1>2. /\ DOMAIN c = DOMAIN NoCall /\ c.answer = a
      /\ c.handler = call[s].handler /\ c.api = call[s].api /\ c.shift = call[s].shift
      /\ c.cart = call[s].cart /\ c.watched = call[s].watched /\ c.where = call[s].where
  BY <1>1, Fields DEF Fine
<1>3. Put(s, c)
  BY DEF Answer, Put, IInv, CallsFine
<1> HIDE DEF c
<1>4. Set(s, c)
  BY <1>1, <1>2, <1>3 DEF Set, Fine, Fits, Booking
<1> QED BY <1>2, <1>4, Setting DEF IInv

LEMMA Booked ==
  ASSUME IInv, NEW s \in Slots, Book(s),
         ShiftFits(ShiftSent(call[s].shift)), call[s].handler # "checkout"
  PROVE  /\ CallsFine'
         /\ \A u \in Slots \ {s} : call'[u] = call[u]
         /\ call'[s].answer = "ok"
         /\ call'[s].handler = call[s].handler /\ call'[s].api = call[s].api
         /\ call'[s].cart = call[s].cart /\ call'[s].watched = call[s].watched
<1> DEFINE b == [call[s] EXCEPT !.answer = "ok"]
           c == [b EXCEPT !.where = openShift]
<1>1. Fine(call[s])
  BY DEF IInv, CallsFine
<1>2. /\ DOMAIN b = DOMAIN NoCall /\ b.answer = "ok"
      /\ b.handler = call[s].handler /\ b.api = call[s].api /\ b.shift = call[s].shift
      /\ b.cart = call[s].cart /\ b.watched = call[s].watched
  BY <1>1, Fields DEF Fine
<1>3. Put(s, c)
  BY DEF Book, Put, IInv, CallsFine
<1> HIDE DEF b
<1>4. /\ DOMAIN c = DOMAIN NoCall /\ c.where = openShift
      /\ c.handler = b.handler /\ c.api = b.api /\ c.answer = b.answer
      /\ c.shift = b.shift /\ c.cart = b.cart /\ c.watched = b.watched
  BY <1>2, Fields
<1> HIDE DEF c
<1>5. Booking(c)
  BY <1>2, <1>4, PosAssumption DEF Booking, ShiftFits, ShiftSent
<1>6. Set(s, c)
  BY <1>1, <1>2, <1>3, <1>4, <1>5 DEF Set, Fine, Fits
<1> QED BY <1>2, <1>4, <1>6, Setting DEF IInv

(* An answer that is not that of a recorded sale.                          *)
LEMMA Elsewhere ==
  ASSUME IInv, NEW s \in Slots, ~Recorded(s), CallsFine',
         UNCHANGED <<cart, dialogs, busy, history>>,
         \A u \in Slots \ {s} : call'[u] = call[u],
         call'[s].handler = call[s].handler, call'[s].api = call[s].api,
         call'[s].cart = call[s].cart, call'[s].watched = call[s].watched
  PROVE  IInv'
<1>1. Calm /\ Apart
  BY DEF Calm, Apart, Recorded
<1>2. Unveiled
  BY DEF IInv, Covered, Unveiled, Watched, Shown
<1> QED BY <1>1, <1>2, AloneKept, CountedKept, CoveredKept DEF IInv

LEMMA Served ==
  ASSUME IInv, NEW s \in Slots, Serve(s)
  PROVE  IInv'
<1>1. ASSUME ServeRead(s) PROVE IInv'
  <2>1. PICK a : Answer(s, a)
    BY <1>1 DEF ServeRead
  <2>2. ~Recorded(s) /\ UNCHANGED <<cart, dialogs, busy, history>>
    BY <1>1 DEF ServeRead, Waiting, Recorded, order
  <2> QED BY <2>1, <2>2, Answered, Elsewhere
<1>2. ASSUME ServeSale(s) PROVE IInv'
  <2>1. /\ call[s].api = "createSale" /\ call[s].handler = "complete"
        /\ call[s].answer = "pending" /\ ~Recorded(s)
        /\ UNCHANGED <<cart, dialogs, busy, lost>>
    BY <1>2 DEF ServeSale, Waiting, Recorded, order, IInv, CallsFine, Fine, Fits
  <2>2. ASSUME NEW a, Answer(s, a), UNCHANGED sold PROVE IInv'
    BY <2>1, <2>2, Answered, Elsewhere DEF history
  <2>3. ASSUME ShiftFits(ShiftSent(call[s].shift)), Book(s),
               sold' = IF call[s].cart = cart THEN sold + 1 ELSE sold
        PROVE  IInv'
    <3>1. /\ CallsFine' /\ \A u \in Slots \ {s} : call'[u] = call[u]
          /\ call'[s].answer = "ok"
          /\ call'[s].handler = call[s].handler /\ call'[s].api = call[s].api
          /\ call'[s].cart = call[s].cart /\ call'[s].watched = call[s].watched
      BY <2>1, <2>3, Booked
    <3>2. CASE call[s].cart # cart
      BY <2>1, <2>3, <3>1, <3>2, Elsewhere DEF history
    <3>3. CASE call[s].cart = cart
      <4>1. \A u \in Slots : ~Recorded(u)
        BY <2>1 DEF IInv, Alone, Works, Recorded
      <4>2. sold' <= lost' + 1 /\ sold' \in Nat /\ lost' \in Nat
        BY <2>1, <2>3, <3>3, <4>1 DEF IInv, Counted
      <4>3. Recorded(s)'
        BY <2>1, <3>1, <3>3 DEF Recorded
      <4>4. Counted'
        BY <4>2, <4>3 DEF Counted
      <4>5. Calm /\ Unveiled
        BY <2>1, <3>1 DEF Calm, IInv, Covered, Unveiled, Watched, Shown
      <4> QED BY <3>1, <4>4, <4>5, AloneKept, CoveredKept DEF IInv
    <3> QED BY <3>2, <3>3
  <2>4. PICK now \in [Products -> Prices] :
          IF Refusal(call[s], now) = "none"
            THEN Book(s) /\ sold' = IF call[s].cart = cart THEN sold + 1 ELSE sold
            ELSE Answer(s, Refusal(call[s], now)) /\ UNCHANGED sold
    BY <1>2 DEF ServeSale
  <2>5. Refusal(call[s], now) = "none" => ShiftFits(ShiftSent(call[s].shift))
    BY DEF Refusal
  <2> QED BY <2>2, <2>3, <2>4, <2>5
<1>3. ASSUME ServeDrawer(s) PROVE IInv'
  <2>1. /\ call[s].handler # "checkout" /\ ~Recorded(s)
        /\ UNCHANGED <<cart, dialogs, busy, history>>
    BY <1>3 DEF ServeDrawer, Waiting, Recorded, order, IInv, CallsFine, Fine, Fits
  <2>2. CASE ShiftFits(ShiftSent(call[s].shift))
    BY <1>3, <2>1, <2>2, Booked, Elsewhere DEF ServeDrawer
  <2>3. CASE ~ShiftFits(ShiftSent(call[s].shift))
    BY <1>3, <2>1, <2>3, Answered, Elsewhere DEF ServeDrawer
  <2> QED BY <2>2, <2>3
<1>4. ASSUME ServeStart(s) PROVE IInv'
  <2>1. PICK a : Answer(s, a)
    BY <1>4 DEF ServeStart
  <2>2. ~Recorded(s) /\ UNCHANGED <<cart, dialogs, busy, history>>
    BY <1>4 DEF ServeStart, Waiting, Recorded, order
  <2> QED BY <2>1, <2>2, Answered, Elsewhere
<1> QED BY <1>1, <1>2, <1>3, <1>4 DEF Serve

LEMMA Lost ==
  ASSUME IInv, NEW s \in Slots, Lose(s)
  PROVE  IInv'
<1>1. /\ CallsFine' /\ \A u \in Slots \ {s} : call'[u] = call[u]
      /\ call'[s].handler = call[s].handler /\ call'[s].api = call[s].api
      /\ call'[s].cart = call[s].cart /\ call'[s].watched = call[s].watched
      /\ UNCHANGED <<cart, dialogs, busy, sold>>
  BY Answered DEF Lose, order
<1>2. CASE ~(call[s].api = "createSale" /\ call[s].answer = "ok")
  BY <1>1, <1>2, Elsewhere DEF Lose, Recorded, history
<1>3. CASE call[s].api = "createSale" /\ call[s].answer = "ok"
  <2>1. lost' = lost + 1
    BY <1>3 DEF Lose
  <2>2. Counted'
    BY <1>1, <2>1 DEF IInv, Counted
  <2>3. Calm /\ Unveiled
    BY <1>1 DEF Calm, IInv, Covered, Unveiled, Watched, Shown
  <2> QED BY <1>1, <2>2, <2>3, AloneKept, CoveredKept DEF IInv
<1> QED BY <1>2, <1>3
-----------------------------------------------------------------------------
(* The handlers.                                                           *)
LEMMA Asked ==
  ASSUME IInv, NEW h \in Handlers, NEW a, NEW asked, Ask(h, a, asked),
         DOMAIN asked = DOMAIN NoCall, asked.where = None,
         a = "createSale" => h = "complete",
         a \in {"closeShift", "cashDrawer"} => h # "checkout"
  PROVE  /\ CallsFine'
         /\ \E s \in Slots :
              /\ call[s].handler = "none" /\ call'[s].handler = h
              /\ call'[s].cart = asked.cart
              /\ \A u \in Slots \ {s} : call'[u] = call[u]
<1> DEFINE b == [asked EXCEPT !.handler = h]
           c == [b EXCEPT !.api = a]
<1>1. PICK s \in Slots : Idle(s) /\ Put(s, c)
  BY DEF Ask, Put
<1>2. /\ DOMAIN b = DOMAIN NoCall /\ b.handler = h
      /\ b.where = asked.where /\ b.cart = asked.cart
  BY Fields
<1> HIDE DEF b
<1>3. /\ DOMAIN c = DOMAIN NoCall /\ c.api = a /\ c.handler = b.handler
      /\ c.where = b.where /\ c.cart = b.cart
  BY <1>2, Fields
<1> HIDE DEF c
<1>4. Set(s, c)
  BY <1>1, <1>2, <1>3, PosAssumption DEF Set, Fine, Fits, Booking
<1> QED BY <1>1, <1>2, <1>3, <1>4, Setting DEF IInv, Idle

(* A handler that sells nothing starts, at most raising a flag.            *)
LEMMA Starting ==
  ASSUME IInv, NEW h \in Handlers \ {"none", "complete"}, NEW a, NEW asked,
         Ask(h, a, asked), a # "createSale",
         DOMAIN asked = DOMAIN NoCall, asked.where = None,
         a \in {"closeShift", "cashDrawer"} => h # "checkout",
         UNCHANGED <<cart, dialogs, history>>,
         IF h = "end" THEN ~isProcessing /\ isProcessing' = TRUE
         ELSE UNCHANGED isProcessing,
         IF h = "drawer" THEN ~isSubmittingOp /\ isSubmittingOp' = TRUE
         ELSE UNCHANGED isSubmittingOp
  PROVE  IInv'
<1>1. CallsFine'
  BY Asked
<1>2. PICK s \in Slots :
        /\ call[s].handler = "none" /\ call'[s].handler = h
        /\ \A u \in Slots \ {s} : call'[u] = call[u]
  BY Asked
<1>3. Starts(s, h)
  BY <1>2 DEF Starts
<1>4. Apart
  BY <1>2 DEF Apart, Recorded
<1>5. Unveiled
  BY <1>2 DEF IInv, Covered, Unveiled, Watched, Shown
<1> QED BY <1>1, <1>3, <1>4, <1>5, AloneKept, CountedKept, CoveredKept DEF IInv

LEMMA Questions ==
  /\ DOMAIN NoCall = DOMAIN NoCall /\ NoCall.where = None
  /\ \A v : LET q == [NoCall EXCEPT !.shift = v] IN
       DOMAIN q = DOMAIN NoCall /\ q.where = None /\ q.handler = "none" /\ q.shift = v
  /\ \A v : LET q == [NoCall EXCEPT !.cart = v] IN
       DOMAIN q = DOMAIN NoCall /\ q.where = None /\ q.handler = "none"
  /\ \A v : LET q == [NoCall EXCEPT !.handler = v] IN
       /\ DOMAIN q = DOMAIN NoCall /\ q.where = None /\ q.handler = v
       /\ q.shift = None
  BY DEF NoCall

LEMMA Pressed ==
  ASSUME IInv, \/ Poll \/ OpenCheckout \/ StartShift \/ OpenShiftDetails
               \/ EndShift \/ CashDrawerOp
  PROVE  IInv'
<1>1. CASE Poll
  BY <1>1, Questions, Starting DEF Poll, Handlers, order, busy
<1>2. CASE OpenCheckout
  <2> DEFINE q == [NoCall EXCEPT !.cart = cart]
  <2>1. DOMAIN q = DOMAIN NoCall /\ q.where = None
    BY Questions
  <2>2. Ask("checkout", "getShift", q)
    BY <1>2 DEF OpenCheckout
  <2> HIDE DEF q
  <2> QED BY <1>2, <2>1, <2>2, Starting DEF OpenCheckout, Handlers, order, busy
<1>3. CASE StartShift
  BY <1>3, Questions, Starting DEF StartShift, Handlers, order, busy
<1>4. CASE OpenShiftDetails
  BY <1>4, Questions, Starting DEF OpenShiftDetails, Handlers, order, busy
<1>5. CASE EndShift
  <2> DEFINE q == [NoCall EXCEPT !.shift = currentShift]
  <2>1. DOMAIN q = DOMAIN NoCall /\ q.where = None
    BY Questions
  <2>2. Ask("end", "closeShift", q)
    BY <1>5 DEF EndShift
  <2> HIDE DEF q
  <2> QED BY <1>5, <2>1, <2>2, Starting DEF EndShift, SubmitEnabled, Handlers, order, busy
<1>6. CASE CashDrawerOp
  <2> DEFINE q == [NoCall EXCEPT !.shift = currentShift]
  <2>1. DOMAIN q = DOMAIN NoCall /\ q.where = None
    BY Questions
  <2>2. Ask("drawer", "cashDrawer", q)
    BY <1>6 DEF CashDrawerOp
  <2> HIDE DEF q
  <2> QED BY <1>6, <2>1, <2>2, Starting DEF CashDrawerOp, DrawerForm, Handlers, order, busy
<1> QED BY <1>1, <1>2, <1>3, <1>4, <1>5, <1>6

LEMMA Selling ==
  ASSUME IInv, CompleteSale
  PROVE  IInv'
<1> DEFINE sale(payment) ==
      [NoCall EXCEPT !.shift = currentShift, !.cart = cart,
                     !.discount = discount, !.total = Total,
                     !.tendered = payment.tendered,
                     !.change = payment.change]
<1>1. PICK payment \in Payments(Total) : Ask("complete", "createSale", sale(payment))
  BY DEF CompleteSale
<1>2. /\ DOMAIN sale(payment) = DOMAIN NoCall
      /\ sale(payment).where = None /\ sale(payment).cart = cart
  BY DEF NoCall
<1> HIDE DEF sale
<1>3. /\ Top = "checkout" /\ ~isProcessing /\ isProcessing' = TRUE
      /\ UNCHANGED <<cart, dialogs, history, isSubmittingOp>>
  BY DEF CompleteSale, PaymentForm, SubmitEnabled, order
<1>4. CallsFine'
  BY <1>1, <1>2, Asked DEF Handlers
<1>5. PICK s \in Slots :
        /\ call[s].handler = "none" /\ call'[s].handler = "complete"
        /\ call'[s].cart = cart
        /\ \A u \in Slots \ {s} : call'[u] = call[u]
  BY <1>1, <1>2, Asked DEF Handlers
<1>6. Starts(s, "complete")
  BY <1>3, <1>5 DEF Starts
<1>7. Apart
  BY <1>3, <1>5 DEF Apart, Recorded
<1>8. Covered'
  <2>1. dialogs # <<>> /\ Len(dialogs) \in 1..Len(dialogs)
        /\ DOMAIN dialogs = 1..Len(dialogs)
    BY <1>3, EmptySeq, LenProperties DEF IInv, Covered, Top
  <2>2. Shown("checkout")'
    BY <1>3, <2>1 DEF Shown, Top
  <2>3. ASSUME NEW u \in Slots, Watched(u)' PROVE call'[u].cart = cart'
    BY <1>3, <1>5, <2>3 DEF IInv, Covered, Watched
  <2> QED BY <1>3, <2>2, <2>3 DEF IInv, Covered
<1> QED BY <1>4, <1>6, <1>7, <1>8, AloneKept, CountedKept DEF IInv, Handlers
-----------------------------------------------------------------------------
(* What a returning or continuing handler does to the dialogs.             *)
DialogStep ==
  \/ UNCHANGED dialogs
  \/ \E d \in Dialogs : dialogs' = Opened(d)
  \/ \E d \in Dialogs \ {"checkout"} : dialogs' = Closed(d)

LEMMA DialogKept ==
  ASSUME Covered, DialogStep
  PROVE  dialogs' \in Seq(Dialogs) /\ (Shown("checkout") => Shown("checkout")')
<1>1. CASE UNCHANGED dialogs
  BY <1>1 DEF Covered, Shown
<1>2. ASSUME NEW d \in Dialogs, dialogs' = Opened(d)
      PROVE  dialogs' \in Seq(Dialogs) /\ (Shown("checkout") => Shown("checkout")')
  BY <1>2, Opening DEF Covered
<1>3. ASSUME NEW d \in Dialogs \ {"checkout"}, dialogs' = Closed(d)
      PROVE  dialogs' \in Seq(Dialogs) /\ (Shown("checkout") => Shown("checkout")')
  BY <1>3, Shutting DEF Covered
<1> QED BY <1>1, <1>2, <1>3 DEF DialogStep

LEMMA Returning ==
  ASSUME IInv, NEW s \in Slots, Return(s), ~Recorded(s),
         UNCHANGED <<cart, history>>, DialogStep,
         IF Works(s) THEN isProcessing' = FALSE ELSE UNCHANGED isProcessing,
         IF Pays(s) THEN isSubmittingOp' = FALSE ELSE UNCHANGED isSubmittingOp
  PROVE  IInv'
<1>1. Set(s, NoCall)
  BY NoCallFine DEF Set, Put, Return
<1>2. /\ CallsFine' /\ call'[s] = NoCall
      /\ \A u \in Slots \ {s} : call'[u] = call[u]
  BY <1>1, Setting DEF IInv
<1>3. Ends(s)
  BY <1>2, NoCallFine DEF Ends
<1>4. Apart
  BY <1>2 DEF Apart, Recorded
<1>5. Unveiled
  BY <1>2, NoCallFine, DialogKept DEF IInv, Unveiled, Watched
<1> QED BY <1>2, <1>3, <1>4, <1>5, AloneKept, CountedKept, CoveredKept DEF IInv

LEMMA Continued ==
  ASSUME IInv, NEW s \in Slots, NEW a, NEW asked, Then(s, a, asked),
         DOMAIN asked = DOMAIN NoCall, asked.where = None,
         asked.handler = call[s].handler,
         a \notin {"createSale", "closeShift", "cashDrawer"}
  PROVE  /\ CallsFine'
         /\ call'[s].handler = call[s].handler /\ call'[s].api = a
         /\ \A u \in Slots \ {s} : call'[u] = call[u]
<1> DEFINE b == [asked EXCEPT !.api = a]
           c == [b EXCEPT !.answer = "pending"]
<1>1. Put(s, c)
  BY DEF Then, Put
<1>2. /\ DOMAIN b = DOMAIN NoCall /\ b.api = a
      /\ b.handler = asked.handler /\ b.where = asked.where
  BY Fields
<1> HIDE DEF b
<1>3. /\ DOMAIN c = DOMAIN NoCall /\ c.api = b.api /\ c.handler = b.handler
      /\ c.where = b.where
  BY <1>2, Fields
<1> HIDE DEF c
<1>4. Set(s, c)
  BY <1>1, <1>2, <1>3, PosAssumption DEF Set, Fine, Fits, Booking
<1> QED BY <1>2, <1>3, <1>4, Setting DEF IInv

LEMMA Continuing ==
  ASSUME IInv, NEW s \in Slots, NEW a, NEW asked, Then(s, a, asked), ~Recorded(s),
         DOMAIN asked = DOMAIN NoCall, asked.where = None,
         asked.handler = call[s].handler,
         a \notin {"createSale", "closeShift", "cashDrawer"},
         UNCHANGED <<cart, history, busy>>, DialogStep
  PROVE  IInv'
<1>1. /\ CallsFine'
      /\ call'[s].handler = call[s].handler /\ call'[s].api = a
      /\ \A u \in Slots \ {s} : call'[u] = call[u]
  BY Continued
<1>2. Calm /\ Apart
  BY <1>1 DEF Calm, Apart, Recorded
<1>3. Unveiled
  BY <1>1, DialogKept DEF IInv, Unveiled, Watched
<1> QED BY <1>1, <1>2, <1>3, AloneKept, CountedKept, CoveredKept DEF IInv

(* The answer to a sale: only a cart that is covered can have been sold,   *)
(* and nothing of it is left.                                              *)
LEMMA Sold ==
  ASSUME IInv, NEW s \in Slots, SaleAnswered(s)
  PROVE  IInv'
<1>1. /\ call[s].handler = "complete" /\ call[s].api = "createSale"
      /\ Works(s) /\ ~Pays(s)
      /\ UNCHANGED <<dialogs, isSubmittingOp, lost>>
  BY DEF SaleAnswered, Resumes, Works, Pays
<1>2. CASE Refused(s)
  <2>1. /\ isProcessing' = FALSE /\ Return(s) /\ ~Recorded(s)
        /\ UNCHANGED <<cart, history>>
    BY <1>1, <1>2 DEF SaleAnswered, Released, Refused, Errors, Recorded, order, history
  <2> QED BY <1>1, <2>1, Returning DEF DialogStep
<1>3. CASE ~Refused(s)
  <2> DEFINE q == [NoCall EXCEPT !.handler = call[s].handler]
  <2>1. DOMAIN q = DOMAIN NoCall /\ q.where = None /\ q.handler = call[s].handler
    BY Questions
  <2>2. Then(s, "getShift", q) /\ UNCHANGED isProcessing /\ sold' = 0
    BY <1>3 DEF SaleAnswered
  <2> HIDE DEF q
  <2>3. /\ CallsFine' /\ call'[s].handler = call[s].handler
        /\ call'[s].api = "getShift"
        /\ \A u \in Slots \ {s} : call'[u] = call[u]
    BY <2>1, <2>2, Continued
  <2>4. Calm
    BY <1>1, <2>2, <2>3 DEF Calm, busy
  <2>5. Counted'
    BY <1>1, <2>2 DEF IInv, Counted
  <2>6. \A u \in Slots : ~Watched(u)'
    BY <1>1, <2>3 DEF IInv, Alone, Works, Watched
  <2>7. Covered'
    BY <1>1, <2>6 DEF IInv, Covered
  <2> QED BY <2>3, <2>4, <2>5, <2>7, AloneKept DEF IInv
<1> QED BY <1>2, <1>3

LEMMA Resumed ==
  ASSUME IInv, NEW s \in Slots, Resume(s)
  PROVE  IInv'
<1>1. CASE Polled(s)
  BY <1>1, Returning DEF Polled, Resumes, Works, Pays, Recorded, DialogStep, order, busy
<1>2. CASE CheckoutShift(s)
  <2>1. /\ call[s].handler = "checkout" /\ ~Works(s) /\ ~Pays(s) /\ ~Recorded(s)
        /\ UNCHANGED <<cart, history, busy>> /\ DialogStep
    BY <1>2 DEF CheckoutShift, Resumes, Works, Pays, Recorded, DialogStep, order
  <2>2. CASE call[s].answer \in Shifts
    <3> DEFINE q == [call[s] EXCEPT !.shift = call[s].answer]
    <3>1. Fine(call[s])
      BY DEF IInv, CallsFine
    <3>2. DOMAIN q = DOMAIN NoCall /\ q.where = None /\ q.handler = call[s].handler
      BY <2>1, <3>1, Fields DEF Fine, Fits
    <3>3. Then(s, "validate", q)
      BY <1>2, <2>2 DEF CheckoutShift
    <3> HIDE DEF q
    <3> QED BY <2>1, <3>2, <3>3, Continuing
  <2>3. CASE call[s].answer \notin Shifts
    BY <1>2, <2>1, <2>3, Returning DEF CheckoutShift, busy
  <2> QED BY <2>2, <2>3
<1>3. CASE CheckoutValidated(s)
  BY <1>3, Returning DEF CheckoutValidated, Resumes, Works, Pays, Recorded, DialogStep,
     Dialogs, order, busy
<1>4. CASE SaleAnswered(s)
  BY <1>4, Sold
<1>5. CASE SaleRefreshed(s)
  BY <1>5, Returning DEF SaleRefreshed, Resumes, Works, Pays, Recorded, DialogStep, order, busy
<1>6. CASE ShiftStarted(s)
  BY <1>6, Returning DEF ShiftStarted, Resumes, Works, Pays, Recorded, DialogStep,
     Dialogs, order, busy
<1>7. CASE DetailsShift(s)
  <2>1. /\ call[s].handler = "details" /\ ~Works(s) /\ ~Pays(s) /\ ~Recorded(s)
        /\ UNCHANGED <<cart, history, busy>>
    BY <1>7 DEF DetailsShift, Resumes, Works, Pays, Recorded, order
  <2>2. CASE call[s].answer \in Shifts
    <3> DEFINE q == [NoCall EXCEPT !.handler = "details"]
    <3>1. DOMAIN q = DOMAIN NoCall /\ q.where = None /\ q.handler = call[s].handler
      BY <2>1, Questions
    <3>2. Then(s, "getOperations", q) /\ DialogStep
      BY <1>7, <2>2 DEF DetailsShift, DialogStep
    <3> HIDE DEF q
    <3> QED BY <2>1, <3>1, <3>2, Continuing
  <2>3. CASE call[s].answer \notin Shifts
    <3>1. Return(s) /\ DialogStep
      BY <1>7, <2>3 DEF DetailsShift, DialogStep, Dialogs
    <3> QED BY <2>1, <3>1, Returning DEF busy
  <2> QED BY <2>2, <2>3
<1>8. CASE DetailsOpen(s)
  BY <1>8, Returning DEF DetailsOpen, Resumes, Works, Pays, Recorded, DialogStep,
     Dialogs, order, busy
<1>9. CASE ShiftEnded(s)
  BY <1>9, Returning DEF ShiftEnded, Resumes, Works, Pays, Recorded, DialogStep, order, busy
<1>10. CASE DrawerAnswered(s)
  <2>1. /\ call[s].handler = "drawer" /\ ~Works(s) /\ Pays(s) /\ ~Recorded(s)
        /\ UNCHANGED <<cart, history, isProcessing>>
    BY <1>10 DEF DrawerAnswered, Resumes, Works, Pays, Recorded, order
  <2>2. CASE Refused(s)
    BY <1>10, <2>1, <2>2, Returning DEF DrawerAnswered, DialogStep
  <2>3. CASE ~Refused(s)
    <3> DEFINE q == [NoCall EXCEPT !.handler = call[s].handler]
    <3>1. DOMAIN q = DOMAIN NoCall /\ q.where = None /\ q.handler = call[s].handler
      BY Questions
    <3>2. Then(s, "getShift", q) /\ DialogStep /\ UNCHANGED isSubmittingOp
      BY <1>10, <2>3 DEF DrawerAnswered, DialogStep, Dialogs
    <3> HIDE DEF q
    <3> QED BY <2>1, <3>1, <3>2, Continuing DEF busy
  <2> QED BY <2>2, <2>3
<1>11. CASE DrawerRefreshed(s)
  BY <1>11, Returning DEF DrawerRefreshed, Resumes, Works, Pays, Recorded, DialogStep, order, busy
<1> QED BY <1>1, <1>2, <1>3, <1>4, <1>5, <1>6, <1>7, <1>8, <1>9, <1>10, <1>11 DEF Resume

LEMMA Closing ==
  ASSUME IInv, CloseCheckout
  PROVE  IInv'
<1>1. UNCHANGED <<cart, busy, history>> /\ dialogs' = Closed("checkout")
  BY DEF CloseCheckout, order
<1>2. DOMAIN call' = Slots
  BY DEF CloseCheckout
<1>3. ASSUME NEW u \in Slots
      PROVE  /\ Fine(call'[u])
             /\ call'[u].handler = call[u].handler /\ call'[u].api = call[u].api
             /\ call'[u].answer = call[u].answer /\ call'[u].cart = call[u].cart
             /\ call'[u].handler = "complete" => ~call'[u].watched
  <2>1. Fine(call[u])
    BY DEF IInv, CallsFine
  <2>2. CASE call[u].handler = "complete"
    <3> DEFINE c == [call[u] EXCEPT !.watched = FALSE]
    <3>1. /\ DOMAIN c = DOMAIN NoCall /\ c.watched = FALSE
          /\ c.handler = call[u].handler /\ c.api = call[u].api
          /\ c.answer = call[u].answer /\ c.shift = call[u].shift
          /\ c.cart = call[u].cart /\ c.where = call[u].where
      BY <2>1, Fields DEF Fine
    <3>2. call'[u] = c
      BY <2>2 DEF CloseCheckout
    <3> HIDE DEF c
    <3> QED BY <2>1, <3>1, <3>2 DEF Fine, Fits, Booking
  <2>3. CASE call[u].handler # "complete"
    BY <2>1, <2>3 DEF CloseCheckout
  <2> QED BY <2>2, <2>3
<1>4. CallsFine' /\ Calm /\ Apart
  BY <1>1, <1>2, <1>3 DEF CallsFine, Calm, Apart, Recorded
<1>5. Covered'
  BY <1>1, <1>3, Shutting DEF IInv, Covered, Watched, Dialogs
<1> QED BY <1>4, <1>5, AloneKept, CountedKept DEF IInv
-----------------------------------------------------------------------------
LEMMA InitIInv == Init => IInv
<1> SUFFICES ASSUME Init PROVE IInv
  OBVIOUS
<1>1. \A s \in Slots : call[s] = NoCall
  BY DEF Init
<1>2. CallsFine
  BY <1>1, NoCallFine DEF Init, CallsFine
<1>3. Alone
  <2>1. \A s \in Slots : ~Works(s) /\ ~Pays(s)
    BY <1>1, NoCallFine DEF Works, Pays
  <2>2. BusyWhileWorking
    BY <2>1 DEF Init, BusyWhileWorking, Works, Pays
  <2> QED BY <2>1, <2>2, Zenon DEF Init, Alone
<1>4. Counted
  BY DEF Init, Counted
<1>5. Covered
  BY <1>1, NoCallFine, EmptySeq DEF Init, Covered, Watched
<1> QED BY <1>2, <1>3, <1>4, <1>5 DEF IInv

LEMMA NextIInv == IInv /\ [Next]_vars => IInv'
<1> SUFFICES ASSUME IInv, [Next]_vars PROVE IInv'
  OBVIOUS
<1>1. CASE UNCHANGED vars
  BY <1>1, Stutter DEF vars, order
<1>2. CASE Order
  <2>1. ASSUME NEW p \in Products, AddToCart(p) \/ RemoveFromCart(p)
                 \/ \E delta \in {-1, 1} : UpdateQuantity(p, delta)
        PROVE  IInv'
    BY <2>1, Editing DEF AddToCart, RemoveFromCart, UpdateQuantity
  <2>2. CASE ClearCart
    BY <2>2, Editing DEF ClearCart
  <2>3. ASSUME NEW d \in Discounts, SetDiscount(d) PROVE IInv'
    BY <2>3, Stutter DEF SetDiscount
  <2>4. CASE OpenCheckout
    BY <2>4, Pressed
  <2>5. CASE CompleteSale
    BY <2>5, Selling
  <2>6. CASE CloseCheckout
    BY <2>6, Closing
  <2> QED BY <1>2, <2>1, <2>2, <2>3, <2>4, <2>5, <2>6 DEF Order
<1>3. CASE ShiftBar
  <2>1. ASSUME NEW d \in Dialogs, OpenDialog(d) PROVE IInv'
    BY <2>1, Dialog DEF OpenDialog, order
  <2>2. ASSUME NEW d \in Dialogs, CloseDialog(d) PROVE IInv'
    BY <2>2, Dialog DEF CloseDialog, order
  <2> QED BY <1>3, <2>1, <2>2, Pressed DEF ShiftBar
<1>4. CASE Poll
  BY <1>4, Pressed
<1>5. CASE Others
  BY <1>5, Stutter DEF Others, order
<1>6. ASSUME NEW s \in Slots, Serve(s) \/ Resume(s) \/ Lose(s) PROVE IInv'
  BY <1>6, Served, Resumed, Lost
<1> QED BY <1>1, <1>2, <1>3, <1>4, <1>5, <1>6 DEF Next

(* Requests, flags, sales and dialogs fit together in every reachable      *)
(* state: the invariant the next theorems rest on.                         *)
THEOREM Invariance == Spec => []IInv
  BY InitIInv, NextIInv, PTL DEF Spec

(* A booking lands in the shift that the screen showed, or nowhere.        *)
THEOREM BookedAsShown == Spec => []BookedInShownShift
<1>1. IInv => BookedInShownShift
  BY DEF IInv, CallsFine, Fine, Booking, BookedInShownShift
<1> QED BY <1>1, Invariance, PTL

(* A cart is sold once, and once more for each answer that got lost.       *)
THEOREM SoldAtMostOnce == Spec => []SoldOnce
<1>1. IInv => SoldOnce
  BY DEF IInv, Counted, SoldOnce
<1> QED BY <1>1, Invariance, PTL

(* The busy flags are up exactly while their handlers are under way.       *)
THEOREM BusyIsTrue == Spec => []BusyWhileWorking
<1>1. IInv => BusyWhileWorking
  BY DEF IInv, Alone
<1> QED BY <1>1, Invariance, PTL

(* A watched sale empties exactly the cart that it sold.                   *)
THEOREM ClearedAsSold == Spec => SoldIsCleared
<1>1. IInv /\ [Next]_vars => \A s \in Slots :
        (/\ call[s].handler = "complete" /\ call[s].api = "createSale"
         /\ call[s].watched /\ call'[s].api = "getShift")
          => cart = call[s].cart
  BY DEF IInv, Covered, Watched
<1> QED BY <1>1, Invariance, PTL DEF Spec, SoldIsCleared
-----------------------------------------------------------------------------
(* The amounts of a cart, for any products, prices and quantities.         *)
Carts == [Products -> [qty: 0..MaxQty, price: Prices \cup {0}]]

LEMMA LineNat ==
  ASSUME NEW c \in Carts, NEW p \in Products
  PROVE  /\ Line(c, p) \in Nat /\ Line(c, p) * TaxRate[p] \in Nat
         /\ RoundCurrencyAmount(Line(c, p) * TaxRate[p]) \in Nat
<1>1. c[p].price \in Nat /\ c[p].qty \in Nat /\ TaxRate[p] \in Nat
  <2>1. c[p] \in [qty: 0..MaxQty, price: Prices \cup {0}]
    BY DEF Carts
  <2>2. c[p].price \in Prices \cup {0} /\ c[p].qty \in 0..MaxQty
    BY <2>1
  <2>3. TaxRate[p] \in 0..100 /\ \A q \in Prices \cup {0} : q \in Nat
    BY PosAssumption, TaxRateAssumption
  <2>4. 0..MaxQty \subseteq Nat
    BY PosAssumption
  <2> QED BY <2>2, <2>3, <2>4
<1>2. \A x, y \in Nat : x * y \in Nat
  OBVIOUS
<1>3. Line(c, p) \in Nat
  BY <1>1, <1>2 DEF Line
<1>4. Line(c, p) * TaxRate[p] \in Nat
  BY <1>1, <1>2, <1>3
<1>5. \A x \in Nat : RoundCurrencyAmount(x) \in Nat
  BY DEF RoundCurrencyAmount
<1> QED BY <1>3, <1>4, <1>5

(* The sums over the lines: their terms, then their values.                *)
Amounts(c) == [p \in Products |-> Line(c, p)]
Taxes(c)   == [p \in Products |-> RoundCurrencyAmount(Line(c, p) * TaxRate[p])]
Exact(c)   == [p \in Products |-> Line(c, p) * TaxRate[p]]

LEMMA SumsOf ==
  ASSUME NEW c \in Carts
  PROVE  /\ Subtotal(c) = SumFunctionOnSet(Amounts(c), Products) /\ Subtotal(c) \in Nat
         /\ TotalTax(c) = SumFunctionOnSet(Taxes(c), Products) /\ TotalTax(c) \in Nat
         /\ \A d : ServerTotal(c, d)
              = 100 * Subtotal(c) + SumFunctionOnSet(Exact(c), Products) - Subtotal(c) * d
<1>1. /\ DOMAIN Amounts(c) = Products /\ DOMAIN Taxes(c) = Products /\ DOMAIN Exact(c) = Products
      /\ \A p \in Products : Amounts(c)[p] \in Nat /\ Taxes(c)[p] \in Nat
  BY LineNat DEF Amounts, Taxes, Exact
<1>2. /\ Subtotal(c) = SumFunction(Amounts(c)) /\ TotalTax(c) = SumFunction(Taxes(c))
      /\ \A d : ServerTotal(c, d)
              = 100 * Subtotal(c) + SumFunction(Exact(c)) - Subtotal(c) * d
  BY DEF Subtotal, TotalTax, ServerTotal, Amounts, Taxes, Exact
<1>3. /\ SumFunctionOnSet(Amounts(c), Products) \in Nat
      /\ SumFunctionOnSet(Taxes(c), Products) \in Nat
  BY <1>1, SumNat, TaxRateAssumption
<1> QED BY <1>1, <1>2, <1>3 DEF SumFunction

(* The discount is at most the subtotal, so a total is never negative.     *)
LEMMA TotalNat ==
  ASSUME NEW c \in Carts, NEW d \in Discounts
  PROVE  CartTotal(c, d) \in Nat
<1>1. Subtotal(c) \in Nat /\ TotalTax(c) \in Nat
  BY SumsOf
<1>2. ASSUME NEW n \in Nat PROVE n * d \in Nat /\ n * d <= 100 * n
  <2>1. d \in 0..100
    BY PosAssumption
  <2>2. n * (100 - d) \in Nat /\ n * d \in Nat /\ n * (100 - d) = n * 100 - n * d
    BY <2>1
  <2> QED BY <2>2
<1>3. \A n, x \in Nat : x <= 100 * n => (x + 50) \div 100 \in Nat /\ (x + 50) \div 100 <= n
  OBVIOUS
<1>4. DiscountAmount(c, d) \in Nat /\ DiscountAmount(c, d) <= Subtotal(c)
  BY <1>1, <1>2, <1>3 DEF DiscountAmount, RoundCurrencyAmount
<1> QED BY <1>1, <1>4 DEF CartTotal

(* Where nothing has to be rounded the two sides agree to the cent.        *)
LEMMA WholeAgrees ==
  ASSUME NEW c \in Carts, NEW d \in Discounts,
         \A p \in Products : (Line(c, p) * TaxRate[p]) % 100 = 0,
         (Subtotal(c) * d) % 100 = 0
  PROVE  PaymentMatches(CartTotal(c, d), c, d)
<1>1. \A x \in Nat : x % 100 = 0 => x = 100 * RoundCurrencyAmount(x) /\ RoundCurrencyAmount(x) \in Nat
  BY DEF RoundCurrencyAmount
<1>2. \A p \in Products : Taxes(c)[p] \in Int /\ Exact(c)[p] = 100 * Taxes(c)[p]
  BY <1>1, LineNat DEF Taxes, Exact
<1>3. SumFunctionOnSet(Exact(c), Products) = 100 * SumFunctionOnSet(Taxes(c), Products)
  BY <1>2, SumHundredfold, TaxRateAssumption
<1>4. Subtotal(c) \in Nat /\ TotalTax(c) \in Nat /\ Subtotal(c) * d \in Nat
  <2>1. d \in Nat /\ Subtotal(c) \in Nat /\ TotalTax(c) \in Nat
    BY SumsOf, PosAssumption
  <2> QED BY <2>1
<1>5. /\ DiscountAmount(c, d) \in Nat /\ Subtotal(c) * d = 100 * DiscountAmount(c, d)
  BY <1>1, <1>4 DEF DiscountAmount
<1>6. ServerTotal(c, d) = 100 * Subtotal(c) + 100 * TotalTax(c) - 100 * DiscountAmount(c, d)
  BY <1>3, <1>5, SumsOf
<1> QED BY <1>4, <1>5, <1>6 DEF CartTotal, PaymentMatches
-----------------------------------------------------------------------------
(* Types, and what the types of the screen need: only a query about the    *)
(* shift or a start is answered with a shift, so what the screen shows is  *)
(* one; a sale is sent with the total of its cart and fitting change.      *)
Sound(c) ==
  /\ c.api \in {"getShift", "startShift"} => c.answer # "ok"
  /\ c.api = "createSale" => /\ c.total = CartTotal(c.cart, c.discount)
                             /\ TenderFits(c.total, c.tendered, c.change)
  /\ c.answer = "amount" => ~WholeHundredths(c)
Good == {c \in Call : Sound(c)}
Typed == TypeOK /\ call \in [Slots -> Good]

LEMMA NoCallGood == NoCall \in Good
<1>1. EmptyCart \in Carts
  BY PosAssumption DEF EmptyCart, Carts
<1>2. NoCall \in Call
  BY <1>1, PosAssumption DEF NoCall, Call, Carts, Handlers, Apis, Answers
<1>3. Sound(NoCall)
  BY PosAssumption DEF Sound, NoCall
<1> QED BY <1>2, <1>3 DEF Good

LEMMA GoodFields ==
  ASSUME NEW c \in Good
  PROVE  /\ c \in Call /\ Sound(c)
         /\ c.handler \in Handlers /\ c.api \in Apis /\ c.answer \in Answers
         /\ c.shift \in Shifts \cup {None} /\ c.where \in Shifts \cup {None}
         /\ c.cart \in Carts /\ c.discount \in Discounts
         /\ c.total \in Nat /\ c.tendered \in Nat /\ c.change \in Nat
         /\ c.watched \in BOOLEAN
BY DEF Good, Call, Carts

LEMMA AnswerGood ==
  ASSUME NEW c \in Good, NEW a \in Answers,
         c.api \in {"getShift", "startShift"} => a # "ok",
         a = "amount" => ~WholeHundredths(c)
  PROVE  [c EXCEPT !.answer = a] \in Good
<1> DEFINE d == [c EXCEPT !.answer = a]
<1>1. d \in Call
  BY DEF Good, Call
<1>2. /\ d.answer = a /\ d.api = c.api /\ d.cart = c.cart /\ d.discount = c.discount
      /\ d.total = c.total /\ d.tendered = c.tendered /\ d.change = c.change
  BY DEF Good, Call
<1>3. Sound(c)
  BY DEF Good
<1> HIDE DEF d
<1>4. Sound(d)
  BY <1>2, <1>3 DEF Sound, WholeHundredths
<1> QED BY <1>1, <1>4 DEF Good, d

LEMMA BookGood ==
  ASSUME NEW c \in Good, c.api \notin {"getShift", "startShift"},
         NEW s \in Shifts \cup {None}
  PROVE  [c EXCEPT !.answer = "ok", !.where = s] \in Good
<1> DEFINE d == [c EXCEPT !.answer = "ok", !.where = s]
<1>1. d \in Call
  BY DEF Good, Call, Answers
<1>2. /\ d.answer = "ok" /\ d.api = c.api /\ d.cart = c.cart /\ d.discount = c.discount
      /\ d.total = c.total /\ d.tendered = c.tendered /\ d.change = c.change
  BY DEF Good, Call
<1>3. Sound(c)
  BY DEF Good
<1> HIDE DEF d
<1>4. Sound(d)
  BY <1>2, <1>3 DEF Sound
<1> QED BY <1>1, <1>4 DEF Good, d

LEMMA AskGood ==
  ASSUME NEW c \in Good, c.answer = "pending", NEW h \in Handlers, NEW a \in Apis,
         a = "createSale" => /\ c.total = CartTotal(c.cart, c.discount)
                             /\ TenderFits(c.total, c.tendered, c.change)
  PROVE  [c EXCEPT !.handler = h, !.api = a] \in Good
<1> DEFINE d == [c EXCEPT !.handler = h, !.api = a]
<1>1. d \in Call
  BY DEF Good, Call
<1>2. /\ d.answer = "pending" /\ d.api = a /\ d.cart = c.cart /\ d.discount = c.discount
      /\ d.total = c.total /\ d.tendered = c.tendered /\ d.change = c.change
  BY DEF Good, Call
<1> HIDE DEF d
<1>3. Sound(d)
  BY <1>2 DEF Sound
<1> QED BY <1>1, <1>3 DEF Good, d

LEMMA ThenGood ==
  ASSUME NEW c \in Call, NEW a \in Apis \ {"createSale"}
  PROVE  [c EXCEPT !.api = a, !.answer = "pending"] \in Good
<1> DEFINE d == [c EXCEPT !.api = a, !.answer = "pending"]
<1>1. d \in Call
  BY DEF Call, Answers
<1>2. d.answer = "pending" /\ d.api = a
  BY DEF Call
<1> HIDE DEF d
<1>3. Sound(d)
  BY <1>2 DEF Sound
<1> QED BY <1>1, <1>3 DEF Good, d

LEMMA CallsKept == ASSUME Typed, UNCHANGED call PROVE call' \in [Slots -> Good]
BY DEF Typed

(* Each kind of step puts a good record into its slot.                     *)
LEMMA AnswerKeeps ==
  ASSUME Typed, NEW s \in Slots, NEW a \in Answers, Answer(s, a),
         call[s].api \in {"getShift", "startShift"} => a # "ok",
         a = "amount" => ~WholeHundredths(call[s])
  PROVE  call' \in [Slots -> Good]
<1> DEFINE c == [call[s] EXCEPT !.answer = a]
<1>1. c \in Good
  BY AnswerGood DEF Typed
<1>2. call' = [call EXCEPT ![s] = c]
  BY DEF Answer, Typed
<1> HIDE DEF c
<1> QED BY <1>1, <1>2 DEF Typed

LEMMA BookKeeps ==
  ASSUME Typed, NEW s \in Slots, Book(s), call[s].api \notin {"getShift", "startShift"}
  PROVE  call' \in [Slots -> Good]
<1> DEFINE c == [call[s] EXCEPT !.answer = "ok", !.where = openShift]
<1>1. c \in Good
  BY BookGood DEF Typed, TypeOK
<1>2. call' = [call EXCEPT ![s] = c]
  BY DEF Book, Typed
<1> HIDE DEF c
<1> QED BY <1>1, <1>2 DEF Typed

LEMMA AskKeeps ==
  ASSUME Typed, NEW c \in Good, c.answer = "pending", NEW h \in Handlers, NEW a \in Apis,
         a = "createSale" => /\ c.total = CartTotal(c.cart, c.discount)
                             /\ TenderFits(c.total, c.tendered, c.change),
         Ask(h, a, c)
  PROVE  call' \in [Slots -> Good]
<1> DEFINE d == [c EXCEPT !.handler = h, !.api = a]
<1>1. d \in Good
  BY AskGood
<1>2. PICK s \in Slots : call' = [call EXCEPT ![s] = d]
  BY DEF Ask
<1> HIDE DEF d
<1> QED BY <1>1, <1>2 DEF Typed

LEMMA ThenKeeps ==
  ASSUME Typed, NEW s \in Slots, NEW c \in Call, NEW a \in Apis \ {"createSale"}, Then(s, a, c)
  PROVE  call' \in [Slots -> Good]
<1> DEFINE d == [c EXCEPT !.api = a, !.answer = "pending"]
<1>1. d \in Good
  BY ThenGood
<1>2. call' = [call EXCEPT ![s] = d]
  BY DEF Then
<1> HIDE DEF d
<1> QED BY <1>1, <1>2 DEF Typed

LEMMA ReturnKeeps ==
  ASSUME Typed, NEW s \in Slots, Return(s) PROVE call' \in [Slots -> Good]
BY NoCallGood DEF Return, Typed

(* What an answer shows is a shift or none.                                *)
LEMMA ShownShift ==
  ASSUME Typed, NEW s \in Slots, NEW h, ShowShift(s),
         Resumes(s, h, "getShift") \/ Resumes(s, h, "startShift")
  PROVE  currentShift' \in Shifts \cup {None}
<1>1. call[s] \in Good /\ call[s].api \in {"getShift", "startShift"} /\ call[s].answer # "pending"
  BY DEF Typed, Resumes
<1>2. call[s].answer # "ok" /\ call[s].answer \in Answers
  BY <1>1, GoodFields DEF Sound
<1> QED BY <1>1, <1>2 DEF ShowShift, Refused, Answers, Typed, TypeOK

LEMMA DialogsTyped ==
  ASSUME Typed, NEW d \in Dialogs, dialogs' = Opened(d) \/ dialogs' = Closed(d)
  PROVE  dialogs' \in Seq(Dialogs)
BY Opening, Shutting DEF Typed, TypeOK

(* TypeOK from the parts a step changes.                                   *)
LEMMA TypedFrom ==
  ASSUME openShift' \in Shifts \cup {None}, started' \subseteq Shifts,
         currentShift' \in Shifts \cup {None}, cart' \in Carts, discount' \in Discounts,
         dialogs' \in Seq(Dialogs), isProcessing' \in BOOLEAN, isSubmittingOp' \in BOOLEAN,
         saleComplete' \in BOOLEAN, shiftClosed' \in BOOLEAN,
         call' \in [Slots -> Good], sold' \in Nat, lost' \in 0..MaxLost
  PROVE  Typed'
<1>1. call' \in [Slots -> Call]
  BY DEF Good
<1> QED BY <1>1 DEF Typed, TypeOK, Carts

LEMMA TypedParts ==
  ASSUME Typed
  PROVE  /\ openShift \in Shifts \cup {None} /\ started \subseteq Shifts
         /\ currentShift \in Shifts \cup {None} /\ cart \in Carts /\ discount \in Discounts
         /\ dialogs \in Seq(Dialogs) /\ isProcessing \in BOOLEAN /\ isSubmittingOp \in BOOLEAN
         /\ saleComplete \in BOOLEAN /\ shiftClosed \in BOOLEAN
         /\ call \in [Slots -> Good] /\ sold \in Nat /\ lost \in 0..MaxLost
BY DEF Typed, TypeOK, Carts

LEMMA InitTyped == Init => Typed
<1> SUFFICES ASSUME Init PROVE Typed
  OBVIOUS
<1>1. call \in [Slots -> Good]
  BY NoCallGood DEF Init
<1>2. call \in [Slots -> Call]
  BY <1>1 DEF Good
<1>3. EmptyCart \in Carts
  BY PosAssumption DEF EmptyCart, Carts
<1>4. dialogs \in Seq(Dialogs)
  BY EmptySeq DEF Init
<1>5. {isProcessing, isSubmittingOp, saleComplete, shiftClosed} \subseteq BOOLEAN
  BY DEF Init
<1>6. cart \in Carts /\ discount \in Discounts /\ sold \in Nat /\ lost \in 0..MaxLost
  BY <1>3, PosAssumption DEF Init
<1>7. /\ openShift \in Shifts \cup {None} /\ started \subseteq Shifts
      /\ currentShift \in Shifts \cup {None}
  BY DEF Init
<1> QED BY <1>1, <1>2, <1>4, <1>5, <1>6, <1>7 DEF Typed, TypeOK, Carts

LEMMA ServedTyped ==
  ASSUME Typed, NEW s \in Slots, Serve(s)
  PROVE  Typed'
<1> USE DEF order, busy, history, server
<1>0. call[s] \in Good /\ (Shifts \cup {None} \cup Errors \cup {"ok"}) \subseteq Answers
  BY TypedParts DEF Answers
<1>1. CASE ServeRead(s)
  <2>1. call' \in [Slots -> Good]
    <3>1. CASE call[s].api = "getShift" /\ Answer(s, openShift)
      <4>1. openShift \in Answers /\ openShift # "ok" /\ openShift # "amount"
        BY <1>0, TypedParts, PosAssumption DEF Errors
      <4> QED BY <3>1, <4>1, AnswerKeeps
    <3>2. CASE call[s].api = "getOperations" /\ Answer(s, "ok")
      BY <1>0, <3>2, AnswerKeeps
    <3>3. ASSUME NEW a \in {"ok", "error"}, call[s].api = "validate", Answer(s, a)
          PROVE  call' \in [Slots -> Good]
      BY <1>0, <3>3, AnswerKeeps DEF Errors
    <3> QED BY <1>1, <3>1, <3>2, <3>3 DEF ServeRead
  <2> QED BY <1>1, <2>1, TypedParts, TypedFrom DEF ServeRead
<1>2. CASE ServeSale(s)
  <2>1. PICK now \in [Products -> Prices] :
       IF Refusal(call[s], now) = "none"
         THEN Book(s) /\ sold' = IF call[s].cart = cart THEN sold + 1 ELSE sold
         ELSE Answer(s, Refusal(call[s], now)) /\ UNCHANGED sold
    BY <1>2 DEF ServeSale
  <2>2. call[s].api = "createSale"
    BY <1>2 DEF ServeSale
  <2>3. Refusal(call[s], now) \in {"none"} \cup Errors
    BY DEF Refusal, Errors
  (* The payment of a cart of whole hundredths is what the server expects. *)
  <2>4. Refusal(call[s], now) = "amount" => ~WholeHundredths(call[s])
    <3> SUFFICES ASSUME Refusal(call[s], now) = "amount", WholeHundredths(call[s]) PROVE FALSE
      OBVIOUS
    <3>1. /\ call[s].cart \in Carts /\ call[s].discount \in Discounts /\ Sound(call[s])
      BY <1>0, GoodFields
    <3>2. PaymentMatches(call[s].total, call[s].cart, call[s].discount)
      BY <2>2, <3>1, WholeAgrees DEF WholeHundredths, Sound
    <3>3. TenderFits(call[s].total, call[s].tendered, call[s].change)
      BY <2>2, <3>1 DEF Sound
    <3> QED BY <3>2, <3>3 DEF Refusal
  <2>5. call' \in [Slots -> Good]
    <3>1. CASE Refusal(call[s], now) = "none"
      BY <2>1, <2>2, <3>1, BookKeeps
    <3>2. CASE Refusal(call[s], now) # "none"
      BY <1>0, <2>1, <2>2, <2>3, <2>4, <3>2, AnswerKeeps
    <3> QED BY <3>1, <3>2
  <2>6. sold' \in Nat
    BY <2>1, TypedParts
  <2> QED BY <1>2, <2>5, <2>6, TypedParts, TypedFrom DEF ServeSale
<1>3. CASE ServeDrawer(s)
  <2>1. call' \in [Slots -> Good]
    BY <1>0, <1>3, BookKeeps, AnswerKeeps DEF ServeDrawer, Errors
  <2>2. openShift' \in Shifts \cup {None}
    BY <1>3, TypedParts DEF ServeDrawer
  <2> QED BY <1>3, <2>1, <2>2, TypedParts, TypedFrom DEF ServeDrawer
<1>4. CASE ServeStart(s)
  <2>1. CASE \E new \in Shifts \ started :
              /\ openShift' = new /\ started' = started \cup {new}
              /\ Answer(s, new)
    <3>1. PICK new \in Shifts : /\ openShift' = new /\ started' = started \cup {new}
                                /\ Answer(s, new)
      BY <2>1
    <3>2. new \in Answers /\ new # "ok" /\ new # "amount"
      BY <1>0, PosAssumption DEF Errors
    <3>3. call' \in [Slots -> Good]
      BY <3>1, <3>2, AnswerKeeps
    <3>4. openShift' \in Shifts \cup {None} /\ started' \subseteq Shifts
      BY <3>1, TypedParts
    <3> QED BY <1>4, <3>3, <3>4, TypedParts, TypedFrom DEF ServeStart
  <2>2. CASE Answer(s, "error") /\ UNCHANGED <<openShift, started>>
    <3>1. call' \in [Slots -> Good]
      BY <1>0, <2>2, AnswerKeeps DEF Errors
    <3> QED BY <1>4, <2>2, <3>1, TypedParts, TypedFrom DEF ServeStart
  <2> QED BY <1>4, <2>1, <2>2 DEF ServeStart
<1> QED BY <1>1, <1>2, <1>3, <1>4 DEF Serve

LEMMA LostTyped ==
  ASSUME Typed, NEW s \in Slots, Lose(s)
  PROVE  Typed'
<1> USE DEF order, busy, history, server
<1>1. call' \in [Slots -> Good]
  BY AnswerKeeps DEF Lose, Answers, Errors
<1>2. lost' \in 0..MaxLost
  BY TypedParts, PosAssumption DEF Lose
<1> QED BY <1>1, <1>2, TypedParts, TypedFrom DEF Lose

(* The questions handlers start with.                                      *)
LEMMA QuestionsGood ==
  /\ \A c \in Carts : [NoCall EXCEPT !.cart = c] \in Good /\ [NoCall EXCEPT !.cart = c].answer = "pending"
  /\ \A v \in Shifts \cup {None} : [NoCall EXCEPT !.shift = v] \in Good
                                   /\ [NoCall EXCEPT !.shift = v].answer = "pending"
  /\ \A h \in Handlers : [NoCall EXCEPT !.handler = h] \in Good
  /\ NoCall.answer = "pending"
<1>1. ASSUME NEW c \in Carts
      PROVE  [NoCall EXCEPT !.cart = c] \in Good /\ [NoCall EXCEPT !.cart = c].answer = "pending"
  <2> DEFINE d == [NoCall EXCEPT !.cart = c]
  <2>1. d \in Call /\ d.answer = "pending" /\ d.api = "getShift"
    <3>1. NoCall \in Call
      BY NoCallGood, GoodFields
    <3> QED BY <3>1 DEF NoCall, Call, Carts
  <2> HIDE DEF d
  <2>2. d \in Good
    BY <2>1 DEF Good, Sound
  <2> QED BY <2>1, <2>2 DEF d
<1>2. ASSUME NEW v \in Shifts \cup {None}
      PROVE  [NoCall EXCEPT !.shift = v] \in Good /\ [NoCall EXCEPT !.shift = v].answer = "pending"
  <2> DEFINE d == [NoCall EXCEPT !.shift = v]
  <2>1. d \in Call /\ d.answer = "pending" /\ d.api = "getShift"
    <3>1. NoCall \in Call
      BY NoCallGood, GoodFields
    <3> QED BY <3>1 DEF NoCall, Call, Carts
  <2> HIDE DEF d
  <2>2. d \in Good
    BY <2>1 DEF Good, Sound
  <2> QED BY <2>1, <2>2 DEF d
<1>3. ASSUME NEW h \in Handlers PROVE [NoCall EXCEPT !.handler = h] \in Good
  <2> DEFINE d == [NoCall EXCEPT !.handler = h]
  <2>1. d \in Call /\ d.answer = "pending" /\ d.api = "getShift"
    <3>1. NoCall \in Call
      BY NoCallGood, GoodFields
    <3> QED BY <3>1 DEF NoCall, Call, Carts
  <2> HIDE DEF d
  <2>2. d \in Good
    BY <2>1 DEF Good, Sound
  <2> QED BY <2>2 DEF d
<1> QED BY <1>1, <1>2, <1>3 DEF NoCall

LEMMA SaleGood ==
  ASSUME Typed, NEW payment \in Payments(Total)
  PROVE  LET q == [NoCall EXCEPT !.shift = currentShift, !.cart = cart,
                                 !.discount = discount, !.total = Total,
                                 !.tendered = payment.tendered,
                                 !.change = payment.change]
         IN  /\ q \in Good /\ q.answer = "pending"
             /\ q.total = CartTotal(q.cart, q.discount)
             /\ TenderFits(q.total, q.tendered, q.change)
<1> DEFINE q == [NoCall EXCEPT !.shift = currentShift, !.cart = cart,
                               !.discount = discount, !.total = Total,
                               !.tendered = payment.tendered,
                               !.change = payment.change]
<1>1. Total \in Nat
  BY TypedParts, TotalNat DEF Total
<1>2. /\ payment.tendered \in Nat /\ payment.change \in Nat
      /\ TenderFits(Total, payment.tendered, payment.change)
  <2>1. CASE payment = [tendered |-> 0, change |-> 0]
    BY <2>1 DEF TenderFits
  <2>2. ASSUME NEW x \in Tenders \cup {Total}, x >= Total,
               payment = [tendered |-> x, change |-> x - Total]
        PROVE  /\ payment.tendered \in Nat /\ payment.change \in Nat
               /\ TenderFits(Total, payment.tendered, payment.change)
    <3>1. x \in Nat /\ x - Total \in Nat
      BY <1>1, <2>2, PosAssumption
    <3> QED BY <2>2, <3>1 DEF TenderFits
  <2> QED BY <2>1, <2>2 DEF Payments
<1>3. /\ currentShift \in Shifts \cup {None} /\ cart \in Carts /\ discount \in Discounts
  BY TypedParts
<1>4. NoCall \in Call
  BY NoCallGood, GoodFields
<1>5. q \in Call
  BY <1>1, <1>2, <1>3, <1>4 DEF Call, Carts
<1>6. /\ q.answer = "pending" /\ q.api = "getShift" /\ q.cart = cart /\ q.discount = discount
      /\ q.total = Total /\ q.tendered = payment.tendered /\ q.change = payment.change
  BY DEF NoCall
<1> HIDE DEF q
<1>7. q \in Good
  BY <1>5, <1>6 DEF Good, Sound
<1> QED BY <1>2, <1>6, <1>7 DEF q, Total

LEMMA EditTyped ==
  ASSUME Typed, NEW newCart \in Carts, Edit(newCart), discount' \in Discounts
  PROVE  Typed'
<1> USE DEF order, busy, history, server
<1>1. call' \in [Slots -> Good]
  BY CallsKept DEF Edit
<1> QED BY <1>1, TypedParts, TypedFrom DEF Edit

LEMMA OrderTyped ==
  ASSUME Typed, Order
  PROVE  Typed'
<1> USE DEF order, busy, history, server
<1>0. /\ cart \in Carts /\ EmptyCart \in Carts
      /\ \A p \in Products : /\ cart[p].qty \in 0..MaxQty /\ cart[p].qty \in Int
                             /\ cart[p].price \in Prices \cup {0}
  <2>1. cart \in Carts /\ EmptyCart \in Carts
    BY TypedParts, PosAssumption DEF EmptyCart, Carts
  <2>2. \A n \in 0..MaxQty : n \in Int
    BY PosAssumption
  <2> QED BY <2>1, <2>2 DEF Carts
<1>1. ASSUME NEW p \in Products, NEW e \in [qty: 0..MaxQty, price: Prices \cup {0}]
      PROVE  [cart EXCEPT ![p] = e] \in Carts
  BY <1>0 DEF Carts
<1>2. ASSUME NEW p \in Products, AddToCart(p) PROVE Typed'
  <2>1. PICK record \in GridPrices :
       Edit([cart EXCEPT ![p] =
               [qty   |-> cart[p].qty + 1,
                price |-> IF cart[p].qty = 0 THEN record ELSE cart[p].price]])
    BY <1>2 DEF AddToCart
  <2> DEFINE e == [qty   |-> cart[p].qty + 1,
                   price |-> IF cart[p].qty = 0 THEN record ELSE cart[p].price]
  <2>2. cart[p].qty + 1 \in 0..MaxQty
    BY <1>0, <1>2, PosAssumption DEF AddToCart
  <2>3. e \in [qty: 0..MaxQty, price: Prices \cup {0}]
    BY <1>0, <2>2, PosAssumption
  <2>4. discount' \in Discounts
    BY <1>2, TypedParts DEF AddToCart
  <2>5. Edit([cart EXCEPT ![p] = e])
    BY <2>1
  <2> HIDE DEF e
  <2> QED BY <1>1, <2>3, <2>4, <2>5, EditTyped
<1>3. ASSUME NEW p \in Products, RemoveFromCart(p) PROVE Typed'
  <2>1. EmptyCart[p] \in [qty: 0..MaxQty, price: Prices \cup {0}]
    BY <1>0 DEF Carts
  <2>2. discount' \in Discounts
    BY <1>3, TypedParts DEF RemoveFromCart
  <2>3. Edit([cart EXCEPT ![p] = EmptyCart[p]])
    BY <1>3 DEF RemoveFromCart
  <2> QED BY <1>1, <2>1, <2>2, <2>3, EditTyped
<1>4. ASSUME NEW p \in Products, NEW delta \in {-1, 1}, UpdateQuantity(p, delta) PROVE Typed'
  <2> DEFINE e == IF cart[p].qty + delta <= 0 THEN EmptyCart[p]
                  ELSE [qty |-> cart[p].qty + delta, price |-> cart[p].price]
  <2>1. EmptyCart[p] \in [qty: 0..MaxQty, price: Prices \cup {0}]
    BY <1>0 DEF Carts
  <2>2. cart[p].price \in Prices \cup {0}
    BY <1>0
  <2>3. ~(cart[p].qty + delta <= 0) => cart[p].qty + delta \in 0..MaxQty
    BY <1>0, <1>4, PosAssumption DEF UpdateQuantity
  <2>4. e \in [qty: 0..MaxQty, price: Prices \cup {0}]
    BY <2>1, <2>2, <2>3
  <2>5. discount' \in Discounts
    BY <1>4, TypedParts DEF UpdateQuantity
  <2>6. Edit([cart EXCEPT ![p] = e])
    BY <1>4 DEF UpdateQuantity
  <2> HIDE DEF e
  <2> QED BY <1>1, <2>4, <2>5, <2>6, EditTyped
<1>5. CASE ClearCart
  BY <1>0, <1>5, PosAssumption, EditTyped DEF ClearCart
<1>6. ASSUME NEW d \in Discounts, SetDiscount(d) PROVE Typed'
  BY <1>6, CallsKept, TypedParts, TypedFrom DEF SetDiscount
<1>7. CASE OpenCheckout
  <2> DEFINE q == [NoCall EXCEPT !.cart = cart]
  <2>1. q \in Good /\ q.answer = "pending"
    BY <1>0, QuestionsGood
  <2>2. Ask("checkout", "getShift", q)
    BY <1>7 DEF OpenCheckout
  <2> HIDE DEF q
  <2>3. call' \in [Slots -> Good]
    BY <2>1, <2>2, AskKeeps DEF Handlers, Apis
  <2> QED BY <1>7, <2>3, TypedParts, TypedFrom DEF OpenCheckout
<1>8. CASE CompleteSale
  <2>1. PICK payment \in Payments(Total) :
       Ask("complete", "createSale",
           [NoCall EXCEPT !.shift = currentShift, !.cart = cart,
                          !.discount = discount, !.total = Total,
                          !.tendered = payment.tendered,
                          !.change = payment.change])
    BY <1>8 DEF CompleteSale
  <2> DEFINE q == [NoCall EXCEPT !.shift = currentShift, !.cart = cart,
                                 !.discount = discount, !.total = Total,
                                 !.tendered = payment.tendered,
                                 !.change = payment.change]
  <2>2. /\ q \in Good /\ q.answer = "pending"
        /\ q.total = CartTotal(q.cart, q.discount)
        /\ TenderFits(q.total, q.tendered, q.change)
    BY SaleGood
  <2>3. Ask("complete", "createSale", q)
    BY <2>1
  <2> HIDE DEF q
  <2>4. call' \in [Slots -> Good]
    BY <2>2, <2>3, AskKeeps DEF Handlers, Apis
  <2>5. isProcessing' \in BOOLEAN
    BY <1>8 DEF CompleteSale
  <2> QED BY <1>8, <2>4, <2>5, TypedParts, TypedFrom DEF CompleteSale
<1>9. CASE CloseCheckout
  <2>1. ASSUME NEW s \in Slots PROVE [call[s] EXCEPT !.watched = FALSE] \in Good
    <3> DEFINE c == call[s]
               d == [c EXCEPT !.watched = FALSE]
    <3>1. c \in Good
      BY TypedParts
    <3> HIDE DEF c
    <3>2. d \in Call
      BY <3>1 DEF Good, Call
    <3>3. /\ d.answer = c.answer /\ d.api = c.api /\ d.cart = c.cart /\ d.discount = c.discount
          /\ d.total = c.total /\ d.tendered = c.tendered /\ d.change = c.change
      BY <3>1 DEF Good, Call
    <3>4. Sound(c)
      BY <3>1 DEF Good
    <3> HIDE DEF d
    <3>5. Sound(d)
      BY <3>3, <3>4 DEF Sound, WholeHundredths
    <3> QED BY <3>2, <3>5 DEF Good, d, c
  <2>2. call' \in [Slots -> Good]
    BY <1>9, <2>1, TypedParts DEF CloseCheckout
  <2>3. dialogs' \in Seq(Dialogs)
    BY <1>9, DialogsTyped DEF CloseCheckout, Dialogs
  <2>4. saleComplete' \in BOOLEAN
    BY <1>9 DEF CloseCheckout
  <2> QED BY <1>9, <2>2, <2>3, <2>4, TypedParts, TypedFrom DEF CloseCheckout
<1> QED BY <1>2, <1>3, <1>4, <1>5, <1>6, <1>7, <1>8, <1>9 DEF Order

LEMMA ShiftBarTyped ==
  ASSUME Typed, ShiftBar \/ Poll
  PROVE  Typed'
<1> USE DEF order, busy, history, server
<1>1. ASSUME NEW d \in Dialogs, OpenDialog(d) \/ CloseDialog(d) PROVE Typed'
  <2>1. dialogs' \in Seq(Dialogs)
    BY <1>1, DialogsTyped DEF OpenDialog, CloseDialog
  <2> QED BY <1>1, <2>1, CallsKept, TypedParts, TypedFrom DEF OpenDialog, CloseDialog
<1>2. ASSUME NEW h \in Handlers, NEW a \in Apis \ {"createSale"}, Ask(h, a, NoCall)
      PROVE  call' \in [Slots -> Good]
  BY <1>2, NoCallGood, QuestionsGood, AskKeeps
<1>3. ASSUME NEW h \in Handlers, NEW a \in Apis \ {"createSale"},
             Ask(h, a, [NoCall EXCEPT !.shift = currentShift])
      PROVE  call' \in [Slots -> Good]
  <2> DEFINE q == [NoCall EXCEPT !.shift = currentShift]
  <2>1. q \in Good /\ q.answer = "pending"
    BY QuestionsGood, TypedParts
  <2>2. Ask(h, a, q)
    BY <1>3
  <2> HIDE DEF q
  <2> QED BY <2>1, <2>2, AskKeeps
<1>4. CASE StartShift
  BY <1>2, <1>4, TypedParts, TypedFrom DEF StartShift, Handlers, Apis
<1>5. CASE OpenShiftDetails
  BY <1>2, <1>5, TypedParts, TypedFrom DEF OpenShiftDetails, Handlers, Apis
<1>6. CASE Poll
  BY <1>2, <1>6, TypedParts, TypedFrom DEF Poll, Handlers, Apis
<1>7. CASE EndShift
  <2>1. call' \in [Slots -> Good]
    BY <1>3, <1>7 DEF EndShift, Handlers, Apis
  <2>2. isProcessing' \in BOOLEAN
    BY <1>7 DEF EndShift
  <2> QED BY <1>7, <2>1, <2>2, TypedParts, TypedFrom DEF EndShift
<1>8. CASE CashDrawerOp
  <2>1. call' \in [Slots -> Good]
    BY <1>3, <1>8 DEF CashDrawerOp, Handlers, Apis
  <2>2. isSubmittingOp' \in BOOLEAN
    BY <1>8 DEF CashDrawerOp
  <2> QED BY <1>8, <2>1, <2>2, TypedParts, TypedFrom DEF CashDrawerOp
<1> QED BY <1>1, <1>4, <1>5, <1>6, <1>7, <1>8 DEF ShiftBar

LEMMA ResumedTyped ==
  ASSUME Typed, NEW s \in Slots, Resume(s)
  PROVE  Typed'
<1> USE DEF order, busy, history, server
<1>1. CASE Polled(s)
  <2>1. currentShift' \in Shifts \cup {None}
    BY <1>1, ShownShift DEF Polled
  <2> QED BY <1>1, <2>1, ReturnKeeps, TypedParts, TypedFrom DEF Polled
<1>2. CASE CheckoutShift(s)
  <2>1. currentShift' \in Shifts \cup {None}
    BY <1>2, ShownShift DEF CheckoutShift
  <2>2. call' \in [Slots -> Good]
    <3>1. ASSUME call[s].answer \in Shifts,
                 Then(s, "validate", [call[s] EXCEPT !.shift = call[s].answer])
          PROVE  call' \in [Slots -> Good]
      <4> DEFINE d == [call[s] EXCEPT !.shift = call[s].answer]
      <4>1. d \in Call
        <5>1. call[s] \in Call
          BY TypedParts, GoodFields
        <5> QED BY <3>1, <5>1 DEF Call
      <4>2. Then(s, "validate", d)
        BY <3>1
      <4> HIDE DEF d
      <4> QED BY <4>1, <4>2, ThenKeeps DEF Apis
    <3> QED BY <1>2, <3>1, ReturnKeeps DEF CheckoutShift
  <2> QED BY <1>2, <2>1, <2>2, TypedParts, TypedFrom DEF CheckoutShift
<1>3. CASE CheckoutValidated(s)
  <2>1. dialogs' \in Seq(Dialogs)
    BY <1>3, DialogsTyped, TypedParts DEF CheckoutValidated, Dialogs
  <2> QED BY <1>3, <2>1, ReturnKeeps, TypedParts, TypedFrom DEF CheckoutValidated
<1>4. ASSUME NEW h \in Handlers, Then(s, "getShift", [NoCall EXCEPT !.handler = h])
      PROVE  call' \in [Slots -> Good]
  <2> DEFINE q == [NoCall EXCEPT !.handler = h]
  <2>1. q \in Call
    BY QuestionsGood, GoodFields
  <2>2. Then(s, "getShift", q)
    BY <1>4
  <2> HIDE DEF q
  <2> QED BY <2>1, <2>2, ThenKeeps DEF Apis
<1>5. call[s].handler \in Handlers
  BY TypedParts, GoodFields
<1>6. CASE SaleAnswered(s)
  <2>1. CASE Refused(s)
    <3>1. isProcessing' \in BOOLEAN
      BY <1>6, <2>1 DEF SaleAnswered, Released
    <3>2. call' \in [Slots -> Good]
      BY <1>6, <2>1, ReturnKeeps DEF SaleAnswered
    <3> QED BY <1>6, <2>1, <3>1, <3>2, TypedParts, TypedFrom DEF SaleAnswered
  <2>2. CASE ~Refused(s)
    <3>1. saleComplete' \in BOOLEAN
      BY <1>6, <2>2 DEF SaleAnswered
    <3>2. call' \in [Slots -> Good]
      BY <1>4, <1>5, <1>6, <2>2 DEF SaleAnswered
    <3>3. cart' \in Carts /\ discount' \in Discounts /\ sold' \in Nat
      <4>1. EmptyCart \in Carts
        BY PosAssumption DEF EmptyCart, Carts
      <4> QED BY <1>6, <2>2, <4>1, PosAssumption DEF SaleAnswered
    <3> QED BY <1>6, <2>2, <3>1, <3>2, <3>3, TypedParts, TypedFrom DEF SaleAnswered
  <2> QED BY <2>1, <2>2
<1>7. CASE SaleRefreshed(s)
  <2>1. currentShift' \in Shifts \cup {None}
    BY <1>7, ShownShift DEF SaleRefreshed
  <2>2. isProcessing' \in BOOLEAN
    BY <1>7 DEF SaleRefreshed
  <2> QED BY <1>7, <2>1, <2>2, ReturnKeeps, TypedParts, TypedFrom DEF SaleRefreshed
<1>8. CASE ShiftStarted(s)
  <2>1. currentShift' \in Shifts \cup {None}
    BY <1>8, ShownShift DEF ShiftStarted
  <2>2. dialogs' \in Seq(Dialogs)
    BY <1>8, DialogsTyped, TypedParts DEF ShiftStarted, Dialogs
  <2> QED BY <1>8, <2>1, <2>2, ReturnKeeps, TypedParts, TypedFrom DEF ShiftStarted
<1>9. CASE DetailsShift(s)
  <2>1. currentShift' \in Shifts \cup {None}
    BY <1>9, ShownShift DEF DetailsShift
  <2>2. call' \in [Slots -> Good]
    <3> DEFINE q == [NoCall EXCEPT !.handler = "details"]
    <3>1. q \in Call
      BY QuestionsGood, GoodFields DEF Handlers
    <3>2. Then(s, "getOperations", q) \/ Return(s)
      BY <1>9 DEF DetailsShift
    <3> HIDE DEF q
    <3> QED BY <3>1, <3>2, ThenKeeps, ReturnKeeps DEF Apis
  <2>3. dialogs' \in Seq(Dialogs)
    BY <1>9, DialogsTyped, TypedParts DEF DetailsShift, Dialogs
  <2>4. shiftClosed' \in BOOLEAN
    <3>1. shiftClosed' = shiftClosed \/ shiftClosed' = (Refused(s) /\ shiftClosed)
      BY <1>9, Zenon DEF DetailsShift
    <3>2. shiftClosed \in BOOLEAN
      BY TypedParts
    <3> QED BY <3>1, <3>2, Zenon
  <2> QED BY <1>9, <2>1, <2>2, <2>3, <2>4, TypedParts, TypedFrom DEF DetailsShift
<1>10. CASE DetailsOpen(s)
  <2>1. dialogs' \in Seq(Dialogs)
    BY <1>10, DialogsTyped DEF DetailsOpen, Dialogs
  <2>2. shiftClosed' \in BOOLEAN
    BY <1>10 DEF DetailsOpen
  <2> QED BY <1>10, <2>1, <2>2, ReturnKeeps, TypedParts, TypedFrom DEF DetailsOpen
<1>11. CASE ShiftEnded(s)
  <2>1. /\ isProcessing' \in BOOLEAN /\ shiftClosed' \in BOOLEAN
        /\ currentShift' \in Shifts \cup {None}
    BY <1>11, TypedParts DEF ShiftEnded
  <2> QED BY <1>11, <2>1, ReturnKeeps, TypedParts, TypedFrom DEF ShiftEnded
<1>12. CASE DrawerAnswered(s)
  <2>1. call' \in [Slots -> Good]
    BY <1>4, <1>5, <1>12, ReturnKeeps DEF DrawerAnswered
  <2>2. dialogs' \in Seq(Dialogs)
    BY <1>12, DialogsTyped, TypedParts DEF DrawerAnswered, Dialogs
  <2>3. isSubmittingOp' \in BOOLEAN
    BY <1>12, TypedParts DEF DrawerAnswered
  <2> QED BY <1>12, <2>1, <2>2, <2>3, TypedParts, TypedFrom DEF DrawerAnswered
<1>13. CASE DrawerRefreshed(s)
  <2>1. currentShift' \in Shifts \cup {None}
    BY <1>13, ShownShift DEF DrawerRefreshed
  <2>2. isSubmittingOp' \in BOOLEAN
    BY <1>13 DEF DrawerRefreshed
  <2> QED BY <1>13, <2>1, <2>2, ReturnKeeps, TypedParts, TypedFrom DEF DrawerRefreshed
<1> QED BY <1>1, <1>2, <1>3, <1>6, <1>7, <1>8, <1>9, <1>10, <1>11, <1>12, <1>13 DEF Resume

LEMMA NextTyped == Typed /\ [Next]_vars => Typed'
<1> SUFFICES ASSUME Typed, [Next]_vars PROVE Typed'
  OBVIOUS
<1>1. CASE UNCHANGED vars
  BY <1>1, CallsKept, TypedParts, TypedFrom DEF vars, order, busy, history, server
<1>2. CASE Others
  <2>1. openShift' \in Shifts \cup {None} /\ started' \subseteq Shifts
    BY <1>2, TypedParts DEF Others
  <2> QED BY <1>2, <2>1, CallsKept, TypedParts, TypedFrom
          DEF Others, order, busy, history
<1> QED BY <1>1, <1>2, OrderTyped, ShiftBarTyped, ServedTyped, ResumedTyped, LostTyped DEF Next

LEMMA AlwaysTyped == Spec => []Typed
  BY InitTyped, NextTyped, PTL DEF Spec

(* The screen shows a shift or none, never an error or an acknowledgement, *)
(* and every request carries what its endpoint can read.                   *)
THEOREM TypeCorrect == Spec => []TypeOK
<1>1. Typed => TypeOK
  BY DEF Typed
<1> QED BY <1>1, AlwaysTyped, PTL

(* The server refuses the amounts the screen computed only for a sale in   *)
(* which a tax or the discount had to be rounded, whatever the products,   *)
(* prices, tax rates and quantities are.                                   *)
THEOREM OnlyFractionsRefused == Spec => []RefusedOverFractions
<1>1. Typed => RefusedOverFractions
  BY GoodFields DEF Typed, RefusedOverFractions, Sound
<1> QED BY <1>1, AlwaysTyped, PTL
=============================================================================
