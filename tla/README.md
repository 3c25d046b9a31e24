# DashPoint, specified in TLA+

DashPoint is a point-of-sale system: a Go/Fiber backend over PostgreSQL
(`src/backend`) and a Next.js front end (`src/frontend`). This directory holds
TLA+ modules translated from its code, the TLC configurations that check them
on small instances, and proofs, checked by TLAPS, of what they promise for every
instance. Paths below are relative to `src/`; `H/`, `R/` and `M/` abbreviate
`backend/internal/handlers/`, `.../repository/` and `.../middleware/`.

## 1. The system

One backend process serves all tills and offices; each HTTP request runs in a
goroutine of its own, takes a connection of a pool of 25
(`backend/internal/database/database.go:46-69`) and talks to PostgreSQL at READ
COMMITTED. Nothing in the process serialises requests: what keeps two tills
apart are row locks, unique indexes and conditional updates. The browser keeps
an access token in memory and a refresh token in a cookie, and holds one
server-sent-events stream open for notices about its user.

| Component | State it keeps | Operations | Talks to |
|---|---|---|---|
| Checkout and stock (`R/sale_create.go`, `sale_void.go`, `inventory_mutations.go`; `H/sale_create_void.go`, `product_inventory.go`) | `sales`, `sale_items`, `payments`, `inventory_items`, `stock_adjustments` | create sale, validate cart, void, adjust, count | products (locks and reads them), shifts (updates totals) |
| Shifts and cash drawer (`R/shift_writes.go`; `H/shift_mutations.go`, `cash_drawer.go`) | `shifts`, `cash_drawer_operations` | start, close, pay-in, pay-out | sales (totals, foreign key) |
| Expenses (`H/expense_workflow.go`, `expense_entries.go`) | `expenses`, `expense_categories` | create, edit, delete; an inventory purchase also moves stock | inventory, products |
| Catalogue (`H/product_mutations.go`, `product_delete.go`, `category_mutations.go`) | `products`, `categories` | create, edit, archive, restore, delete for good | checkout, expenses |
| Sessions (`H/auth.go`, `auth_workflow.go`, `R/refresh_token.go`) | `refresh_tokens`, `users.token_version`, the cookie | login, PIN login, refresh (rotate, grace, reuse), logout | users, browser |
| Users, roles, set-up (`H/user*.go`, `role_roles.go`, `setup.go`) | `users`, `page_role_permissions` | create, edit, credentials, archive, delete, permissions, first owner | sessions, events |
| Events (`H/events.go`; `frontend/src/hooks/useUserEvents.ts`) | the map of open streams, their channels | subscribe, broadcast, disconnect; reconnect | users, browser |
| Gatekeeping (`M/auth.go`, `M/account_lockout.go`) | failure counters (in memory) | check a token, count failures | sessions |
| Browser session (`frontend/src/lib/auth-session.ts`, `lib/api/transport.ts`, `contexts/auth-context.tsx`) | access token, single-flight refresh, auth state | boot, log in, request, refresh and retry, log out | sessions, events |
| Quick access (`lib/account-manager.ts`, the login page) | remembered accounts, device trust | save, forget, verify | browser session |
| POS screen (`frontend/src/app/(dashboard)/pos`) | cart, shift shown, dialogs, busy flags | fill, check out, open and end shifts, drawer | checkout, shifts |
| Back-office forms (products, categories, users, roles, expenses, inventory, sales under `app/(dashboard)`) | form, confirmation, busy flag | open, save, archive, delete, restore, void | every server component |
| Lists (the same screens, shifts, audit, changes, reports, stock history) | rows, page, filters, spinners | filter, turn, append, poll, reload | reads of the server |
| Dashboard (`app/(dashboard)/dashboard`) | six sections, two timers | load, retry, change tab | reads, permissions |
| Audit, reports (server), uploads, migrations, UI components | `audit_logs`, files | append, read, render | everything |

What is hard here:

* *Interleaving at the database.* Every business rule about stock, cash and
  invoice numbers is a read followed by a write, and is right only because of
  the lock, index or `WHERE` clause between them (sections 3 and 4).
* *Checks outside the transaction.* Handlers look at `is_active`, the open
  shift, or `updated_at` first and act later.
* *Lock order.* Sales lock inventory, then product; purchases the other way;
  closings want a row that sales share.
* *Tokens.* Tabs present one cookie at once; answers get lost; credentials
  change under requests in flight.
* *Streams.* A stream ends from either side while events are being queued.
* *Screens.* A handler waits for its answer while the employee clicks on: dialogs
  close, filters change, another handler starts, and answers are not numbered.

What makes each component correct: stock is never negative and every change of
it is recorded in an unbroken history; a sale is committed at the price it
showed, numbered without gaps, voided at most once; one shift is open, its
totals are its sales', its expected cash is what was recorded; a credential
change ends older sessions, a rotated token yields one successor; an event
reaches the streams that are open; an edit does not undo another one. On a
screen: what is booked, changed or removed is what the user was looking at, a
cart is not sold twice, no busy flag or spinner stays up, and the rows shown are
those asked for.
`PROJECT.json` lists the hazards at their lines.

## 2. Modules

    StockBook          what the stock promises, every operation atomic
      ^ refined by
    Checkout           the transactions that move stock, at their row locks
      MCCheckout       its instances for TLC
      CheckoutProofs   type, stock, price and invoice theorems;
                       Checkout implements StockBook
    CashShift          shifts, drawer, totals
      MCCashShift, CashShiftProofs
    Sessions           refresh tokens, credentials and archiving of one user
      MCSessions, SessionsProofs
    Purchases          expenses that move stock: creation, edit, deletion
      MCPurchases, PurchasesProofs
    PosTotals          the amounts of a sale, on the screen and on the server
      ^ extended by
    PosScreen          the point of sale of one cashier
      MCPosScreen, PosScreenProofs
    BrowserSession     one tab's tokens, user and event stream
    QuickAccess        the accounts a device remembers
      MCBrowserSession, BrowserProofs   both
    RecordForms        the dialogs that change a record
    ListViews          filters, pages and reloads of the lists
    Dashboard          its sections and timers
      MCScreens, ScreensProofs   the three
    SumTheorems        sums over finite sets, for the proofs of CashShift
                       and PosScreen

The first five describe the server at its statements and row locks. The others
describe the browser, one await at a time, and take the server's side of a
request as one step (or two, a look and a later write): what those steps do
inside is the first five's subject.

## 3. Checkout

State: the committed tables (`stock`, `ledger`, `status`, `invoice`), the
catalogue a sale reads (`price`, `active`), the row locks, and per request slot
the statement it is at (`pc`) with the values it has read. One action per
database statement that can wait or decide:

| Action | Code |
|---|---|
| `Begin` | the handler up to its transaction: parsing, `is_active` and existence checks (`H/sale_parsing.go`, `H/product_inventory.go:198-240`); a sale also draws `COUNT(*)+1` (`R/sale_inventory_support.go:36`) |
| `LockSale` | `loadVoidableSaleTx`, `FOR UPDATE` (`R/sale_void.go:53-73`) |
| `InsertExpense` | `INSERT INTO expenses`, whose foreign key shares the product row (`H/expense_workflow.go:154`) |
| `LockInventory` | `SELECT quantity ... FOR UPDATE`, and the refusal to go below zero of adjustments |
| `LockProduct` | `loadSaleProductForUpdate` and the price and stock checks of `prepareSaleItems` |
| `InsertSale` | discount and payment checks and `INSERT INTO sales` under the unique invoice number |
| `Commit` | the writes of all lines and `COMMIT` |
| `Fail`, `DeadlockAbort` | statement timeout, lost client, server stop; PostgreSQL's detector; both run the deferred rollback |
| `EditProduct` | an autocommitted catalogue edit or archiving |

Decisions. A row a transaction writes stays locked until it ends, so its writes
appear at the commit, from the values read under the lock. The shift row a sale
updates last is CashShift's. `sale_items` and `stock_adjustments` share product
rows by foreign key, but only of products whose inventory row the transaction
holds. An archived product makes `SELECT ... WHERE is_active` find no row, so it
waits for none, but a wait that began before stays a wait. Sale items are read
back without `ORDER BY`, so a void restores lines in any order. A cart names a
product once. The day boundary of invoice numbers is left out, and so is the
permanent deletion of products.

Runs (two products with 2 and 1 units, one unit per line, so that the last unit
is contested, and a menu with one request of every kind):

| Run | Instance | Shows |
|---|---|---|
| `checkout_stock` | 3 requests, 2 prices, symmetric | `TypeOK`, `StockNonNegative`, `LedgerChain`, `DenseInvoices`, `SaleTermsStand`, and that every step is an atomic step of StockBook or none |
| `checkout_ends` | 3 requests, fair | `EveryRequestEnds`: no wait and no deadlock strands a request |
| `checkout_deadlock` | 2 requests | `NoDeadlock` is violated: `R/sale_create.go:193-198` calls the lock order cycle-free, a sale and an inventory purchase of one product wait for each other |

Three requests are enough for a lost update (two), a void of a sale racing a
third request, and a cycle over two rows with a bystander; one request more
multiplies the states by more than a hundred.

Fairness: weak, on the next statement of a running transaction and on the
deadlock abort of a waiting one: the server goes on unless it waits, and
PostgreSQL runs its detector at every waiter after `deadlock_timeout`. Clients,
failures and catalogue edits get none.

Proved for any products, slots, menus and prices (`CheckoutProofs`):

* `Typing`: `TypeOK` with `Control`, which ties every program counter to its
  request (only a void is at "sale", a committed sale row belongs to a committed
  slot, and so on).
* `NoOversell`, `StockSafety`: `StockNonNegative` and `LedgerChain`. They are not
  inductive alone: `LinesStand` adds that a line that has been read is held under its
  lock, that the committed quantity is still the one read, and that what will
  be written is not negative.
* `SaleTerms`: between acceptance and commit the product's row is kept FOR
  UPDATE, so price and flag stay.
* `Invoices`: committed numbers are 1..n, and a number drawn is at most one
  above the rows; pending inserts of one number exclude each other.
* `Linearizable`: Checkout implements StockBook under
  `sold <- Sold`. Added invariant: the lines read and the lines ahead make up
  the cart, and a void past its first statement owns a completed sale.

`EveryRequestEnds` is a liveness property and only model-checked.

## 4. CashShift

State: `shifts` (phase, expected cash, totals), the rows that carry cash
(`row`, `shiftOf`), the locks on shifts and sales, and per slot the statement,
the shift its handler saw and what it read. `Begin` is the handler: it sees the
open shift and goes on later. `CreateShift`, `InsertSale`, `InsertOperation`,
`FindSale`, `UpdateTotals`, `Commit`, `LockShift`, `SumCash`, `CloseShift` are
the statements of `R/shift_writes.go`, `R/sale_create.go`, `R/sale_void.go` and
`H/cash_drawer.go`; `Fail` is the deferred rollback.

Decisions. An insert that references a shift takes FOR KEY SHARE on it, which
only a closing's FOR UPDATE stops; `UPDATE shifts` of the totals takes FOR NO
KEY UPDATE, which does not conflict with FOR KEY SHARE (the partial unique index
is no key), so sharing and then updating is no lock upgrade. A closing reads its
sums in a statement, and so in a snapshot, of its own after it has the row. The
refunds the code subtracts are of sales with status `refunded`, which no code
sets. The cash counted at closing decides nothing and is left out. A drawer
operation is one autocommitted insert.

| Run | Instance | Shows |
|---|---|---|
| `shift_cash` | 5 requests, 2 shifts, symmetric, amounts that tell rows apart | `TypeOK`, `OneOpenShift`, `TalliesMatchSales`, `NoDeadlock`, `ExpectedCashExact`, `ClosedIsFinal` |
| `shift_closed` | 3 requests | `RecordedWhileOpen` is violated: README.md:56 ties drawer operations to the active shift, but the shift may be closed between the handler's look and the insert, which then waits for the closing and lands on the closed shift |

Five requests make room for opening, a sale, its void, a closing and a rival of
any kind. Slots stop after one request and two shifts may both be closed, so the
runs allow the system to stop.

Proved (`CashShiftProofs`) from one inductive invariant `IInv`: `Shape` (the
parts of the type invariant without numbers), `Fresh` (an unused shift has no
rows and no locks), `Control` (program counter, request and seen shift agree),
`Holders` (who holds which lock), and `CountStands` (between summing and
committing, the sum is still the cash on the shift: a closing's lock keeps
everything away that would change it). From it follow `SingleOpenShift`,
`ClosedForGood`, `ClosingIsExact` and `DeadlockFreedom`; the last by ranking:
a transaction that holds a shift's row waits for nothing.
`TalliesAreRight` and `TypeCorrect` are about sums over any finite set of rows.
The community modules define them by a recursive function on the subsets of the
set, and the library's induction theorems take a predicate, which the provers
cannot instantiate. `SumTheorems` states the induction with the *set* of
counterexamples instead: inclusion is well-founded on the subsets of a finite
set, so a non-empty set of counterexamples has a least one, and the definition's
next step contradicts it. From it follow `SumInt` (the sum is an integer),
`SumSame` (only the summands count), `SumAdd` and `SumRemove` (an index
contributes its summand, in whatever order the definition picks the indices).
`TalliesAreRight` needs `Book` beside `IInv`: a sale or void that has read the
shift's totals still finds them when it commits (`BaseStands`, the row is locked),
and a void keeps its sale locked and completed until then (`VoidStands`).

## 5. Sessions

State: the `users` row (active, `token_version`, which request set the present
credential), the rows of `refresh_tokens` (live or revoked with a reason,
family, whether `revoked_at` is within the grace window, the access token issued
along), the row locks, and per slot the statement with what it has read.

| Action | Code |
|---|---|
| `Begin` | a request arrives: `H/auth.go`, `H/user.go`, `H/user_credentials_handlers.go`, `H/user_delete_handlers.go` |
| `ReadToken`, `ReadUser` | `GetByTokenHash`, then the user, then the choice between rotation, grace and reuse (`H/auth.go:197-254`) |
| `Create` | `INSERT` of a login's or a grace continuation's token |
| `RevokePresented`, `CommitRotation` | `Rotate`: the conditional `UPDATE`, then `INSERT` and `COMMIT` (`R/refresh_token.go:122-156`) |
| `Revoke` | logout |
| `Bump` | `UpdatePassword`, `UpdatePIN`: `token_version + 1` |
| `Snapshot`, `Visit`, `CommitRevocation` | `RevokeAllForUser`, `RevokeFamily`: an UPDATE sees the rows of its snapshot, waits for each that is locked, looks again, commits |
| `Flag` | `UserRepository.Update` (every column, from the row read before) and `Deactivate` |
| `Fail` | a statement fails; what was committed before stays |
| `WindowEnds` | thirty seconds pass |

Decisions. Tabs share a cookie and answers get lost, so a refresh or logout may
present any token ever stored. A family is named by its login's token. An edit
with password and PIN bumps twice in a row; one bump stands for both. A form
whose `expected_updated_at` is stale when it is checked is refused and leaves no
trace. The user is never deleted.

| Run | Instance | Shows |
|---|---|---|
| `sessions` | 3 requests, symmetric | `ContinuesRotated`, `FamilyLine`, `RevocationComplete`, `AccessFollowsCredential`, `FirstReasonStands` |
| `sessions_tabs` | 2 requests | `SiblingTabSurvives` is violated: the grace window helps a tab that reads the token after its sibling's rotation, not one that read it just before |

A user starts with one session, so three requests can be two rivals for a token
and a revocation of all; `MaxTokens` is one more than the slots, as each request
stores at most one token, and never binds. Every slot serves one request, so the
runs allow the system to stop.

Proved (`SessionsProofs`) for any number of requests and tokens, from one
inductive invariant: `Control` (what a refresh has read of a token that was
already revoked is still true, because reasons are final), `Holders` (a locked
row is live, and held by its rotation or by a bulk UPDATE that has visited it),
`Visits` (what a bulk UPDATE has passed is dead or held by it), `Versions` (no
version is ahead of the user's, the same version means the same credential) and
`Families`. It yields `TypeCorrect`, `SessionsContinueRotatedTokens`, `RevocationIsComplete`,
`AccessTokensFollowTheCredential` and `FirstReasonIsFinal`. `OneLinePerLogin`
adds a count: a rotation kills a live token for the one it adds, a grace token
pays for itself.

What the code leaves open, and the module lets happen: a token inserted after a
bulk revocation's snapshot survives it, and an edit that read the user before it
was archived writes the active flag back (see the hazards).

## 6. Purchases

State: the expense rows as far as they move stock (product and units, or plain),
`stock`, the sum of the adjustments booked for every expense (`booked`), the row
locks on quantities, and per slot the row it read (`seen`), the row it will
write (`final`), the adjustments still to make (`plan`) and those made. `raced`
is a history variable: expenses that were written over a row the writer had not
seen.

| Action | Code |
|---|---|
| `SubmitCreate` | `Create` up to the checks: the row the client asks for |
| `BeginChange` | `Update` and `Delete`: `BeginTx`, `GetByIDWithTx` without `FOR UPDATE`, 404, and the plan of `syncExpenseInventory` |
| `Check` | category, product and permission, on a second connection; again before each further adjustment |
| `Adjust` | `AdjustStockWithTx` under the lock of `inventory_items` |
| `Commit` | `CreateWithTx`, `UpdateWithTx` or `DeleteWithTx`, zero rows being an error, and `COMMIT` |
| `Fail`, `DeadlockAbort` | every early return with its deferred rollback: a stale form, an archived product or category, a missing permission, a bad amount found after the stock was moved, a failing statement; the deadlock detector |
| `OtherTraffic` | sales and adjustments by others |

Decisions. The writes of a transaction stay behind its locks and appear at the
commit. The expense is written last and nothing is waited for after it, so the
lock on its row needs no variable. `expected_updated_at` is compared with the row
that was read, and only to the second; a refusal is `Fail`, and a form that
passes may have been opened before an edit of the same second, so passing shows
nothing but that the row was read. What an edit leaves in the row may be any
row. The product row that the foreign key shares is Checkout's.

| Run | Instance | Shows |
|---|---|---|
| `purchases` | 2 requests, 2 expenses, 2 products, quantities 1 and 2, 3 connections, fair | `TypeOK`, `StockNonNegative`, `BookedAsStated`, `DeletedIsFinal`, `EveryRequestEnds` |
| `purchases_edits` | 2 requests for one expense | `NoLostUpdate` is violated: README.md:62 promises that concurrent edits lose nothing; two edits that both read before either commits go through, and the stock keeps both differences |

One unit is in stock and purchases have one or two, so that reverting may find
too few. Two requests are a change and a rival of any kind, or two moves of
different expenses between the two products in opposite directions.
Fairness is that of Checkout. A request that changes an expense holds one
connection and asks for a second, so `EveryRequestEnds` needs more connections
than such requests; nothing in the code ensures it (see the hazards), and with
as many connections as requests TLC finds them waiting for each other forever.
Requests end, so the runs allow the system to stop.

Proved (`PurchasesProofs`) for any expenses, products, slots and pool, from the
inductive invariant `IInv`: `Balanced` (made and planned adjustments of a request
add up, product by product, to the difference between the row it will write and
the row it read; `PlanRight` shows it of every case of `syncExpenseInventory`,
`TailLeft` of making the next adjustment), `Covered` (units that were moved are
under the mover's lock and covered by the stock) and `Fresh` (an id being created
is nobody else's). It yields `TypeCorrect`, `StockSafety`, `BooksFollowExpenses` and
`DeletionIsFinal`.

## 7. The point of sale

`PosTotals` has `pos-helpers.ts`'s `calculateCartTotals` in hundredths beside the
server's `prepareSaleItems` and `validateSaleFinancialIntegrity` in exact
decimals. `PosScreen` is `pos-screen.tsx` with its dialogs: the shift and cart
shown, the open dialogs, the two busy flags, and for every waiting handler the
request it has sent and what it remembers across the `await`.

| Action | Code |
|---|---|
| `AddToCart`, `UpdateQuantity`, `RemoveFromCart`, `ClearCart`, `SetDiscount` | the cart, out of reach behind a modal dialog |
| `OpenCheckout`, `CheckoutShift`, `CheckoutValidated` | `openCheckout`: the shift is asked for, the cart validated, the dialog opened |
| `CompleteSale`, `SaleAnswered`, `SaleRefreshed`, `CloseCheckout` | `handleCompleteSale` and `closeCheckoutDialog`, which is there while a sale is being recorded |
| `Poll`, `Polled` | the 30-second refresh of the shift |
| `StartShift` ... `DrawerRefreshed` | the shift and drawer dialogs, from click to answer |
| `ServeRead`, `ServeSale`, `ServeDrawer`, `ServeStart`, `Lose` | the server's answer, and a request or an answer that gets lost |
| `Others` | other registers open and close shifts |

Decisions. Prices change in the back office at any moment, so the price a
product has is chosen when the server looks. Amounts typed into the shift and
drawer dialogs decide nothing. `sold` and `lost` are history variables: sales
recorded of the cart as it stands, answers to sales that never arrived. Binary
floating point is left out.

| Run | Instance | Shows |
|---|---|---|
| `pos` | 1 product at 1.05 with 20 % tax, whose price may become 1.00, discounts 0, 10 and 20 %, 2 handlers waiting, 2 shifts, 1 lost answer, symmetric | `TypeOK`, `BookedInShownShift`, `SoldOnce`, `BusyWhileWorking`, `RefusedOverFractions`, `SoldIsCleared` |

Two handlers are a sale beside the poll, the end of a shift, or a second sale;
two shifts are the one shown and the one another register opens. One of the
discounts has to be rounded, the others are of whole hundredths. Of cash received
1.10 is the case with change.

`RefusedOverFractions` says as much as is true: where nothing has to be rounded,
the server accepts what the screen computed. Where something has, it may not: the
screen rounds the tax of each line and the discount to hundredths, the server
rounds nothing and wants the payments to equal its total exactly. The cart of
`pos-helpers.test.ts:63` (two of 3016.67 at 5 %) is 6335.01 there and 6335.007
on the server, which answers "payment amount does not match sale total" as often
as it is asked.

Other things the module lets happen, because the code does: Cancel closes the
dialog of a sale that is still being recorded, and its answer later empties a
cart the cashier has filled anew (so `SoldIsCleared` speaks of watched sales); a
poll answered late shows a shift that has been closed, until the next poll.

Proved (`PosScreenProofs`) for any products, prices, shifts and number of
waiting handlers, from `IInv`: `CallsFine` (a request has been booked in the
shift it names; only a sale's handler asks for a sale), `Alone` (each flag has one
holder), `Counted` (sales of this cart beyond the lost answers: at most one, and
its answer is on the way) and `Covered` (while a sale is watched its dialog is
open, so the cart is out of reach). It yields `BookedAsShown`, `SoldAtMostOnce`,
`BusyIsTrue` and `ClearedAsSold`. `TypeCorrect` and `OnlyFractionsRefused` rest on a
second invariant, `Typed`, with `Sound`: a sale is sent with the total of its cart
and the change that fits it, only a query or a start is answered with a shift, and
a refusal of the amounts means that something had to be rounded. Behind it stand
two results about `PosTotals` for any prices, quantities, tax rates and discounts:
the discount is at most the subtotal, so no total is negative, and where every tax
and the discount are whole hundredths the screen's total is the server's. They are
proved line by line and summed with `SumTheorems`.

## 8. The browser session

`BrowserSession` is one tab: `auth-session.ts` and `transport.ts` (the access
token, the refresh all callers share, the one retry after 401),
`auth-context.tsx` (boot, log in, log out, the reaction to events),
`useUserEvents.ts` (the stream, its reconnection timer, tab focus) and the
settings page's remember switch. The cookie and localStorage survive a page load,
the rest does not. The server's rows are kept as far as a tab can tell them apart:
live, rotated or revoked.

| Action | Code |
|---|---|
| `LoadPage`, `RefreshUser` | a page load with `initializeAuth`; `refreshUser` |
| `SendRequest`, `ServeRequest`, `RequestAnswered`, `RequestFails`, `Expire` | `apiRequest`, its answer, the one retry after 401, the access token's end |
| `ServeRefresh`, `RefreshAnswered`, `RefreshFails` | `refreshSessionTokens` with its scope, and all who wait for it |
| `SubmitLogin`, `SubmitPin`, `VerifyPassword`, `ServeSignIn`, `SignedIn`, `SignInFails` | password and PIN log in, the password check that trusts a device |
| `Logout`, `ServeLogout`, `LoggedOut` | log out |
| `SaveSettings`, `LeaveSettings` | `reissueSessionCookie`: a refresh under way ends first |
| `EnabledEffect`, `Visible`, `TimerFires`, `StreamOpens`, `StreamRefused`, `StreamEnds` | the hook's effect, its listeners and `scheduleReconnect` |
| `Notify`, `Deactivate`, `HandleEvent` | the server's events and `handleUserEvent` |

A step runs from one await to the next; what waits for the shared refresh resumes
in the same step as its answer, as microtasks do.

| Run | Instance | Shows |
|---|---|---|
| `browser` | 1 user, 2 requests at once, 2 streams, 3 refresh tokens, symmetric; Quick Access with 3 accounts and room for 2 | `TypeOK`, `NoSelfReplay`, `OneStream`, `ScopeReissued`, `LogoutIsFinal`, `NoneStranded`, `QuickAccessRight` |

Two requests are a refresh and one that waits for it, or two rivals for starting
one; three ids are the cookie, the one being presented and its successor, the
others' ids being reused. A user who may be deactivated is explored with access
tokens that last, expiring tokens with a user who stays active: both together
double the states, and the theorems below cover them. The properties name the exceptions the code has: a
rotated token is presented again after a lost answer; a log out with a refresh
under way does not last (`auth-context.tsx:285`); a stream given up while it
waited for a refresh takes the ref of its successor along; two overlapping
savings of the remember switch share a refresh. A deactivation's event may find
the stream closing or another event being worked on and is then lost, against
README.md:441; the user is then logged out by the next request.

`QuickAccess` has `AccountManager` and all that writes to it (`Persist`,
`ToggleSettings`, `CheckPassword`, `TakeOut`) beside two history variables that say
who ought to be listed. A password check is one step, though its log in is
awaited: all the tab may do meanwhile is a refresh or `/me` of the same user, which
keeps the account as it is. It also lets happen: a user whose PIN was removed stays
on offer until refused, and `device_trusted` goes when any user who is not saved
signs in. The two modules share no variable; `MCBrowserSession` explores one while
the other rests.

Proved (`BrowserProofs`) for any users, requests under way, streams and refresh
tokens, from `IInv`:

* `Typed`: every call and stream is of a kind the code can produce (`CallFits`,
  `ConnFits`): a refresh brings a token exactly when it was answered with one, only
  requests, savings and events wait for another call, only a stream that waits has
  been given up.
* `Tokens`: what is referred to exists (`Exist`); a new token is referred to by the
  answer that brings it and by nothing else (`Newborn`); the cookie's token is
  rotated only while its successor is on its way, or after that got lost
  (`CookieFit`). `NoSelfReplay` alone is not inductive: it says neither that
  the token an answer brings is new, nor that the cookie, which the next refresh
  will present, has not been rotated.
* `RefNames`: the ref names the one stream that runs and was not given up, and
  there is none while the hook is off. `OneStream` follows.
* `NoneStranded`, `ScopeReissued`, and `Away`: after a clean log out what is left are
  refreshes without a cookie to present, and streams that end.

It yields `TypeCorrect`, `TokensAreNotReplayed`, `TabHoldsOneStream`,
`ChosenScopeIsSent`, `LoggedOutStays` and `RefreshIsShared`. `QuickAccessKept` holds
for any accounts and any `MAX_ACCOUNTS`, from `QuickInv`: the list has no account
twice, and whoever stands before an account signed in after that one's last request
(`Ranked`), so an account that falls off the end has been overtaken by
`MAX_ACCOUNTS` others. It rests on what `removeAccount` does to a list without
repetitions (`TakenOut`, `Removed`); the filter is defined by the places it keeps,
which is what a recursive definition could not be proved equal to.

## 9. Back-office screens

`RecordForms` stands for eight screens that open a record in a form or a
confirmation and save it: products, categories, users, roles, expenses, stock,
low-stock thresholds, sales. Opening and submitting (`OpenCreate`, `OpenEdit`,
`OpenConfirm`, `ReadToOpen`, `Save`, `Confirm`, `Restore`, `VoidSale`) are shared;
what follows an answer is an action of its screen (`ProductSaved`,
`CategoryRestored`, `ThresholdDone`, ...), because the screens differ in what they
reload, when they close and who holds the busy flag. The server looks (`ServeCheck`:
`expected_updated_at`, cut to the second) and writes later (`ServeWrite`); others
write in between (`OthersChange`). A task remembers `seen`, the version its screen
showed, `sent`, the one it named, and `read`, the one the server found.

`ListViews` has the filters, pages and reloads of eleven views, the stock-history
drawer included: what a change of the question does at once, what its 0-ms timer
does, what an answer does to rows, page and spinner. No request carries a number,
so an answer that comes late is shown like any other. An answer is in time
(`InTime`) if the screen still asks what it was asked with and nothing has made it
late: an own change accepted meanwhile (`Outdated`), or, of an infinite list, another
number of pages (`Recounted`). `astray` remembers that the last answer shown was not
in time, or that a load has failed since; other loads under way leave it alone. A chunk
of rows stands for the page and filters it was asked for, and tells whether it may
lack an own change (`late`) or has had one put in since (`edited`).

What the employee changes himself (`ChangeSent`) is reloaded on products, inventory
and categories. Users, expenses and sales load nothing after it: the row is changed,
taken out or added in whatever rows stand there (`UsersChanged`, `ExpensesChanged`,
`SalesChanged`). A created user is appended under any role, view and page
(`users-screen.tsx:297`), a created expense comes first on any page and filter
(`expenses-screen.tsx:312`, and an edited one stays, line 303), a voided sale stays
under a status filter (`sales-screen.tsx:177`), until the next load. A list's `hasMore` is that the page was full, so that a last page of
exactly that length offers an empty one (`changes-list.tsx:61`), which has no pager
to go back by. The rows per page are part of the question; on the changes screen
they are the list's own and do not mount it anew (`ChangesLimit`).

`Dashboard` has the six sections with the two effects that load them, their
timers, and permissions that change while the page is open. Of the rows shown it
remembers whether the last answer was asked for with the permissions of now, before
they changed, or before and came over one of now (`Arrived`).

| Run | Instance | Shows |
|---|---|---|
| `screens` | forms: 2 records, 2 handlers, 2 seconds; lists: 2 filters, 3 report tabs, 2 loads, 3 pages; dashboard: 2 change tabs, 2 permissions, 2 calls per section, 1 change of permissions; symmetric | `BusyFollowsHandler`, `ChangedAsSeen`, `SettledViewIsRight`, `EverySectionLoaded` |

The three share no variable; `MCScreens` explores one while the others rest, which
finds what each does alone. Two handlers on two records are a change and its retry,
a change beside a restore, or two changes of different records (the users' form, whose
steps are those of the products' form, gets one handler at a time). Two loads are an
answer overtaken by a later one, a poll beside a further page, or a change beside the
load that may or may not have it.

What `SettledViewIsRight` asks is that, with nothing under way, the rows are those of
the question, however filters, timers, changes and answers overlapped. It has two
exceptions, both the code's. A list that is `astray`: an old answer came last, and
stays until the next load, since the code numbers no request; or a load has failed.
And the rows of users, expenses and sales may hold own changes put in since the load,
whether or not the filters and the page ask for them (`WithOwn`): the model tells
which chunk was touched, not which row. `EverySectionLoaded` names the one way the
figures can show what was asked for with older permissions: that answer came after
the new one, and nothing at `dashboard-screen.tsx:131-165` tells them apart
(`overtaken`); that they were never asked for anew is excluded.

Proved (`ScreensProofs`) for any records, handlers, seconds, filters, loads, pages,
tabs and permissions:

* Forms: `FormsTyped`, `NothingChangedUnseen` and `BusyIsTrue`, from `FormsInv`.
  Its `DialogInv` says that an open form or confirmation has the stamp of a version
  the record has had (none only for a new record or one that is gone), its
  `TaskInv` what a request names at each step and that `read = seen` once the look
  has passed; for the busy flag every step is calm, sends, ends or gives up.
* Dashboard: `SectionsLoaded`, from `DashboardInv`: figures and shifts have a call
  of now under way, an error, or an answer of now (`Served`), or a timer is set that
  will ask; a tab has any call under way (`Pending`), stands as answered, or waits
  for a timer or to be opened; no spinner turns without a call.
* Lists: `ListsSettleRight`, from `ViewsInv`: a poll or further page that is not
  late counts on the pages the list has (`LoadsFit`), a turning spinner has someone to stop it (`Spinners`),
  a further page is the only one under way and is known to be (`Fetching`), and rows
  that are not the ones asked for have a load under way or a timer set, unless the
  list is `astray` (`Tended`). `SettledViewIsRight` speaks of rest only; the
  invariant says what leads there: whatever changes the question sets the timer or
  loads in the same step, whatever changes the number of pages makes the polls and
  further pages late that counted on the old one, and an accepted change makes late
  what was asked for before it.

## 10. What is not modelled

* Stock: `UpdateInventoryThreshold` at its statement, repeated product lines in
  one cart, the day boundary of invoice numbers, what a permanent deletion of a
  product leaves in other tables.
* Shifts: starvation of a closing by an endless stream of sales (its statement
  times out, which is `Fail`).
* First-owner set-up: one transaction takes an advisory lock and counts again
  before it inserts, so nothing interleaves with it; a model would restate the lock.
* Account lockout: a counter under one mutex that unit tests drive through every
  branch.
* The server's end of an event stream: caps and channels of ten, under one mutex.
  That a stream may lose its last event and end from either side is in
  `BrowserSession`.
* Expense categories: single guarded statements behind one menu.
* Audit records, server reports, exports, queries of lists, uploads, image files:
  they decide nothing here; a report may mix snapshots (see the hazards).
* Lists: what others change while rows stand on the screen, and which rows of a
  chunk an own change touched; lists are not expected to follow either.
* Migrations, seeds, configuration, routing, deployment scripts, wording and
  presentation components.

Only model-checked: `EveryRequestEnds`, of Checkout and of Purchases. It needs
fairness and `ENABLED`, which the prover does not handle. Every other property a
passing run checks is also a theorem. That the filter of `removeAccount`, defined
without recursion, agrees with `SelectSeq` was compared by TLC on small lists only.

## 11. Plan

1. Done: the server's core and the screens, with the proofs above.
2. Done: theorems for every safety property the passing runs check.
3. A browser session with two tabs over `Sessions`' tokens, where a grace window
   decides, and the server's stream registry with it; its theorem would be that a
   tab is taken for a thief only as `SiblingTabSurvives` shows.
4. Abstract specifications for more components (a ledger of shifts that CashShift
   implements, a record with optimistic versions for RecordForms), with their
   refinement proofs.
5. Product deletion across expenses and sales; the first-owner set-up and lockout,
   should their code grow.

## 12. Running

    tlc -workers 2 -config checkout_stock.cfg MCCheckout
    tlapm CheckoutProofs.tla

The longest runs (`screens`, `browser`, `pos`) take two to four minutes.
`PROJECT.json` names every run, its properties, the mutants that show each
property can fail (one definition replaced by a plausible mistake: a dropped
lock, guard or condition), and the source lines of every definition.
