------------------------------ MODULE RecordForms ------------------------------
(***************************************************************************)
(* The back-office screens that change records one at a time: products,    *)
(* categories, users, roles, expenses, stock, low-stock thresholds and     *)
(* sales (which can only be voided). An employee opens a record in a form  *)
(* or a confirmation, and saves; the request names the time of the last    *)
(* change the screen saw, and the server refuses it when the record has    *)
(* changed by the time it looks; it looks first and writes later. Between  *)
(* click and answer the employee may close the dialog, open another, or    *)
(* leave the page, and others change the records.                          *)
(*                                                                         *)
(* The rows a list shows are ListViews' subject: here a row is any version *)
(* of a record up to the present one. What is typed into a form decides    *)
(* nothing, once it is complete: an incomplete form is never sent.         *)
(***************************************************************************)
EXTENDS Naturals, FiniteSets

CONSTANTS
  Records,    \* the records of the screen
  Tasks,      \* handlers that may be waiting for an answer at once
  None,       \* no record: a form for a new one
  MaxStamp,   \* bound: seconds in which a record is changed
  May         \* what the employee may do: "create", "edit", "delete"

ASSUME FormsAssumption ==
  /\ None \notin Records /\ MaxStamp \in Nat \ {0}
  /\ May \subseteq {"create", "edit", "delete"}

FormScreens == {"products", "categories", "users", "roles", "expenses",
                "stock", "threshold", "sales"}
Confirms    == {"archive", "delete", "void"}
Stamps      == 0..MaxStamp

VARIABLES
  formScreen,  \* the screen the employee is on
  (* the server *)
  stamp,       \* the second in which each record last changed
  gone,        \* records deleted for good; sales voided
  (* the screen *)
  form,        \* the form, or the sale's details: open, record and its stamp
  confirm,     \* the confirmation dialog and the record it is about
  submitting,  \* isSubmitting, isSubmittingThreshold, isVoiding, ...
  task         \* what each waiting handler has asked

records  == <<stamp, gone>>
dialogs  == <<form, confirm>>
formVars == <<formScreen, records, dialogs, submitting, task>>
-----------------------------------------------------------------------------
NoForm    == [open |-> FALSE, record |-> None, stamp |-> 0]
NoConfirm == [dialog |-> "none", record |-> None, stamp |-> 0]
NoTask    == [handler |-> "none", step |-> "change", record |-> None,
              seen |-> 0, sent |-> 0, read |-> 0, answer |-> "pending",
              got |-> 0]

Idle(t)   == task[t].handler = "none"
On(names) == formScreen \in names

(* updated_at of the record as the screen has it; absent for a new one. A  *)
(* role has none: its request names the permissions it had.                *)
Expected(seen) == seen

(* A handler sends its request, goes on to reload, or ends.                *)
Ask(h, step, r, seen) ==
  \E t \in Tasks :
    /\ Idle(t)
    /\ task' = [task EXCEPT ![t] =
         [NoTask EXCEPT !.handler = h, !.step = step, !.record = r,
                        !.seen = seen, !.sent = Expected(seen)]]
Reload(t) == task' = [task EXCEPT ![t] =
               [NoTask EXCEPT !.handler = task[t].handler, !.step = "reload"]]
Return(t) == task' = [task EXCEPT ![t] = NoTask]

HasAnswer(t) == task[t].answer \in {"ok", "error"}
Answered(t, h) ==
  task[t].handler = h /\ task[t].step = "change" /\ HasAnswer(t)
Reloaded(t, h) == task[t].handler = h /\ task[t].step = "reload"
Worked(t)      == task[t].answer = "ok"
-----------------------------------------------------------------------------
FormsInit ==
  /\ formScreen \in FormScreens
  /\ stamp = [r \in Records |-> 1] /\ gone = {}
  /\ form = NoForm /\ confirm = NoConfirm
  /\ submitting = FALSE
  /\ task = [t \in Tasks |-> NoTask]
-----------------------------------------------------------------------------
(* The server. A change moves updated_at to the present second, which may  *)
(* be the second it already carries.                                       *)
Touched(r) == {n \in {stamp[r], stamp[r] + 1} : n <= MaxStamp}

(* Both times are cut to the second; a request without a time is not       *)
(* checked. Mutant: no request is.                                         *)
NeverStale(sent, r)    == FALSE
IsStaleSubmit(sent, r) == sent # 0 /\ sent # stamp[r]

Removes(h) == h \in {"delete", "void", "leftRemoval"}

(* The server reads the record and looks at its time. Creating one meets   *)
(* no earlier version. A change may be refused for other reasons: a name   *)
(* that is taken, an archived product, a hierarchy.                        *)
ServeCheck(t) ==
  LET c == task[t] IN
  /\ c.handler # "none" /\ c.step = "change" /\ c.answer = "pending"
  /\ \/ task' = [task EXCEPT ![t].answer = "error"]
     \/ c.record = None /\ task' = [task EXCEPT ![t].answer = "checked"]
     \/ /\ c.record \in Records \ gone /\ ~IsStaleSubmit(c.sent, c.record)
        /\ task' = [task EXCEPT ![t].answer = "checked",
                                ![t].read = stamp[c.record]]
  /\ UNCHANGED <<formScreen, records, dialogs, submitting>>

(* It writes, in a statement or a transaction of its own, whatever was     *)
(* written in between; only a record that is gone stops it.                *)
ServeWrite(t) ==
  LET c == task[t] IN
  /\ c.answer = "checked"
  /\ \/ /\ task' = [task EXCEPT ![t].answer = "error"]
        /\ UNCHANGED records
     \/ /\ c.record = None
        /\ task' = [task EXCEPT ![t].answer = "ok"]
        /\ UNCHANGED records
     \/ /\ c.record \in Records \ gone
        /\ IF Removes(c.handler)
             THEN /\ gone' = gone \cup {c.record}
                  /\ task' = [task EXCEPT ![t].answer = "ok"]
                  /\ UNCHANGED stamp
             ELSE \E n \in Touched(c.record) :
                  /\ stamp' = [stamp EXCEPT ![c.record] = n]
                  /\ task' = [task EXCEPT ![t].answer = "ok", ![t].got = n]
                  /\ UNCHANGED gone
  /\ UNCHANGED <<formScreen, dialogs, submitting>>

(* A voided sale can still be read, and says so: its stamp reads 0 here.   *)
ServeRead(t) ==
  LET c == task[t] IN
  /\ c.handler = "open" /\ c.answer = "pending"
  /\ \/ task' = [task EXCEPT ![t].answer = "error"]
     \/ /\ c.record \notin gone
        /\ task' = [task EXCEPT ![t].answer = "ok", ![t].got = stamp[c.record]]
     \/ /\ c.record \in gone /\ On({"sales"})
        /\ task' = [task EXCEPT ![t].answer = "ok"]
  /\ UNCHANGED <<formScreen, records, dialogs, submitting>>

(* The change was made and its answer is lost.                             *)
Lose(t) ==
  /\ task[t].answer = "ok"
  /\ task' = [task EXCEPT ![t].answer = "error", ![t].got = 0]
  /\ UNCHANGED <<formScreen, records, dialogs, submitting>>

(* Other employees, and sales, which move stock.                           *)
OthersChange(r) ==
  /\ r \notin gone
  /\ \/ \E n \in Touched(r) : stamp' = [stamp EXCEPT ![r] = n] /\ UNCHANGED gone
     \/ gone' = gone \cup {r} /\ UNCHANGED stamp
  /\ UNCHANGED <<formScreen, dialogs, submitting, task>>
-----------------------------------------------------------------------------
(* What the lists offer for a row. Dialogs are modal: while one is open    *)
(* nothing of the list can be reached.                                     *)
ListReached == ~form.open /\ confirm.dialog = "none"

ProductsListOffers(act) ==
  /\ On({"products"})
  /\ \/ act = "edit" /\ "edit" \in May
     \/ act = "restore" /\ "edit" \in May /\ ~submitting
     \/ act \in {"archive", "delete"} /\ "delete" \in May

(* Restore is offered even while a change is under way.                    *)
CategoriesListOffers(act) ==
  /\ On({"categories"})
  /\ \/ act = "edit" /\ "edit" \in May
     \/ act \in {"archive", "restore", "delete"} /\ "delete" \in May

UsersListOffers(act) ==
  /\ On({"users"})
  /\ \/ act = "edit" /\ "edit" \in May
     \/ act \in {"archive", "delete"} /\ "delete" \in May
     \/ act = "restore" /\ "delete" \in May /\ ~submitting

ExpensesListOffers(act) ==
  /\ On({"expenses"})
  /\ act \in {"edit", "delete"} \cap May

(* Only the owner may, and no role but the owner's is out of reach.        *)
RolesListOffers(act) == On({"roles"}) /\ act = "edit" /\ "edit" \in May

Offered(act) ==
  /\ ListReached
  /\ \/ ProductsListOffers(act) \/ CategoriesListOffers(act)
     \/ UsersListOffers(act)    \/ ExpensesListOffers(act)
     \/ RolesListOffers(act)

OpenCreate ==
  /\ ListReached /\ On({"products", "categories", "users", "expenses"})
  /\ "create" \in May
  /\ form' = [open |-> TRUE, record |-> None, stamp |-> 0]
  /\ UNCHANGED <<formScreen, records, confirm, submitting, task>>

OpenEdit(r, n) ==
  /\ Offered("edit")
  /\ form' = [open |-> TRUE, record |-> r, stamp |-> n]
  /\ UNCHANGED <<formScreen, records, confirm, submitting, task>>

OpenConfirm(r, n) ==
  /\ \E act \in {"archive", "delete"} :
       /\ Offered(act)
       /\ confirm' = [dialog |-> act, record |-> r, stamp |-> n]
  /\ UNCHANGED <<formScreen, records, form, submitting, task>>
(* Stock and thresholds are read again before their dialog opens; from the *)
(* low-stock tab a product outside the loaded pages is read first. What    *)
(* opens, opens over whatever is open by then.                             *)
InventoryListOffers == ListReached /\ On({"stock", "threshold"}) /\ "edit" \in May
LowStockOffers      == InventoryListOffers

ReadToOpen(r) ==
  /\ \/ InventoryListOffers /\ Ask("open", "read", r, 0)
     \/ LowStockOffers /\ Ask("open", "product", r, 0)
  /\ UNCHANGED <<formScreen, records, dialogs, submitting>>

ProductRead(t) ==
  /\ task[t].step = "product" /\ HasAnswer(t)
  /\ IF Worked(t)
       THEN task' = [task EXCEPT ![t] = [@ EXCEPT !.step = "read",
                       !.answer = "pending", !.got = 0]]
       ELSE Return(t)
  /\ UNCHANGED <<formScreen, records, dialogs, submitting>>

OpensWithRead(t) ==
  /\ task[t].handler = "open" /\ task[t].step = "read" /\ HasAnswer(t)
  /\ Return(t)
  /\ form' = IF Worked(t)
               THEN [open |-> TRUE, record |-> task[t].record,
                     stamp |-> task[t].got]
               ELSE form
  /\ UNCHANGED <<formScreen, records, confirm, submitting>>

AdjustOpens(t)    == On({"stock"}) /\ OpensWithRead(t)
ThresholdOpens(t) == On({"threshold"}) /\ OpensWithRead(t)

SalesListOffers == ListReached /\ On({"sales"})
ViewSale(r) ==
  /\ SalesListOffers /\ Ask("open", "read", r, 0)
  /\ UNCHANGED <<formScreen, records, dialogs, submitting>>
SaleViewed(t) == On({"sales"}) /\ OpensWithRead(t)

(* The details of a completed sale offer to void it, in a second dialog    *)
(* that does not name the sale.                                            *)
DetailOffersVoid ==
  On({"sales"}) /\ form.open /\ form.stamp # 0 /\ confirm.dialog = "none"
RequestVoid ==
  /\ DetailOffersVoid
  /\ confirm' = [NoConfirm EXCEPT !.dialog = "void"]
  /\ UNCHANGED <<formScreen, records, form, submitting, task>>
-----------------------------------------------------------------------------
(* Saving a form. Each form's button is disabled while a change is under   *)
(* way. Mutant: the button ignores it.                                     *)
AlwaysEnabled == TRUE
SaveEnabled   == ~submitting

Save ==
  /\ Ask("save", "change", form.record, form.stamp)
  /\ submitting' = TRUE
  /\ UNCHANGED <<formScreen, records, dialogs>>

ProductsFormDialog   == On({"products"}) /\ form.open /\ SaveEnabled
CategoriesFormDialog == On({"categories"}) /\ form.open /\ SaveEnabled
UsersFormDialog      == On({"users"}) /\ form.open /\ SaveEnabled
ExpensesFormDialog   == On({"expenses"}) /\ form.open /\ SaveEnabled
PermissionsDialog    == On({"roles"}) /\ form.open /\ SaveEnabled
AdjustDialog         == On({"stock"}) /\ form.open /\ SaveEnabled
ThresholdDialog      == On({"threshold"}) /\ form.open /\ SaveEnabled

(* The handlers check the permission again.                                *)
Permitted == (IF form.record = None THEN "create" ELSE "edit") \in May

ProductSubmit   == ProductsFormDialog /\ Permitted /\ Save
CategorySubmit  == CategoriesFormDialog /\ Permitted /\ Save
UserSubmit      == UsersFormDialog /\ Save
ExpenseSubmit   == ExpensesFormDialog /\ Permitted /\ Save
RoleSubmit      == PermissionsDialog /\ form.record # None /\ Save
AdjustSubmit    == AdjustDialog /\ form.record # None /\ Save
ThresholdSubmit == ThresholdDialog /\ form.record # None /\ "edit" \in May /\ Save

(* Confirming. A late answer may have taken the record away from under the *)
(* dialog: then nothing is sent.                                           *)
ConfirmOffered          == confirm.dialog \in {"archive", "delete"} /\ ~submitting
ConfirmationDialog      == ConfirmOffered /\ On({"products", "users", "expenses"})
CategoriesDeleteDialogs == ConfirmOffered /\ On({"categories"})
Confirm ==
  /\ ConfirmationDialog \/ CategoriesDeleteDialogs
  /\ confirm.record # None /\ "delete" \in May
  /\ Ask(confirm.dialog, "change", confirm.record, confirm.stamp)
  /\ submitting' = TRUE
  /\ UNCHANGED <<formScreen, records, dialogs>>

(* The sale voided is the one the details show now.                        *)
VoidDialog == confirm.dialog = "void" /\ ~submitting
VoidSale ==
  /\ VoidDialog /\ form.record # None
  /\ Ask("void", "change", form.record, form.stamp)
  /\ submitting' = TRUE
  /\ UNCHANGED <<formScreen, records, dialogs>>

(* Restore asks for no confirmation.                                       *)
Restore(r, n) ==
  /\ Offered("restore")
  /\ Ask("restore", "change", r, n)
  /\ UNCHANGED <<formScreen, records, dialogs>>
ProductRestore(r, n)  == On({"products"}) /\ Restore(r, n) /\ submitting' = TRUE
UserRestore(r, n)     == On({"users"}) /\ Restore(r, n) /\ submitting' = TRUE
CategoryRestore(r, n) == On({"categories"}) /\ Restore(r, n) /\ UNCHANGED submitting
-----------------------------------------------------------------------------
(* The answers. Whatever dialog is open by then is the one that closes.    *)
ClosesForm(t)     == form' = IF Worked(t) THEN NoForm ELSE form
ClosesConfirm(d)  ==
  confirm' = [dialog |-> IF confirm.dialog = d THEN "none" ELSE confirm.dialog,
              record |-> None, stamp |-> 0]

(* Products reload their list without waiting for it.                      *)
ProductSaved(t) ==
  /\ On({"products"}) /\ Answered(t, "save")
  /\ ClosesForm(t) /\ submitting' = FALSE /\ Return(t)
  /\ UNCHANGED <<formScreen, records, confirm>>
ProductRemoved(t, d) ==
  /\ On({"products"}) /\ Answered(t, d)
  /\ IF Worked(t) THEN ClosesConfirm(d) ELSE UNCHANGED confirm
  /\ submitting' = FALSE /\ Return(t)
  /\ UNCHANGED <<formScreen, records, form>>
ProductArchived(t) == ProductRemoved(t, "archive")
ProductDeleted(t)  == ProductRemoved(t, "delete")
ProductRestored(t) ==
  /\ On({"products"}) /\ Answered(t, "restore")
  /\ submitting' = FALSE /\ Return(t)
  /\ UNCHANGED <<formScreen, records, dialogs>>

(* Categories wait for the reload, and stay busy until then.               *)
ReloadOrEnd(t) ==
  IF Worked(t) THEN Reload(t) /\ UNCHANGED submitting
               ELSE Return(t) /\ submitting' = FALSE
CategorySaved(t) ==
  /\ On({"categories"}) /\ Answered(t, "save")
  /\ ClosesForm(t) /\ ReloadOrEnd(t)
  /\ UNCHANGED <<formScreen, records, confirm>>
CategoryRemoved(t, d) ==
  /\ On({"categories"}) /\ Answered(t, d)
  /\ IF Worked(t) THEN ClosesConfirm(d) ELSE UNCHANGED confirm
  /\ ReloadOrEnd(t)
  /\ UNCHANGED <<formScreen, records, form>>
CategoryArchived(t) == CategoryRemoved(t, "archive")
CategoryDeleted(t)  == CategoryRemoved(t, "delete")
CategoryRestored(t) ==
  /\ On({"categories"}) /\ Answered(t, "restore")
  /\ IF Worked(t) THEN Reload(t) ELSE Return(t)
  /\ UNCHANGED <<formScreen, records, dialogs, submitting>>
CategoriesReloaded(t) ==
  /\ On({"categories"}) /\ task[t].step = "reload"
  /\ Return(t)
  /\ submitting' = IF task[t].handler = "restore" THEN submitting ELSE FALSE
  /\ UNCHANGED <<formScreen, records, dialogs>>

(* Users change their list in place.                                       *)
UserSaved(t) ==
  /\ On({"users"}) /\ Answered(t, "save")
  /\ ClosesForm(t) /\ submitting' = FALSE /\ Return(t)
  /\ UNCHANGED <<formScreen, records, confirm>>
UserRemoved(t, d) ==
  /\ On({"users"}) /\ Answered(t, d)
  /\ IF Worked(t) THEN ClosesConfirm(d) ELSE UNCHANGED confirm
  /\ submitting' = FALSE /\ Return(t)
  /\ UNCHANGED <<formScreen, records, form>>
UserArchived(t) == UserRemoved(t, "archive")
UserDeleted(t)  == UserRemoved(t, "delete")
UserRestored(t) ==
  /\ On({"users"}) /\ Answered(t, "restore")
  /\ submitting' = FALSE /\ Return(t)
  /\ UNCHANGED <<formScreen, records, dialogs>>

(* The permissions dialog stays open and takes over the role as saved,     *)
(* even when it shows another role by then.                                *)
RoleSaved(t) ==
  /\ On({"roles"}) /\ Answered(t, "save")
  /\ form' = IF Worked(t) /\ form.open
               THEN [open |-> TRUE, record |-> task[t].record,
                     stamp |-> task[t].got]
               ELSE form
  /\ submitting' = FALSE /\ Return(t)
  /\ UNCHANGED <<formScreen, records, confirm>>

(* Expenses, stock and thresholds reload first and close the dialog after. *)
ExpenseSaved(t) ==
  /\ On({"expenses"}) /\ Answered(t, "save") /\ ReloadOrEnd(t)
  /\ UNCHANGED <<formScreen, records, dialogs>>
ExpenseDone(t) ==
  /\ On({"expenses"}) /\ Reloaded(t, "save")
  /\ form' = NoForm /\ submitting' = FALSE /\ Return(t)
  /\ UNCHANGED <<formScreen, records, confirm>>
ExpenseDeleted(t) ==
  /\ On({"expenses"}) /\ Answered(t, "delete") /\ ReloadOrEnd(t)
  /\ UNCHANGED <<formScreen, records, dialogs>>
ExpenseRemoved(t) ==
  /\ On({"expenses"}) /\ Reloaded(t, "delete")
  /\ ClosesConfirm("delete") /\ submitting' = FALSE /\ Return(t)
  /\ UNCHANGED <<formScreen, records, form>>

StockAdjusted(t) ==
  /\ On({"stock"}) /\ Answered(t, "save") /\ ReloadOrEnd(t)
  /\ UNCHANGED <<formScreen, records, dialogs>>
AdjustmentDone(t) ==
  /\ On({"stock"}) /\ Reloaded(t, "save")
  /\ form' = NoForm /\ submitting' = FALSE /\ Return(t)
  /\ UNCHANGED <<formScreen, records, confirm>>

ThresholdSaved(t) ==
  /\ On({"threshold"}) /\ Answered(t, "save") /\ ReloadOrEnd(t)
  /\ UNCHANGED <<formScreen, records, dialogs>>
ThresholdDone(t) ==
  /\ On({"threshold"}) /\ Reloaded(t, "save")
  /\ form' = NoForm /\ submitting' = FALSE /\ Return(t)
  /\ UNCHANGED <<formScreen, records, confirm>>

SaleVoided(t) ==
  /\ On({"sales"}) /\ Answered(t, "void")
  /\ ClosesForm(t)
  /\ confirm' = IF Worked(t) THEN NoConfirm ELSE confirm
  /\ submitting' = FALSE /\ Return(t)
  /\ UNCHANGED <<formScreen, records>>
-----------------------------------------------------------------------------
(* Cancel, Escape and the cross close the topmost dialog, also while its   *)
(* change is under way. The role and threshold dialogs also take their     *)
(* flag down.                                                              *)
CloseForm ==
  /\ form.open /\ confirm.dialog = "none"
  /\ form' = NoForm
  /\ submitting' = (submitting /\ ~On({"roles", "threshold"}))
  /\ UNCHANGED <<formScreen, records, confirm, task>>
CloseConfirm ==
  /\ confirm.dialog # "none" /\ confirm' = NoConfirm
  /\ UNCHANGED <<formScreen, records, form, submitting, task>>

(* The employee leaves the page and comes back to a new one. Changes on    *)
(* their way still reach the server; nobody waits for the answers.         *)
Left(c) ==
  IF c.handler # "none" /\ c.step = "change" /\ c.answer \in {"pending", "checked"}
    THEN [c EXCEPT !.handler = IF Removes(@) THEN "leftRemoval" ELSE "left"]
    ELSE NoTask
Leave ==
  /\ form' = NoForm /\ confirm' = NoConfirm /\ submitting' = FALSE
  /\ task' = [t \in Tasks |-> Left(task[t])]
  /\ UNCHANGED <<formScreen, records>>
Forget(t) ==
  /\ task[t].handler \in {"left", "leftRemoval"} /\ HasAnswer(t)
  /\ Return(t)
  /\ UNCHANGED <<formScreen, records, dialogs, submitting>>
-----------------------------------------------------------------------------
Opens ==
  \/ OpenCreate \/ RequestVoid
  \/ \E r \in Records :
       \/ ReadToOpen(r) \/ ViewSale(r)
       \/ \E n \in 1..stamp[r] : OpenEdit(r, n) \/ OpenConfirm(r, n)
  \/ \E t \in Tasks :
       ProductRead(t) \/ AdjustOpens(t) \/ ThresholdOpens(t) \/ SaleViewed(t)

Submits ==
  \/ ProductSubmit \/ CategorySubmit \/ UserSubmit \/ ExpenseSubmit
  \/ RoleSubmit \/ AdjustSubmit \/ ThresholdSubmit
  \/ Confirm \/ VoidSale
  \/ \E r \in Records : \E n \in 1..stamp[r] :
       ProductRestore(r, n) \/ UserRestore(r, n) \/ CategoryRestore(r, n)

Resumes(t) ==
  \/ ProductSaved(t) \/ ProductArchived(t) \/ ProductDeleted(t) \/ ProductRestored(t)
  \/ CategorySaved(t) \/ CategoryArchived(t) \/ CategoryDeleted(t)
  \/ CategoryRestored(t) \/ CategoriesReloaded(t)
  \/ UserSaved(t) \/ UserArchived(t) \/ UserDeleted(t) \/ UserRestored(t)
  \/ RoleSaved(t) \/ ExpenseSaved(t) \/ ExpenseDone(t)
  \/ ExpenseDeleted(t) \/ ExpenseRemoved(t)
  \/ StockAdjusted(t) \/ AdjustmentDone(t) \/ ThresholdSaved(t) \/ ThresholdDone(t)
  \/ SaleVoided(t)

FormsNext ==
  \/ Opens \/ Submits \/ CloseForm \/ CloseConfirm \/ Leave
  \/ \E t \in Tasks :
       \/ Resumes(t) \/ ServeCheck(t) \/ ServeWrite(t) \/ ServeRead(t)
       \/ Lose(t) \/ Forget(t)
  \/ \E r \in Records : OthersChange(r)

FormsSpec == FormsInit /\ [][FormsNext]_formVars
-----------------------------------------------------------------------------
Handlers == {"none", "save", "archive", "delete", "restore", "void", "open",
             "left", "leftRemoval"}
TaskRecords ==
  [handler : Handlers, step : {"change", "read", "product", "reload"},
   record : Records \cup {None}, seen : Stamps, sent : Stamps, read : Stamps,
   answer : {"pending", "checked", "ok", "error"}, got : Stamps]

(* The variables hold values of their kinds.                               *)
FormsTypeOK ==
  /\ formScreen \in FormScreens
  /\ stamp \in [Records -> 1..MaxStamp] /\ gone \subseteq Records
  /\ form \in [open : BOOLEAN, record : Records \cup {None}, stamp : Stamps]
  /\ confirm \in [dialog : Confirms \cup {"none"},
                  record : Records \cup {None}, stamp : Stamps]
  /\ submitting \in BOOLEAN
  /\ task \in [Tasks -> TaskRecords]

(* The tasks that hold the screen's busy flag.                             *)
Guarded(t) ==
  \/ task[t].handler \in {"save", "archive", "delete", "void"}
  \/ task[t].handler = "restore" /\ ~On({"categories"})

(* The busy flag of a screen is up exactly while a change it guards is     *)
(* under way, and there is never a second one: no error path leaves the    *)
(* buttons dead, and closing a dialog does not let a change be sent twice. *)
(* The role and threshold dialogs take the flag down as they close, so     *)
(* there it only means that a change is under way.                         *)
BusyFollowsHandler ==
  /\ submitting => \E t \in Tasks : Guarded(t)
  /\ ~On({"roles", "threshold"}) =>
       /\ \A t \in Tasks : Guarded(t) => submitting
       /\ \A t, u \in Tasks : Guarded(t) /\ Guarded(u) => t = u

Accepted(t) ==
  /\ task[t].record # None /\ task[t].answer = "checked"
  /\ task'[t].answer = "ok"

(* A change the server accepts was asked by someone whose screen showed    *)
(* the record as the server found it when it looked, to the second: nobody *)
(* overwrites or removes what was there before and not seen, also after an *)
(* answer was lost and the change was sent again, or when the screen had   *)
(* an older list. What others write between look and write is lost.        *)
ChangedAsSeen ==
  [][\A t \in Tasks : Accepted(t) =>
       /\ task[t].record \notin gone
       /\ task[t].seen = task[t].read]_formVars
=============================================================================
