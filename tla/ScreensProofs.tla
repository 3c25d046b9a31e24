------------------------------ MODULE ScreensProofs ------------------------------
(***************************************************************************)
(* What the back-office screens guarantee: their forms for any records,    *)
(* handlers under way, seconds and permissions, the dashboard for any      *)
(* tabs, any number of calls under way and any history of permissions, and *)
(* the lists for any filters, number of loads under way and of pages.      *)
(***************************************************************************)
EXTENDS RecordForms, ListViews, Dashboard, TLAPS

(* A change is sent without a stamp, and so is not checked, only for a new *)
(* record or for one that is gone: forms and confirmations over a record   *)
(* carry the stamp of some version of it, but for the details of a sale    *)
(* that was voided.                                                        *)
DialogInv ==
  /\ form \in [open : BOOLEAN, record : Records \cup {None}, stamp : Stamps]
  /\ confirm \in [dialog : Confirms \cup {"none"},
                  record : Records \cup {None}, stamp : Stamps]
  /\ form.stamp = 0 /\ form.record # None => form.record \in gone
  /\ confirm.record # None => confirm.stamp # 0

ReloadHandlers == {"save", "archive", "delete", "restore"}
Fits(c) ==
  /\ c.handler = "open" => c.record \in Records
  /\ c.step \in {"read", "product"} => c.handler = "open"
  /\ c.step = "reload" => c.handler \in ReloadHandlers

(* The same of the requests under way; what the server read is what the    *)
(* screen had seen; what an answer brings is a stamp, or the record is     *)
(* gone; only records are read, and only changes end in a reload.          *)
TaskSeen(t) ==
  /\ Fits(task[t])
  /\ task[t].sent = task[t].seen
  /\ (task[t].step = "change" /\ task[t].seen = 0 /\ task[t].record # None)
       => task[t].record \in gone
  /\ (task[t].answer = "checked" /\ task[t].record # None)
       => task[t].read = task[t].seen
  /\ (/\ task[t].handler \in {"open", "save"} /\ task[t].step \in {"read", "change"}
      /\ task[t].answer = "ok" /\ task[t].got = 0 /\ task[t].record # None)
       => task[t].record \in gone

TaskInv == task \in [Tasks -> TaskRecords] /\ \A t \in Tasks : TaskSeen(t)

RestOK ==
  /\ formScreen \in FormScreens /\ submitting \in BOOLEAN
  /\ stamp \in [Records -> 1..MaxStamp] /\ gone \subseteq Records

FormsInv == RestOK /\ DialogInv /\ TaskInv

(* No request goes from looked-at to accepted.                             *)
NoneAccepted == \A t \in Tasks : ~Accepted(t)
-----------------------------------------------------------------------------
LEMMA NoStamp == 0 \in Stamps
  BY FormsAssumption DEF Stamps

LEMMA TaskKinds ==
  /\ NoTask \in TaskRecords
  /\ NoTask.record = None /\ NoTask.sent = NoTask.seen /\ NoTask.answer = "pending"
  /\ NoTask.handler = "none" /\ NoTask.step = "change" /\ Fits(NoTask)
  BY NoStamp DEF NoTask, TaskRecords, Handlers, Fits

(* A new request is one whose stamp is given, or of no record, or of one   *)
(* that is gone.                                                           *)
LEMMA FormsAsk ==
  ASSUME FormsInv, UNCHANGED records,
         NEW h \in Handlers, NEW step \in {"change", "read", "product"},
         NEW r \in Records \cup {None}, NEW seen \in Stamps,
         Ask(h, step, r, seen),
         h = "open" => r \in Records, step # "change" => h = "open",
         step = "change" /\ seen = 0 /\ r # None => r \in gone
  PROVE  TaskInv' /\ NoneAccepted
<1> DEFINE new == [NoTask EXCEPT !.handler = h, !.step = step, !.record = r,
                                 !.seen = seen, !.sent = Expected(seen)]
<1>1. PICK t \in Tasks : Idle(t) /\ task' = [task EXCEPT ![t] = new]
  BY DEF Ask
<1>2. /\ new \in TaskRecords /\ new.sent = new.seen /\ new.answer = "pending"
      /\ new.step = step /\ new.seen = seen /\ new.record = r /\ new.handler = h
  BY TaskKinds, NoStamp DEF NoTask, TaskRecords, Expected
<1> HIDE DEF new
<1>3. task' \in [Tasks -> TaskRecords]
  BY <1>1, <1>2 DEF FormsInv, TaskInv
<1>4. ASSUME NEW u \in Tasks PROVE TaskSeen(u)' /\ ~Accepted(u)
  <2>1. CASE u = t
    <3>1. task'[u] = new
      BY <1>1, <2>1 DEF FormsInv, TaskInv
    <3> QED BY <3>1, <1>2 DEF TaskSeen, Fits, records, Accepted
  <2>2. CASE u # t
    <3>1. task'[u] = task[u] /\ TaskSeen(u)
      BY <1>1, <2>2 DEF FormsInv, TaskInv
    <3> QED BY <3>1 DEF TaskSeen, Fits, records, Accepted
  <2> QED BY <2>1, <2>2
<1> QED BY <1>3, <1>4 DEF TaskInv, NoneAccepted

(* A task becomes another one, and records only get lost.                  *)
LEMMA Becoming ==
  ASSUME FormsInv, gone \subseteq gone', NEW t \in Tasks, NEW new \in TaskRecords,
         task' = [task EXCEPT ![t] = new],
         new.sent = new.seen, Fits(new),
         new.step = "change" /\ new.seen = 0 /\ new.record # None => new.record \in gone',
         new.answer = "checked" /\ new.record # None => new.read = new.seen,
         (/\ new.handler \in {"open", "save"} /\ new.step \in {"read", "change"}
          /\ new.answer = "ok" /\ new.got = 0 /\ new.record # None)
            => new.record \in gone'
  PROVE  TaskInv'
<1>1. task' \in [Tasks -> TaskRecords]
  BY DEF FormsInv, TaskInv
<1>2. ASSUME NEW u \in Tasks PROVE TaskSeen(u)'
  <2>1. CASE u = t
    <3>1. task'[u] = new
      BY <2>1 DEF FormsInv, TaskInv
    <3> QED BY <3>1 DEF TaskSeen, Fits
  <2>2. CASE u # t
    <3>1. task'[u] = task[u] /\ TaskSeen(u)
      BY <2>2 DEF FormsInv, TaskInv
    <3> QED BY <3>1 DEF TaskSeen, Fits
  <2> QED BY <2>1, <2>2
<1> QED BY <1>1, <1>2 DEF TaskInv

(* What stays as it is, while records may get lost.                        *)
LEMMA Keeping ==
  ASSUME FormsInv, gone \subseteq gone'
  PROVE  /\ UNCHANGED task => TaskInv' /\ NoneAccepted
         /\ UNCHANGED dialogs => DialogInv'
<1>1. ASSUME UNCHANGED task PROVE TaskInv' /\ NoneAccepted
  BY <1>1 DEF FormsInv, TaskInv, TaskSeen, Fits, NoneAccepted, Accepted
<1>2. ASSUME UNCHANGED dialogs PROVE DialogInv'
  BY <1>2 DEF FormsInv, DialogInv, dialogs
<1> QED BY <1>1, <1>2
-----------------------------------------------------------------------------
(* What a handler may do when its answer has come: it ends or reloads,     *)
(* dialogs close or lose their record, and no record changes.              *)
Settles(t) ==
  /\ UNCHANGED <<formScreen, records>> /\ submitting' \in BOOLEAN
  /\ Return(t) \/ (Reload(t) /\ task[t].handler \in ReloadHandlers)
  /\ form' \in {form, NoForm}
  /\ \/ confirm' \in {confirm, NoConfirm}
     \/ \E d \in {"none", confirm.dialog} :
          confirm' = [dialog |-> d, record |-> None, stamp |-> 0]

LEMMA SettlesKeeps ==
  ASSUME FormsInv, NEW t \in Tasks, Settles(t)
  PROVE  FormsInv' /\ NoneAccepted
<1>1. gone' = gone /\ RestOK'
  BY DEF FormsInv, RestOK, Settles, records
<1>2. TaskInv'
  <2>1. CASE Return(t)
    BY <2>1, <1>1, Becoming, TaskKinds DEF Fits, Return
  <2>2. CASE Reload(t) /\ task[t].handler \in ReloadHandlers
    <3> DEFINE new == [NoTask EXCEPT !.handler = task[t].handler, !.step = "reload"]
    <3>1. task[t].handler \in Handlers
      BY DEF FormsInv, TaskInv, TaskRecords
    <3>2. /\ new \in TaskRecords /\ new.sent = new.seen /\ new.record = None
          /\ new.answer = "pending" /\ new.handler = task[t].handler /\ new.step = "reload"
      BY <3>1, TaskKinds DEF NoTask, TaskRecords
    <3>3. Fits(new)
      BY <2>2, <3>2 DEF Fits, ReloadHandlers
    <3> HIDE DEF new
    <3>4. task' = [task EXCEPT ![t] = new]
      BY <2>2 DEF Reload, new
    <3> QED BY <1>1, <3>2, <3>3, <3>4, Becoming
  <2> QED BY <2>1, <2>2 DEF Settles
<1>3. NoneAccepted
  <2>1. ASSUME NEW u \in Tasks PROVE task'[u].answer = "pending" \/ task'[u] = task[u]
    BY TaskKinds DEF FormsInv, TaskInv, Settles, Return, Reload, NoTask
  <2> QED BY <2>1 DEF NoneAccepted, Accepted
<1>4. DialogInv'
  <2>1. NoForm.record = None /\ NoForm.stamp = 0 /\ NoConfirm.record = None
    BY DEF NoForm, NoConfirm
  <2>2. form' \in [open : BOOLEAN, record : Records \cup {None}, stamp : Stamps]
    <3>1. NoForm \in [open : BOOLEAN, record : Records \cup {None}, stamp : Stamps]
      <4>1. None \in Records \cup {None} /\ FALSE \in BOOLEAN
        OBVIOUS
      <4> QED BY <4>1, NoStamp, Zenon DEF NoForm
    <3> QED BY <3>1 DEF FormsInv, DialogInv, Settles
  <2>3. /\ confirm' \in [dialog : Confirms \cup {"none"},
                         record : Records \cup {None}, stamp : Stamps]
        /\ confirm' = confirm \/ confirm'.record = None
    <3>1. CASE confirm' \in {confirm, NoConfirm}
      BY <3>1, <2>1, NoStamp DEF FormsInv, DialogInv, NoConfirm
    <3>2. ASSUME NEW d \in {"none", confirm.dialog},
                 confirm' = [dialog |-> d, record |-> None, stamp |-> 0]
          PROVE  <2>3
      <4>1. d \in Confirms \cup {"none"}
        BY <3>2 DEF FormsInv, DialogInv
      <4> QED BY <3>2, <4>1, NoStamp
    <3> QED BY <3>1, <3>2 DEF Settles
  <2> QED BY <1>1, <2>1, <2>2, <2>3 DEF FormsInv, DialogInv, Settles
<1> QED BY <1>1, <1>2, <1>3, <1>4 DEF FormsInv

(* Each answer of each screen is such a settling, but that of a saved role, *)
(* whose dialog takes over what was saved.                                 *)
LEMMA Answers ==
  ASSUME FormsInv, NEW t \in Tasks, Resumes(t), ~RoleSaved(t)
  PROVE  Settles(t)
<1> USE DEF ReloadHandlers, Settles, ClosesForm, ReloadOrEnd, Answered, Reloaded
<1> HIDE DEF NoForm, NoConfirm
<1>1. CASE ProductSaved(t)
  BY <1>1 DEF ProductSaved, dialogs
<1>2. CASE ProductArchived(t) \/ ProductDeleted(t)
  BY <1>2 DEF ProductArchived, ProductDeleted, ProductRemoved, ClosesConfirm
<1>3. CASE ProductRestored(t)
  BY <1>3 DEF ProductRestored, dialogs
<1>4. CASE CategorySaved(t)
  BY <1>4 DEF CategorySaved, FormsInv, RestOK
<1>5. CASE CategoryArchived(t) \/ CategoryDeleted(t)
  BY <1>5 DEF CategoryArchived, CategoryDeleted, CategoryRemoved, ClosesConfirm, FormsInv, RestOK
<1>6. CASE CategoryRestored(t)
  BY <1>6 DEF CategoryRestored, dialogs, FormsInv, RestOK
<1>7. CASE CategoriesReloaded(t)
  BY <1>7 DEF CategoriesReloaded, dialogs, FormsInv, RestOK
<1>8. CASE UserSaved(t)
  BY <1>8 DEF UserSaved
<1>9. CASE UserArchived(t) \/ UserDeleted(t)
  BY <1>9 DEF UserArchived, UserDeleted, UserRemoved, ClosesConfirm
<1>10. CASE UserRestored(t)
  BY <1>10 DEF UserRestored, dialogs
<1>11. CASE ExpenseSaved(t) \/ ExpenseDeleted(t) \/ StockAdjusted(t) \/ ThresholdSaved(t)
  BY <1>11 DEF ExpenseSaved, ExpenseDeleted, StockAdjusted, ThresholdSaved, dialogs, FormsInv, RestOK
<1>12. CASE ExpenseDone(t) \/ AdjustmentDone(t) \/ ThresholdDone(t)
  BY <1>12 DEF ExpenseDone, AdjustmentDone, ThresholdDone
<1>13. CASE ExpenseRemoved(t)
  BY <1>13 DEF ExpenseRemoved, ClosesConfirm
<1>14. CASE SaleVoided(t)
  BY <1>14 DEF SaleVoided
<1> QED BY <1>1, <1>2, <1>3, <1>4, <1>5, <1>6, <1>7, <1>8, <1>9, <1>10, <1>11,
           <1>12, <1>13, <1>14 DEF Resumes
-----------------------------------------------------------------------------
(* Opening a form or a confirmation.                                       *)
LEMMA Opening ==
  ASSUME FormsInv, Opens
  PROVE  FormsInv' /\ NoneAccepted
<1>1. ASSUME UNCHANGED <<formScreen, records, submitting, task>>, DialogInv'
      PROVE  FormsInv' /\ NoneAccepted
  BY <1>1, Keeping DEF FormsInv, RestOK, records
<1>2. CASE OpenCreate
  <2>1. DialogInv'
    <3>1. form' = [open |-> TRUE, record |-> None, stamp |-> 0] /\ UNCHANGED <<records, confirm>>
      BY <1>2 DEF OpenCreate
    <3>2. TRUE \in BOOLEAN /\ None \in Records \cup {None}
      OBVIOUS
    <3>3. form' \in [open : BOOLEAN, record : Records \cup {None}, stamp : Stamps]
      BY <3>1, <3>2, NoStamp, Zenon
    <3> QED BY <3>1, <3>3 DEF FormsInv, DialogInv, records
  <2> QED BY <1>1, <1>2, <2>1 DEF OpenCreate
<1>3. CASE RequestVoid
  <2>1. DialogInv'
    BY <1>3, NoStamp DEF RequestVoid, FormsInv, DialogInv, records, NoConfirm, Confirms
  <2> QED BY <1>1, <1>3, <2>1 DEF RequestVoid
<1>4. ASSUME NEW r \in Records, NEW n \in 1..stamp[r], OpenEdit(r, n) \/ OpenConfirm(r, n)
      PROVE  FormsInv' /\ NoneAccepted
  <2>1. n \in Stamps /\ n # 0
    BY FormsAssumption DEF FormsInv, RestOK, Stamps
  <2>2. CASE OpenEdit(r, n)
    <3>1. form' = [open |-> TRUE, record |-> r, stamp |-> n] /\ UNCHANGED <<records, confirm>>
      BY <2>2 DEF OpenEdit
    <3>2. form' \in [open : BOOLEAN, record : Records \cup {None}, stamp : Stamps]
      <4>1. TRUE \in BOOLEAN /\ r \in Records \cup {None}
        OBVIOUS
      <4> QED BY <3>1, <4>1, <2>1, Zenon
    <3>3. DialogInv'
      BY <2>1, <3>1, <3>2 DEF FormsInv, DialogInv, records
    <3> QED BY <1>1, <2>2, <3>3 DEF OpenEdit
  <2>3. CASE OpenConfirm(r, n)
    <3>1. PICK act \in {"archive", "delete"} :
            confirm' = [dialog |-> act, record |-> r, stamp |-> n]
      BY <2>3 DEF OpenConfirm
    <3>2. DialogInv'
      BY <2>1, <2>3, <3>1 DEF OpenConfirm, FormsInv, DialogInv, records, Confirms
    <3> QED BY <1>1, <2>3, <3>2 DEF OpenConfirm
  <2> QED BY <1>4, <2>2, <2>3
<1>5. ASSUME NEW r \in Records, ReadToOpen(r) \/ ViewSale(r)
      PROVE  FormsInv' /\ NoneAccepted
  <2>1. /\ \E step \in {"read", "product"} : Ask("open", step, r, 0)
        /\ UNCHANGED <<formScreen, records, dialogs, submitting>>
    BY <1>5 DEF ReadToOpen, ViewSale
  <2>2. TaskInv' /\ NoneAccepted
    BY <2>1, FormsAsk, NoStamp DEF Handlers
  <2> QED BY <2>1, <2>2, Keeping DEF FormsInv, RestOK, records
<1>6. ASSUME NEW t \in Tasks, ProductRead(t)
      PROVE  FormsInv' /\ NoneAccepted
  <2>1. CASE Worked(t)
    <3> DEFINE new == [task[t] EXCEPT !.step = "read", !.answer = "pending", !.got = 0]
    <3>1. task' = [task EXCEPT ![t] = new] /\ UNCHANGED <<formScreen, records, dialogs, submitting>>
      BY <1>6, <2>1 DEF ProductRead
    <3>2. task[t] \in TaskRecords /\ TaskSeen(t) /\ task[t].step = "product"
      BY <1>6 DEF ProductRead, FormsInv, TaskInv
    <3>3. /\ new \in TaskRecords /\ new.sent = new.seen
          /\ new.step = "read" /\ new.answer = "pending"
          /\ Fits(new)
      BY <3>2, NoStamp DEF TaskRecords, TaskSeen, Fits
    <3> HIDE DEF new
    <3>4. TaskInv'
      BY <3>1, <3>3, Becoming DEF Fits, records
    <3>5. NoneAccepted
      BY <3>1, <3>3 DEF NoneAccepted, Accepted, FormsInv, TaskInv
    <3> QED BY <3>1, <3>4, <3>5, Keeping DEF FormsInv, RestOK, records
  <2>2. CASE ~Worked(t)
    <3>1. Settles(t)
      BY <1>6, <2>2 DEF ProductRead, Settles, FormsInv, RestOK, dialogs
    <3> QED BY <3>1, SettlesKeeps
  <2> QED BY <2>1, <2>2
<1>7. ASSUME NEW t \in Tasks, OpensWithRead(t)
      PROVE  FormsInv' /\ NoneAccepted
  <2>1. CASE ~Worked(t)
    <3>1. Settles(t)
      BY <1>7, <2>1 DEF OpensWithRead, Settles, FormsInv, RestOK
    <3> QED BY <3>1, SettlesKeeps
  <2>2. CASE Worked(t)
    <3>1. /\ form' = [open |-> TRUE, record |-> task[t].record, stamp |-> task[t].got]
          /\ UNCHANGED <<formScreen, records, confirm, submitting>> /\ Return(t)
      BY <1>7, <2>2 DEF OpensWithRead
    <3>2. /\ task[t].record \in Records \cup {None} /\ task[t].got \in Stamps
          /\ task[t].got = 0 /\ task[t].record # None => task[t].record \in gone
      BY <1>7, <2>2 DEF OpensWithRead, Worked, FormsInv, TaskInv, TaskSeen, Fits, TaskRecords
    <3>3. form' \in [open : BOOLEAN, record : Records \cup {None}, stamp : Stamps]
      <4>1. TRUE \in BOOLEAN
        OBVIOUS
      <4> QED BY <3>1, <3>2, <4>1, Zenon
    <3>4. DialogInv'
      BY <3>1, <3>2, <3>3 DEF FormsInv, DialogInv, records
    <3>5. TaskInv'
      BY <3>1, Becoming, TaskKinds DEF Fits, Return, records
    <3>6. NoneAccepted
      BY <3>1, TaskKinds DEF Return, NoneAccepted, Accepted, FormsInv, TaskInv
    <3> QED BY <3>1, <3>4, <3>5, <3>6 DEF FormsInv, RestOK, records
  <2> QED BY <2>1, <2>2
<1> QED BY <1>2, <1>3, <1>4, <1>5, <1>6, <1>7
        DEF Opens, AdjustOpens, ThresholdOpens, SaleViewed

LEMMA RoleTakenOver ==
  ASSUME FormsInv, NEW t \in Tasks, RoleSaved(t)
  PROVE  FormsInv' /\ NoneAccepted
<1>1. CASE ~(Worked(t) /\ form.open)
  <2>1. Settles(t)
    BY <1>1 DEF RoleSaved, Settles
  <2> QED BY <2>1, SettlesKeeps
<1>2. CASE Worked(t) /\ form.open
  <2>1. /\ form' = [open |-> TRUE, record |-> task[t].record, stamp |-> task[t].got]
        /\ UNCHANGED <<formScreen, records, confirm>> /\ submitting' = FALSE /\ Return(t)
    BY <1>2 DEF RoleSaved
  <2>2. /\ task[t].record \in Records \cup {None} /\ task[t].got \in Stamps
        /\ task[t].got = 0 /\ task[t].record # None => task[t].record \in gone
    BY <1>2 DEF RoleSaved, Answered, Worked, FormsInv, TaskInv, TaskSeen, Fits, TaskRecords
  <2>3. form' \in [open : BOOLEAN, record : Records \cup {None}, stamp : Stamps]
    <3>1. TRUE \in BOOLEAN
      OBVIOUS
    <3> QED BY <2>1, <2>2, <3>1, Zenon
  <2>4. DialogInv'
    BY <2>1, <2>2, <2>3 DEF FormsInv, DialogInv, records
  <2>5. TaskInv'
    BY <2>1, Becoming, TaskKinds DEF Fits, Return, records
  <2>6. NoneAccepted
    BY <2>1, TaskKinds DEF Return, NoneAccepted, Accepted, FormsInv, TaskInv
  <2> QED BY <2>1, <2>4, <2>5, <2>6 DEF FormsInv, RestOK, records
<1> QED BY <1>1, <1>2

(* Sending a change.                                                       *)
LEMMA Sending ==
  ASSUME FormsInv, Submits
  PROVE  FormsInv' /\ NoneAccepted
<1>1. /\ form.record \in Records \cup {None} /\ form.stamp \in Stamps
      /\ confirm.record \in Records \cup {None} /\ confirm.stamp \in Stamps
      /\ confirm.dialog \in Confirms \cup {"none"}
  BY DEF FormsInv, DialogInv
<1>2. ASSUME UNCHANGED <<formScreen, records, dialogs>>, submitting' \in BOOLEAN,
             TaskInv', NoneAccepted
      PROVE  FormsInv' /\ NoneAccepted
  BY <1>2, Keeping DEF FormsInv, RestOK, records
<1>3. CASE Save
  <2>1. TaskInv' /\ NoneAccepted
    BY <1>1, <1>3, FormsAsk DEF Save, Handlers, FormsInv, DialogInv
  <2> QED BY <1>2, <1>3, <2>1 DEF Save
<1>4. CASE Confirm
  <2>1. confirm.dialog \in Handlers
    BY <1>4 DEF Confirm, ConfirmationDialog, CategoriesDeleteDialogs, ConfirmOffered, Handlers
  <2>2. TaskInv' /\ NoneAccepted
    BY <1>1, <1>4, <2>1, FormsAsk DEF Confirm, FormsInv, DialogInv
  <2> QED BY <1>2, <1>4, <2>2 DEF Confirm
<1>5. CASE VoidSale
  <2>1. TaskInv' /\ NoneAccepted
    BY <1>1, <1>5, FormsAsk DEF VoidSale, Handlers, FormsInv, DialogInv
  <2> QED BY <1>2, <1>5, <2>1 DEF VoidSale
<1>6. ASSUME NEW r \in Records, NEW n \in 1..stamp[r], Restore(r, n), submitting' \in BOOLEAN
      PROVE  FormsInv' /\ NoneAccepted
  <2>1. n \in Stamps /\ n # 0
    BY FormsAssumption DEF FormsInv, RestOK, Stamps
  <2>2. TaskInv' /\ NoneAccepted
    BY <1>6, <2>1, FormsAsk DEF Restore, Handlers
  <2> QED BY <1>2, <1>6, <2>2 DEF Restore
<1>7. submitting \in BOOLEAN
  BY DEF FormsInv, RestOK
<1> QED BY <1>3, <1>4, <1>5, <1>6, <1>7
        DEF Submits, ProductSubmit, CategorySubmit, UserSubmit, ExpenseSubmit, RoleSubmit,
            AdjustSubmit, ThresholdSubmit, ProductRestore, UserRestore, CategoryRestore
-----------------------------------------------------------------------------
(* What an accepted change is: see ChangedAsSeen.                          *)
Honest == \A t \in Tasks : Accepted(t) =>
            task[t].record \notin gone /\ task[t].seen = task[t].read

(* The server looks: what it lets pass carries the stamp it found, for one *)
(* without a stamp is of a record that is gone.                            *)
LEMMA Looking ==
  ASSUME FormsInv, NEW t \in Tasks, ServeCheck(t)
  PROVE  FormsInv' /\ Honest
<1> DEFINE c == task[t]
<1>1. /\ c \in TaskRecords /\ TaskSeen(t) /\ c.step = "change" /\ c.answer = "pending"
      /\ UNCHANGED <<formScreen, records, dialogs, submitting>>
  BY DEF FormsInv, TaskInv, ServeCheck
<1>2. TaskInv' /\ NoneAccepted
  <2>1. ASSUME NEW new \in TaskRecords, task' = [task EXCEPT ![t] = new],
               new.sent = c.sent, new.seen = c.seen, new.record = c.record, new.answer # "ok",
               new.handler = c.handler, new.step = "change",
               new.answer = "checked" /\ new.record # None => new.read = new.seen
        PROVE  TaskInv' /\ NoneAccepted
    <3>1. TaskInv'
      BY <1>1, <2>1, Becoming DEF Fits, TaskSeen, Fits, records
    <3> QED BY <2>1, <3>1 DEF NoneAccepted, Accepted, FormsInv, TaskInv
  <2>2. CASE task' = [task EXCEPT ![t].answer = "error"]
    <3> DEFINE new == [c EXCEPT !.answer = "error"]
    <3>1. /\ new \in TaskRecords /\ new.sent = c.sent /\ new.seen = c.seen
          /\ new.record = c.record /\ new.answer = "error" /\ new.handler = c.handler
          /\ new.step = c.step
      BY <1>1 DEF TaskRecords
    <3>2. task' = [task EXCEPT ![t] = new]
      BY <2>2
    <3> HIDE DEF new
    <3> QED BY <1>1, <3>1, <3>2, <2>1
  <2>3. CASE c.record = None /\ task' = [task EXCEPT ![t].answer = "checked"]
    <3> DEFINE new == [c EXCEPT !.answer = "checked"]
    <3>1. /\ new \in TaskRecords /\ new.sent = c.sent /\ new.seen = c.seen
          /\ new.record = c.record /\ new.answer = "checked" /\ new.handler = c.handler
          /\ new.step = c.step
      BY <1>1 DEF TaskRecords
    <3>2. task' = [task EXCEPT ![t] = new]
      BY <2>3
    <3> HIDE DEF new
    <3> QED BY <1>1, <2>3, <3>1, <3>2, <2>1
  <2>4. CASE /\ c.record \in Records \ gone /\ ~IsStaleSubmit(c.sent, c.record)
             /\ task' = [task EXCEPT ![t].answer = "checked", ![t].read = stamp[c.record]]
    <3> DEFINE new == [c EXCEPT !.answer = "checked", !.read = stamp[c.record]]
    <3>1. stamp[c.record] \in Stamps
      BY <2>4, FormsAssumption DEF FormsInv, RestOK, Stamps
    <3>2. c.seen = stamp[c.record]
      BY <1>1, <2>4, FormsAssumption DEF TaskSeen, Fits, IsStaleSubmit
    <3>3. /\ new \in TaskRecords /\ new.sent = c.sent /\ new.seen = c.seen
          /\ new.record = c.record /\ new.answer = "checked" /\ new.read = stamp[c.record]
          /\ new.handler = c.handler /\ new.step = c.step
      BY <1>1, <3>1 DEF TaskRecords
    <3>4. task' = [task EXCEPT ![t] = new]
      BY <2>4
    <3> HIDE DEF new
    <3> QED BY <1>1, <3>2, <3>3, <3>4, <2>1
  <2> QED BY <2>2, <2>3, <2>4 DEF ServeCheck
<1>3. FormsInv'
  BY <1>1, <1>2, Keeping DEF FormsInv, RestOK, records
<1> QED BY <1>2, <1>3 DEF NoneAccepted, Honest

(* It writes, if the record is there.                                      *)
LEMMA Writing ==
  ASSUME FormsInv, NEW t \in Tasks, ServeWrite(t)
  PROVE  FormsInv' /\ Honest
<1> DEFINE c == task[t]
<1>1. /\ c \in TaskRecords /\ TaskSeen(t) /\ c.answer = "checked"
      /\ UNCHANGED <<formScreen, dialogs, submitting>>
  BY DEF FormsInv, TaskInv, ServeWrite
<1>2. \A u \in Tasks \ {t} : task'[u] = task[u]
  BY DEF ServeWrite, FormsInv, TaskInv
<1>3. Honest
  <2>1. Accepted(t) => c.record \notin gone /\ c.seen = c.read
    BY <1>1 DEF ServeWrite, Accepted, TaskSeen, Fits, FormsInv, TaskInv, TaskRecords
  <2>2. \A u \in Tasks \ {t} : ~Accepted(u)
    BY <1>2 DEF Accepted
  <2> QED BY <2>1, <2>2 DEF Honest
<1>4. ASSUME gone \subseteq gone', stamp' \in [Records -> 1..MaxStamp], gone' \subseteq Records,
             NEW new \in TaskRecords, task' = [task EXCEPT ![t] = new],
             new.sent = c.sent, new.seen = c.seen, new.record = c.record, new.answer # "checked",
             new.step = c.step, new.handler = c.handler,
             new.handler = "save" /\ new.answer = "ok" /\ new.got = 0 /\ new.record # None
               => new.record \in gone',
             new.handler # "open" \/ new.answer # "ok" \/ new.got # 0 \/ new.record = None
      PROVE  FormsInv'
  <2>1. TaskInv'
    BY <1>1, <1>4, Becoming DEF Fits, TaskSeen, Fits
  <2> QED BY <1>1, <1>4, <2>1, Keeping DEF FormsInv, RestOK
<1>5. CASE task' = [task EXCEPT ![t].answer = "error"] /\ UNCHANGED records
  <2> DEFINE new == [c EXCEPT !.answer = "error"]
  <2>1. /\ new \in TaskRecords /\ new.sent = c.sent /\ new.seen = c.seen
        /\ new.record = c.record /\ new.answer = "error" /\ new.step = c.step
        /\ new.handler = c.handler
    BY <1>1 DEF TaskRecords
  <2>2. task' = [task EXCEPT ![t] = new]
    BY <1>5
  <2> HIDE DEF new
  <2>3. FormsInv'
    BY <1>4, <1>5, <2>1, <2>2 DEF records, FormsInv, RestOK
  <2> QED BY <1>3, <2>3
<1>6. CASE c.record = None /\ task' = [task EXCEPT ![t].answer = "ok"] /\ UNCHANGED records
  <2> DEFINE new == [c EXCEPT !.answer = "ok"]
  <2>1. /\ new \in TaskRecords /\ new.sent = c.sent /\ new.seen = c.seen
        /\ new.record = c.record /\ new.answer = "ok" /\ new.step = c.step
        /\ new.handler = c.handler
    BY <1>1 DEF TaskRecords
  <2>2. task' = [task EXCEPT ![t] = new]
    BY <1>6
  <2> HIDE DEF new
  <2>3. FormsInv'
    BY <1>4, <1>6, <2>1, <2>2 DEF records, FormsInv, RestOK
  <2> QED BY <1>3, <2>3
<1>7. CASE /\ c.record \in Records \ gone /\ Removes(c.handler)
           /\ gone' = gone \cup {c.record} /\ UNCHANGED stamp
           /\ task' = [task EXCEPT ![t].answer = "ok"]
  <2> DEFINE new == [c EXCEPT !.answer = "ok"]
  <2>1. /\ new \in TaskRecords /\ new.sent = c.sent /\ new.seen = c.seen /\ new.step = c.step
        /\ new.record = c.record /\ new.answer = "ok" /\ new.handler = c.handler
    BY <1>1 DEF TaskRecords
  <2>2. task' = [task EXCEPT ![t] = new]
    BY <1>7
  <2>3. c.handler \notin {"open", "save"}
    BY <1>7 DEF Removes
  <2> HIDE DEF new
  <2>4. FormsInv'
    BY <1>4, <1>7, <2>1, <2>2, <2>3 DEF FormsInv, RestOK
  <2> QED BY <1>3, <2>4
<1>8. CASE /\ c.record \in Records \ gone
           /\ \E n \in Touched(c.record) :
                /\ stamp' = [stamp EXCEPT ![c.record] = n] /\ UNCHANGED gone
                /\ task' = [task EXCEPT ![t].answer = "ok", ![t].got = n]
  <2>1. PICK n \in Touched(c.record) :
          /\ stamp' = [stamp EXCEPT ![c.record] = n] /\ UNCHANGED gone
          /\ task' = [task EXCEPT ![t].answer = "ok", ![t].got = n]
    BY <1>8
  <2>2. n \in 1..MaxStamp /\ n \in Stamps
    BY <1>8, <2>1, FormsAssumption DEF Touched, FormsInv, RestOK, Stamps
  <2> DEFINE new == [c EXCEPT !.answer = "ok", !.got = n]
  <2>3. /\ new \in TaskRecords /\ new.sent = c.sent /\ new.seen = c.seen /\ new.step = c.step
        /\ new.record = c.record /\ new.answer = "ok" /\ new.got = n
        /\ new.handler = c.handler
    BY <1>1, <2>2 DEF TaskRecords
  <2>4. task' = [task EXCEPT ![t] = new]
    BY <2>1
  <2> HIDE DEF new
  <2>5. stamp' \in [Records -> 1..MaxStamp] /\ n # 0
    <3>1. n # 0
      BY <2>2, FormsAssumption
    <3>2. stamp' \in [Records -> 1..MaxStamp]
      BY <2>1, <2>2, Zenon DEF FormsInv, RestOK
    <3> QED BY <3>1, <3>2
  <2>6. FormsInv'
    BY <1>4, <2>1, <2>3, <2>4, <2>5 DEF FormsInv, RestOK
  <2> QED BY <1>3, <2>6
<1> QED BY <1>5, <1>6, <1>7, <1>8 DEF ServeWrite

(* Reading, losing an answer, and what others do.                          *)
LEMMA AroundTheServer ==
  ASSUME FormsInv,
         \/ \E t \in Tasks : ServeRead(t) \/ Lose(t) \/ Forget(t)
         \/ \E r \in Records : OthersChange(r)
  PROVE  FormsInv' /\ NoneAccepted
<1>1. ASSUME NEW t \in Tasks, NEW new \in TaskRecords,
             task' = [task EXCEPT ![t] = new],
             UNCHANGED <<formScreen, records, dialogs, submitting>>,
             new.sent = task[t].sent, new.seen = task[t].seen, new.step = task[t].step,
             new.record = task[t].record, new.handler = task[t].handler, new.answer \in {"ok", "error"},
             task[t].answer # "checked",
             new.answer = "ok" /\ new.got = 0 /\ new.record # None => new.record \in gone
      PROVE  FormsInv' /\ NoneAccepted
  <2>1. TaskSeen(t)
    BY DEF FormsInv, TaskInv
  <2>2. TaskInv'
    BY <1>1, <2>1, Becoming DEF Fits, TaskSeen, Fits, records
  <2>3. NoneAccepted
    BY <1>1 DEF NoneAccepted, Accepted, FormsInv, TaskInv
  <2> QED BY <1>1, <2>2, <2>3, Keeping DEF FormsInv, RestOK, records
<1>2. ASSUME NEW t \in Tasks, ServeRead(t)
      PROVE  FormsInv' /\ NoneAccepted
  <2> DEFINE c == task[t]
  <2>1. /\ c \in TaskRecords /\ c.answer = "pending"
        /\ UNCHANGED <<formScreen, records, dialogs, submitting>>
    BY <1>2 DEF ServeRead, FormsInv, TaskInv
  <2>2. CASE task' = [task EXCEPT ![t].answer = "error"]
    <3> DEFINE new == [c EXCEPT !.answer = "error"]
    <3>1. /\ new \in TaskRecords /\ new.sent = c.sent /\ new.seen = c.seen /\ new.step = c.step
          /\ new.record = c.record /\ new.answer = "error" /\ new.handler = c.handler
          /\ new.step = c.step
      BY <2>1 DEF TaskRecords
    <3>2. task' = [task EXCEPT ![t] = new]
      BY <2>2
    <3> HIDE DEF new
    <3> QED BY <1>1, <2>1, <3>1, <3>2
  <2>3. CASE /\ c.record \notin gone
             /\ task' = [task EXCEPT ![t].answer = "ok", ![t].got = stamp[c.record]]
    <3> DEFINE new == [c EXCEPT !.answer = "ok", !.got = stamp[c.record]]
    <3>1. c.record \in Records
      BY <1>2 DEF ServeRead, FormsInv, TaskInv, TaskSeen, Fits
    <3>2. stamp[c.record] \in Stamps /\ stamp[c.record] # 0
      BY <3>1, FormsAssumption DEF FormsInv, RestOK, Stamps
    <3>3. /\ new \in TaskRecords /\ new.sent = c.sent /\ new.seen = c.seen
          /\ new.step = c.step /\ new.record = c.record /\ new.answer = "ok"
          /\ new.got = stamp[c.record] /\ new.handler = c.handler
      BY <2>1, <3>2 DEF TaskRecords
    <3>4. task' = [task EXCEPT ![t] = new]
      BY <2>3
    <3> HIDE DEF new
    <3> QED BY <1>1, <2>1, <3>2, <3>3, <3>4
  <2>4. CASE c.record \in gone /\ task' = [task EXCEPT ![t].answer = "ok"]
    <3> DEFINE new == [c EXCEPT !.answer = "ok"]
    <3>1. /\ new \in TaskRecords /\ new.sent = c.sent /\ new.seen = c.seen /\ new.step = c.step
          /\ new.record = c.record /\ new.answer = "ok" /\ new.handler = c.handler
      BY <2>1 DEF TaskRecords
    <3>2. task' = [task EXCEPT ![t] = new]
      BY <2>4
    <3> HIDE DEF new
    <3> QED BY <1>1, <2>1, <2>4, <3>1, <3>2
  <2> QED BY <1>2, <2>2, <2>3, <2>4 DEF ServeRead
<1>3. ASSUME NEW t \in Tasks, Lose(t)
      PROVE  FormsInv' /\ NoneAccepted
  <2> DEFINE c == task[t]
             new == [c EXCEPT !.answer = "error", !.got = 0]
  <2>1. /\ c \in TaskRecords /\ c.answer = "ok"
        /\ UNCHANGED <<formScreen, records, dialogs, submitting>>
    BY <1>3 DEF Lose, FormsInv, TaskInv
  <2>2. /\ new \in TaskRecords /\ new.sent = c.sent /\ new.seen = c.seen /\ new.step = c.step
        /\ new.record = c.record /\ new.answer = "error" /\ new.handler = c.handler
          /\ new.step = c.step
    BY <2>1, NoStamp DEF TaskRecords
  <2>3. task' = [task EXCEPT ![t] = new]
    BY <1>3 DEF Lose
  <2> HIDE DEF new
  <2> QED BY <1>1, <2>1, <2>2, <2>3
<1>4. ASSUME NEW t \in Tasks, Forget(t)
      PROVE  FormsInv' /\ NoneAccepted
  <2>1. Settles(t)
    BY <1>4 DEF Forget, Settles, dialogs, FormsInv, RestOK
  <2> QED BY <2>1, SettlesKeeps
<1>5. ASSUME NEW r \in Records, OthersChange(r)
      PROVE  FormsInv' /\ NoneAccepted
  <2>1. /\ gone \subseteq gone' /\ gone' \subseteq Records
        /\ UNCHANGED <<formScreen, dialogs, submitting, task>>
    BY <1>5 DEF OthersChange, FormsInv, RestOK
  <2>2. stamp' \in [Records -> 1..MaxStamp]
    <3>1. CASE UNCHANGED stamp
      BY <3>1 DEF FormsInv, RestOK
    <3>2. ASSUME NEW n \in Touched(r), stamp' = [stamp EXCEPT ![r] = n]
          PROVE  stamp' \in [Records -> 1..MaxStamp]
      <4>1. n \in 1..MaxStamp
        BY FormsAssumption DEF Touched, FormsInv, RestOK
      <4> QED BY <3>2, <4>1, Zenon DEF FormsInv, RestOK
    <3> QED BY <1>5, <3>1, <3>2 DEF OthersChange
  <2> QED BY <2>1, <2>2, Keeping DEF FormsInv, RestOK
<1> QED BY <1>2, <1>3, <1>4, <1>5

(* Closing a dialog, or leaving the page.                                  *)
LEMMA Closing ==
  ASSUME FormsInv, CloseForm \/ CloseConfirm \/ Leave
  PROVE  FormsInv' /\ NoneAccepted
<1>1. /\ NoForm \in [open : BOOLEAN, record : Records \cup {None}, stamp : Stamps]
      /\ NoForm.record = None
  <2>1. FALSE \in BOOLEAN /\ None \in Records \cup {None}
    OBVIOUS
  <2>2. NoForm \in [open : BOOLEAN, record : Records \cup {None}, stamp : Stamps]
    BY <2>1, NoStamp, Zenon DEF NoForm
  <2> QED BY <2>2 DEF NoForm
<1>2. /\ NoConfirm \in [dialog : Confirms \cup {"none"},
                        record : Records \cup {None}, stamp : Stamps]
      /\ NoConfirm.record = None
  BY NoStamp DEF NoConfirm, Confirms
<1>3. /\ form' \in {form, NoForm} /\ confirm' \in {confirm, NoConfirm}
      /\ UNCHANGED <<formScreen, records>> /\ submitting' \in BOOLEAN
  <2>1. CASE CloseForm
    BY <2>1 DEF CloseForm
  <2>2. CASE CloseConfirm
    BY <2>2 DEF CloseConfirm, FormsInv, RestOK
  <2>3. CASE Leave
    BY <2>3 DEF Leave
  <2> QED BY <2>1, <2>2, <2>3
<1>4. DialogInv' /\ RestOK'
  BY <1>1, <1>2, <1>3 DEF FormsInv, DialogInv, RestOK, records
<1>5. TaskInv' /\ NoneAccepted
  <2>1. CASE UNCHANGED task
    BY <1>3, <2>1, Keeping DEF records
  <2>2. CASE Leave
    <3>1. ASSUME NEW t \in Tasks
          PROVE  /\ task'[t] \in TaskRecords
                 /\ \/ task'[t] = NoTask
                    \/ /\ task'[t].sent = task[t].sent /\ task'[t].seen = task[t].seen
                       /\ task'[t].step = task[t].step /\ task'[t].record = task[t].record
                       /\ task'[t].answer = task[t].answer /\ task'[t].read = task[t].read
                       /\ task'[t].answer \in {"pending", "checked"}
                       /\ task'[t].handler # "open" /\ task'[t].step = "change"
      BY <2>2, TaskKinds DEF Leave, Left, FormsInv, TaskInv, TaskRecords, Handlers
    <3>2. task' \in [Tasks -> TaskRecords]
      BY <2>2, <3>1 DEF Leave
    <3>3. ASSUME NEW t \in Tasks PROVE TaskSeen(t)' /\ ~Accepted(t)
      <4>1. TaskSeen(t)
        BY DEF FormsInv, TaskInv
      <4> QED BY <1>3, <3>1, <4>1, TaskKinds DEF TaskSeen, Fits, Accepted, records
    <3> QED BY <3>2, <3>3 DEF TaskInv, NoneAccepted
  <2> QED BY <2>1, <2>2 DEF CloseForm, CloseConfirm
<1> QED BY <1>4, <1>5 DEF FormsInv
-----------------------------------------------------------------------------
LEMMA FormsStart == FormsInit => FormsInv
<1> SUFFICES ASSUME FormsInit PROVE FormsInv
  OBVIOUS
<1>1. RestOK
  <2>1. 1 \in 1..MaxStamp
    BY FormsAssumption
  <2>2. stamp \in [Records -> 1..MaxStamp]
    BY <2>1, Zenon DEF FormsInit
  <2> QED BY <2>2 DEF FormsInit, RestOK
<1>2. TaskInv
  BY TaskKinds DEF FormsInit, TaskInv, TaskSeen, Fits
<1>3. form \in [open : BOOLEAN, record : Records \cup {None}, stamp : Stamps]
  <2>1. FALSE \in BOOLEAN /\ None \in Records \cup {None}
    OBVIOUS
  <2> QED BY <2>1, NoStamp, Zenon DEF FormsInit, NoForm
<1>4. DialogInv
  BY <1>3, NoStamp DEF FormsInit, DialogInv, NoForm, NoConfirm, Confirms
<1> QED BY <1>1, <1>2, <1>4 DEF FormsInv

LEMMA FormsStep ==
  ASSUME FormsInv, [FormsNext]_formVars
  PROVE  FormsInv' /\ Honest
<1>1. NoneAccepted => Honest
  BY DEF NoneAccepted, Honest
<1>2. CASE Opens
  BY <1>1, <1>2, Opening
<1>3. CASE Submits
  BY <1>1, <1>3, Sending
<1>4. CASE CloseForm \/ CloseConfirm \/ Leave
  BY <1>1, <1>4, Closing
<1>5. ASSUME NEW t \in Tasks, Resumes(t)
      PROVE  FormsInv' /\ Honest
  <2>1. CASE RoleSaved(t)
    BY <1>1, <2>1, RoleTakenOver
  <2>2. CASE ~RoleSaved(t)
    BY <1>1, <1>5, <2>2, Answers, SettlesKeeps
  <2> QED BY <2>1, <2>2
<1>6. ASSUME NEW t \in Tasks, ServeCheck(t) \/ ServeWrite(t)
      PROVE  FormsInv' /\ Honest
  BY <1>6, Looking, Writing
<1>7. CASE \/ \E t \in Tasks : ServeRead(t) \/ Lose(t) \/ Forget(t)
           \/ \E r \in Records : OthersChange(r)
  BY <1>1, <1>7, AroundTheServer
<1>8. CASE UNCHANGED formVars
  BY <1>1, <1>8, Keeping DEF formVars, records, dialogs, FormsInv, RestOK
<1> QED BY <1>2, <1>3, <1>4, <1>5, <1>6, <1>7, <1>8 DEF FormsNext

LEMMA FormsInvariance == FormsSpec => []FormsInv
<1>1. FormsInv /\ [FormsNext]_formVars => FormsInv'
  BY FormsStep
<1> QED BY FormsStart, <1>1, PTL DEF FormsSpec

(* The screens' variables hold values of their kinds, whatever is clicked  *)
(* and answered.                                                           *)
THEOREM FormsTyped == FormsSpec => []FormsTypeOK
<1>1. FormsInv => FormsTypeOK
  BY DEF FormsInv, RestOK, DialogInv, TaskInv, FormsTypeOK
<1> QED BY FormsInvariance, <1>1, PTL

(* A change the server accepts (isStaleSubmit and the handlers' reads) was *)
(* asked from a screen that showed the record as the server found it, for  *)
(* any number of handlers, records and seconds.                            *)
THEOREM NothingChangedUnseen == FormsSpec => ChangedAsSeen
<1>1. FormsInv /\ [FormsNext]_formVars
        => [\A t \in Tasks : Accepted(t) =>
              /\ task[t].record \notin gone
              /\ task[t].seen = task[t].read]_formVars
  BY FormsStep DEF Honest
<1> QED BY FormsInvariance, <1>1, PTL DEF FormsSpec, ChangedAsSeen
-----------------------------------------------------------------------------
(* How a step moves the busy flag and the tasks it guards: not at all, by  *)
(* sending one change, by ending one, or by giving up what is shown.       *)
SameGuarded(S) == \A t \in S : Guarded(t)' <=> Guarded(t)
Calm    == UNCHANGED <<formScreen, submitting>> /\ SameGuarded(Tasks)
Sends   == /\ ~submitting /\ submitting' = TRUE /\ UNCHANGED formScreen
           /\ \E t \in Tasks : Guarded(t)' /\ SameGuarded(Tasks \ {t})
Ends(t) == /\ Guarded(t) /\ ~Guarded(t)' /\ SameGuarded(Tasks \ {t})
           /\ submitting' = FALSE /\ UNCHANGED formScreen
GivesUp == /\ UNCHANGED formScreen /\ submitting' = FALSE
           /\ \/ \A t \in Tasks : ~Guarded(t)'
              \/ On({"roles", "threshold"})

LEMMA BusyMoves ==
  ASSUME BusyFollowsHandler, Calm \/ Sends \/ GivesUp \/ \E t \in Tasks : Ends(t)
  PROVE  BusyFollowsHandler'
<1>1. CASE Calm
  BY <1>1 DEF Calm, SameGuarded, BusyFollowsHandler, On
<1>2. CASE Sends
  <2>1. PICK t \in Tasks : Guarded(t)' /\ SameGuarded(Tasks \ {t})
    BY <1>2 DEF Sends
  <2>2. ~On({"roles", "threshold"}) => \A u \in Tasks : Guarded(u)' => u = t
    BY <1>2, <2>1 DEF Sends, SameGuarded, BusyFollowsHandler
  <2> QED BY <1>2, <2>1, <2>2 DEF Sends, BusyFollowsHandler, On
<1>3. CASE GivesUp
  BY <1>3 DEF GivesUp, BusyFollowsHandler, On
<1>4. ASSUME NEW t \in Tasks, Ends(t) PROVE BusyFollowsHandler'
  BY <1>4 DEF Ends, SameGuarded, BusyFollowsHandler, On
<1> QED BY <1>1, <1>2, <1>3, <1>4

LEMMA BusyAnswers ==
  ASSUME FormsInv, NEW t \in Tasks, Resumes(t)
  PROVE  Calm \/ Ends(t)
<1>1. \A u \in Tasks \ {t} : task'[u] = task[u]
  BY DEF FormsInv, TaskInv, Resumes, ProductSaved, ProductArchived, ProductDeleted,
         ProductRemoved, ProductRestored, CategorySaved, CategoryArchived, CategoryDeleted,
         CategoryRemoved, CategoryRestored, CategoriesReloaded, UserSaved, UserArchived,
         UserDeleted, UserRemoved, UserRestored, RoleSaved, ExpenseSaved, ExpenseDone,
         ExpenseDeleted, ExpenseRemoved, StockAdjusted, AdjustmentDone, ThresholdSaved,
         ThresholdDone, SaleVoided, ReloadOrEnd, Return, Reload
<1>2. formScreen' = formScreen
  BY DEF Resumes, ProductSaved, ProductArchived, ProductDeleted,
         ProductRemoved, ProductRestored, CategorySaved, CategoryArchived, CategoryDeleted,
         CategoryRemoved, CategoryRestored, CategoriesReloaded, UserSaved, UserArchived,
         UserDeleted, UserRemoved, UserRestored, RoleSaved, ExpenseSaved, ExpenseDone,
         ExpenseDeleted, ExpenseRemoved, StockAdjusted, AdjustmentDone, ThresholdSaved,
         ThresholdDone, SaleVoided
<1>3. SameGuarded(Tasks \ {t})
  BY <1>1, <1>2 DEF SameGuarded, Guarded, On
<1>4. /\ Return(t) => task'[t].handler = "none"
      /\ Reload(t) => task'[t].handler = task[t].handler
  <2>1. ASSUME Return(t) PROVE task'[t].handler = "none"
    BY <2>1, TaskKinds DEF Return, FormsInv, TaskInv
  <2>2. ASSUME Reload(t) PROVE task'[t].handler = task[t].handler
    <3> DEFINE new == [NoTask EXCEPT !.handler = task[t].handler, !.step = "reload"]
    <3>1. new.handler = task[t].handler
      BY DEF NoTask
    <3> HIDE DEF new
    <3>2. task' = [task EXCEPT ![t] = new]
      BY <2>2 DEF Reload, new
    <3> QED BY <3>1, <3>2 DEF FormsInv, TaskInv
  <2> QED BY <2>1, <2>2
<1>5. ASSUME Guarded(t), Return(t), submitting' = FALSE PROVE Ends(t)
  BY <1>2, <1>3, <1>4, <1>5 DEF Ends, Guarded
<1>6. ASSUME Reload(t), UNCHANGED submitting PROVE Calm
  BY <1>2, <1>3, <1>4, <1>6 DEF Calm, SameGuarded, Guarded, On
<1>7. ASSUME ~Guarded(t), Return(t), UNCHANGED submitting PROVE Calm
  BY <1>2, <1>3, <1>4, <1>7 DEF Calm, SameGuarded, Guarded
<1>8. ASSUME Guarded(t), ReloadOrEnd(t) PROVE Calm \/ Ends(t)
  BY <1>5, <1>6, <1>8 DEF ReloadOrEnd
<1>9. CASE \/ ProductSaved(t) \/ ProductArchived(t) \/ ProductDeleted(t) \/ UserSaved(t)
           \/ UserArchived(t) \/ UserDeleted(t) \/ RoleSaved(t) \/ SaleVoided(t)
  <2>1. Guarded(t)
    BY <1>9 DEF ProductSaved, ProductArchived, ProductDeleted, ProductRemoved, UserSaved,
                UserArchived, UserDeleted, UserRemoved, RoleSaved, SaleVoided, Answered, Guarded
  <2>2. Return(t) /\ submitting' = FALSE
    BY <1>9 DEF ProductSaved, ProductArchived, ProductDeleted, ProductRemoved, UserSaved,
                UserArchived, UserDeleted, UserRemoved, RoleSaved, SaleVoided
  <2> QED BY <1>5, <2>1, <2>2
<1>10. CASE ProductRestored(t) \/ UserRestored(t)
  <2>1. Guarded(t)
    BY <1>10 DEF ProductRestored, UserRestored, Answered, Guarded, On
  <2> QED BY <1>5, <1>10, <2>1 DEF ProductRestored, UserRestored
<1>11. CASE \/ CategorySaved(t) \/ CategoryArchived(t) \/ CategoryDeleted(t)
            \/ ExpenseSaved(t) \/ ExpenseDeleted(t) \/ StockAdjusted(t) \/ ThresholdSaved(t)
  <2>1. Guarded(t) /\ ReloadOrEnd(t)
    BY <1>11 DEF CategorySaved, CategoryArchived, CategoryDeleted, CategoryRemoved,
                 ExpenseSaved, ExpenseDeleted, StockAdjusted, ThresholdSaved, Answered, Guarded
  <2> QED BY <1>8, <2>1
<1>12. CASE ExpenseDone(t) \/ ExpenseRemoved(t) \/ AdjustmentDone(t) \/ ThresholdDone(t)
  <2>1. Guarded(t) /\ Return(t) /\ submitting' = FALSE
    BY <1>12 DEF ExpenseDone, ExpenseRemoved, AdjustmentDone, ThresholdDone, Reloaded, Guarded
  <2> QED BY <1>5, <2>1
<1>13. CASE CategoryRestored(t)
  <2>1. ~Guarded(t) /\ UNCHANGED submitting /\ (Reload(t) \/ Return(t))
    BY <1>13 DEF CategoryRestored, Answered, Guarded, On
  <2> QED BY <1>6, <1>7, <2>1
<1>14. CASE CategoriesReloaded(t)
  <2>1. CASE Guarded(t)
    BY <1>5, <1>14, <2>1 DEF CategoriesReloaded, Guarded, On
  <2>2. CASE ~Guarded(t)
    <3>1. task[t].handler = "restore" /\ UNCHANGED submitting
      BY <1>14, <2>2 DEF CategoriesReloaded, Guarded, FormsInv, TaskInv, TaskSeen, Fits, ReloadHandlers
    <3> QED BY <1>7, <1>14, <2>2, <3>1 DEF CategoriesReloaded
  <2> QED BY <2>1, <2>2
<1> QED BY <1>9, <1>10, <1>11, <1>12, <1>13, <1>14 DEF Resumes

LEMMA BusySubmits ==
  ASSUME FormsInv, Submits
  PROVE  Calm \/ Sends
<1>1. ASSUME NEW h \in Handlers, NEW r, NEW seen, Ask(h, "change", r, seen), UNCHANGED formScreen,
             h \in {"save", "archive", "delete", "void"} \/ (h = "restore" /\ ~On({"categories"})),
             ~submitting, submitting' = TRUE
      PROVE  Sends
  <2> DEFINE new == [NoTask EXCEPT !.handler = h, !.step = "change", !.record = r,
                                   !.seen = seen, !.sent = Expected(seen)]
  <2>1. PICK t \in Tasks : task' = [task EXCEPT ![t] = new]
    BY <1>1 DEF Ask
  <2>2. new.handler = h
    BY DEF NoTask
  <2> HIDE DEF new
  <2>3. Guarded(t)' /\ SameGuarded(Tasks \ {t})
    BY <1>1, <2>1, <2>2 DEF Guarded, SameGuarded, On, FormsInv, TaskInv
  <2> QED BY <1>1, <2>3 DEF Sends
<1>2. ~submitting \/ submitting = TRUE
  BY DEF FormsInv, RestOK
<1>3. CASE Save /\ SaveEnabled
  <2>1. "save" \in Handlers
    BY DEF Handlers
  <2> QED BY <1>1, <1>3, <2>1 DEF Save, SaveEnabled
<1>4. CASE Confirm
  <2>1. /\ confirm.dialog \in {"archive", "delete"} /\ ~submitting
        /\ confirm.dialog \in Handlers
    BY <1>4 DEF Confirm, ConfirmationDialog, CategoriesDeleteDialogs, ConfirmOffered, Handlers
  <2> QED BY <1>1, <1>4, <2>1 DEF Confirm
<1>5. CASE VoidSale
  <2>1. "void" \in Handlers
    BY DEF Handlers
  <2> QED BY <1>1, <1>5, <2>1 DEF VoidSale, VoidDialog
<1>6. ASSUME NEW r \in Records, NEW n, ProductRestore(r, n) \/ UserRestore(r, n)
      PROVE  Sends
  <2>1. /\ Ask("restore", "change", r, n) /\ UNCHANGED formScreen
        /\ submitting' = TRUE /\ ~On({"categories"})
    BY <1>6 DEF ProductRestore, UserRestore, Restore, On
  <2>2. ~submitting
    BY <1>6 DEF ProductRestore, UserRestore, Restore, Offered, On, ProductsListOffers,
                CategoriesListOffers, UsersListOffers, ExpensesListOffers, RolesListOffers
  <2>3. "restore" \in Handlers
    BY DEF Handlers
  <2> QED BY <1>1, <2>1, <2>2, <2>3
<1>7. ASSUME NEW r \in Records, NEW n, CategoryRestore(r, n)
      PROVE  Calm
  <2> DEFINE new == [NoTask EXCEPT !.handler = "restore", !.step = "change", !.record = r,
                                   !.seen = n, !.sent = Expected(n)]
  <2>1. PICK t \in Tasks : Idle(t) /\ task' = [task EXCEPT ![t] = new]
    BY <1>7 DEF CategoryRestore, Restore, Ask
  <2>2. new.handler = "restore"
    BY DEF NoTask
  <2> HIDE DEF new
  <2>3. /\ On({"categories"}) /\ UNCHANGED <<formScreen, submitting>>
    BY <1>7 DEF CategoryRestore, Restore
  <2>4. SameGuarded(Tasks)
    BY <2>1, <2>2, <2>3 DEF Guarded, SameGuarded, On, Idle, FormsInv, TaskInv
  <2> QED BY <2>3, <2>4 DEF Calm
<1> QED BY <1>3, <1>4, <1>5, <1>6, <1>7
        DEF Submits, ProductSubmit, CategorySubmit, UserSubmit, ExpenseSubmit, RoleSubmit,
            AdjustSubmit, ThresholdSubmit, ProductsFormDialog, CategoriesFormDialog,
            UsersFormDialog, ExpensesFormDialog, PermissionsDialog, AdjustDialog, ThresholdDialog

(* Everything else leaves the guarded tasks as they are, but for leaving.  *)
LEMMA BusyElsewhere ==
  ASSUME FormsInv,
         \/ Opens \/ CloseForm \/ CloseConfirm \/ Leave \/ UNCHANGED formVars
         \/ \E t \in Tasks : \/ ServeCheck(t) \/ ServeWrite(t) \/ ServeRead(t)
                             \/ Lose(t) \/ Forget(t)
         \/ \E r \in Records : OthersChange(r)
  PROVE  Calm \/ GivesUp
<1>1. ASSUME UNCHANGED <<formScreen, submitting>>,
             \A u \in Tasks : task'[u].handler = task[u].handler
      PROVE  Calm
  BY <1>1 DEF Calm, SameGuarded, Guarded, On
<1>2. ASSUME NEW t \in Tasks, ServeCheck(t) \/ ServeWrite(t) \/ ServeRead(t) \/ Lose(t)
      PROVE  Calm
  <2>1. UNCHANGED <<formScreen, submitting>>
    BY <1>2 DEF ServeCheck, ServeWrite, ServeRead, Lose
  <2>2. task \in [Tasks -> TaskRecords]
    BY DEF FormsInv, TaskInv
  <2>3. \A u \in Tasks : task'[u].handler = task[u].handler
    <3>1. CASE ServeCheck(t)
      BY <2>2, <3>1 DEF ServeCheck, TaskRecords
    <3>2. CASE ServeWrite(t)
      BY <2>2, <3>2 DEF ServeWrite, TaskRecords
    <3>3. CASE ServeRead(t) \/ Lose(t)
      BY <2>2, <3>3 DEF ServeRead, Lose, TaskRecords
    <3> QED BY <1>2, <3>1, <3>2, <3>3
  <2> QED BY <1>1, <2>1, <2>3
<1>3. ASSUME NEW t \in Tasks, ~Guarded(t), UNCHANGED <<formScreen, submitting>>,
             \A u \in Tasks \ {t} : task'[u] = task[u],
             task'[t].handler \in {"none", "open"}
      PROVE  Calm
  BY <1>3 DEF Calm, SameGuarded, Guarded, On
<1>4. ASSUME NEW t \in Tasks, Forget(t) \/ (OpensWithRead(t) /\ UNCHANGED formScreen)
      PROVE  Calm
  <2>1. ~Guarded(t) /\ Return(t) /\ UNCHANGED <<formScreen, submitting>>
    BY <1>4 DEF Forget, OpensWithRead, Guarded
  <2>2. task'[t] = NoTask /\ \A u \in Tasks \ {t} : task'[u] = task[u]
    BY <2>1 DEF Return, FormsInv, TaskInv
  <2> QED BY <1>3, <2>1, <2>2, TaskKinds
<1>5. ASSUME NEW t \in Tasks, ProductRead(t)
      PROVE  Calm
  <2>1. task[t].handler = "open" /\ UNCHANGED <<formScreen, submitting>>
    BY <1>5 DEF ProductRead, FormsInv, TaskInv, TaskSeen, Fits
  <2>2. CASE ~Worked(t)
    <3>1. task'[t] = NoTask /\ \A u \in Tasks \ {t} : task'[u] = task[u]
      BY <1>5, <2>2 DEF ProductRead, Return, FormsInv, TaskInv
    <3> QED BY <1>3, <2>1, <3>1, TaskKinds DEF Guarded
  <2>3. CASE Worked(t)
    <3>1. task[t] \in TaskRecords
      BY DEF FormsInv, TaskInv
    <3> DEFINE new == [task[t] EXCEPT !.step = "read", !.answer = "pending", !.got = 0]
    <3>2. new.handler = task[t].handler
      BY <3>1 DEF TaskRecords
    <3>3. task' = [task EXCEPT ![t] = new]
      BY <1>5, <2>3 DEF ProductRead
    <3> HIDE DEF new
    <3>4. \A u \in Tasks : task'[u].handler = task[u].handler
      BY <3>2, <3>3 DEF FormsInv, TaskInv
    <3> QED BY <1>1, <2>1, <3>4
  <2> QED BY <2>2, <2>3
<1>6. ASSUME NEW r \in Records, ReadToOpen(r) \/ ViewSale(r)
      PROVE  Calm
  <2>1. PICK step \in {"read", "product"} : Ask("open", step, r, 0)
    BY <1>6 DEF ReadToOpen, ViewSale
  <2> DEFINE new == [NoTask EXCEPT !.handler = "open", !.step = step, !.record = r,
                                   !.seen = 0, !.sent = Expected(0)]
  <2>2. PICK t \in Tasks : Idle(t) /\ task' = [task EXCEPT ![t] = new]
    BY <2>1 DEF Ask
  <2>3. new.handler = "open"
    BY DEF NoTask
  <2> HIDE DEF new
  <2>4. task'[t].handler = "open" /\ \A u \in Tasks \ {t} : task'[u] = task[u]
    BY <2>2, <2>3 DEF FormsInv, TaskInv
  <2> QED BY <1>3, <1>6, <2>2, <2>4 DEF ReadToOpen, ViewSale, Idle, Guarded
<1>7. CASE \/ OpenCreate \/ RequestVoid \/ CloseConfirm \/ UNCHANGED formVars
           \/ \E r \in Records : OthersChange(r) \/ \E n \in 1..stamp[r] :
                                                      OpenEdit(r, n) \/ OpenConfirm(r, n)
  <2>1. UNCHANGED <<formScreen, submitting, task>>
    BY <1>7 DEF OpenCreate, RequestVoid, CloseConfirm, OthersChange, OpenEdit, OpenConfirm, formVars
  <2> QED BY <1>1, <2>1
<1>8. CASE CloseForm
  <2>1. submitting \in BOOLEAN
    BY DEF FormsInv, RestOK
  <2>2. CASE On({"roles", "threshold"})
    BY <1>8, <2>2 DEF CloseForm, GivesUp
  <2>3. CASE ~On({"roles", "threshold"})
    BY <1>1, <1>8, <2>1, <2>3 DEF CloseForm
  <2> QED BY <2>2, <2>3
<1>9. CASE Leave
  <2>1. \A t \in Tasks : task'[t].handler \in {"none", "left", "leftRemoval"}
    BY <1>9, TaskKinds DEF Leave, Left, FormsInv, TaskInv, TaskRecords
  <2> QED BY <1>9, <2>1 DEF Leave, GivesUp, Guarded
<1> QED BY <1>2, <1>4, <1>5, <1>6, <1>7, <1>8, <1>9
        DEF Opens, AdjustOpens, ThresholdOpens, SaleViewed, OpensWithRead

(* On every one of the screens, isSubmitting and its like are up exactly   *)
(* while a change is under way that they guard, and there is one such      *)
(* change at most, for any number of handlers waiting; on the roles and    *)
(* the threshold screen, whose dialogs take the flag down as they close,   *)
(* they are never left up.                                                 *)
THEOREM BusyIsTrue == FormsSpec => []BusyFollowsHandler
<1>1. FormsInit => BusyFollowsHandler
  BY DEF FormsInit, BusyFollowsHandler, Guarded, NoTask
<1>2. FormsInv /\ BusyFollowsHandler /\ [FormsNext]_formVars => BusyFollowsHandler'
  <2> SUFFICES ASSUME FormsInv, BusyFollowsHandler, [FormsNext]_formVars
               PROVE  Calm \/ Sends \/ GivesUp \/ \E t \in Tasks : Ends(t)
    BY BusyMoves
  <2>1. ASSUME NEW t \in Tasks, Resumes(t) PROVE Calm \/ Ends(t)
    BY <2>1, BusyAnswers
  <2>2. CASE Submits
    BY <2>2, BusySubmits
  <2> QED BY <2>1, <2>2, BusyElsewhere DEF FormsNext
<1> QED BY FormsInvariance, <1>1, <1>2, PTL DEF FormsSpec
-----------------------------------------------------------------------------
(* The dashboard.                                                          *)
SectionStates == [loading : BOOLEAN, loaded : BOOLEAN, error : BOOLEAN,
                  rows : {"none", "now", "before", "overtaken"}]
DashboardTyped ==
  /\ mayView \subseteq Permissions /\ activeChangeTab \in ChangeTabs
  /\ section \in [Sections -> SectionStates]
  /\ awaited \in [Sections -> [now : Nat, before : Nat]]
  /\ bootDue \in BOOLEAN /\ tabDue \in BOOLEAN

(* The figures and the shifts: a timer is set that will ask for them; or   *)
(* a call of now is under way, an error is shown, or one of now has been   *)
(* answered. A spinner turns only as long as some call is under way.       *)
Pending(s) == awaited[s].now > 0 \/ awaited[s].before > 0
Served(s)  == \/ awaited[s].now > 0 \/ section[s].error
              \/ section[s].rows \in {"now", "overtaken"}
TopFine(s, wanted) ==
  bootDue \/ ((section[s].loading => Pending(s)) /\ (wanted => Served(s)))

(* A tab: a call is under way, or it has been loaded or shows an error; or *)
(* a timer is set that will ask, where the tab is shown.                   *)
TabFine(t) ==
  \/ Pending(t)
  \/ /\ ~section[t].loading
     /\ \/ section[t].error \/ section[t].rows # "none"
        \/ ~section[t].loaded /\ (tabDue \/ t # activeChangeTab \/ "changes" \notin mayView)

DashboardInv ==
  /\ DashboardTyped
  /\ TopFine("stats", TRUE) /\ TopFine("shifts", "shifts" \in mayView)
  /\ \A t \in ChangeTabs : TabFine(t)
-----------------------------------------------------------------------------
LEMMA SectionNames ==
  /\ ChangeTabs \subseteq Sections /\ "stats" \in Sections /\ "shifts" \in Sections
  /\ "stats" \notin ChangeTabs /\ "shifts" \notin ChangeTabs /\ "product" \in ChangeTabs
  BY DashboardAssumption DEF Sections

(* A section that is asked for has a call under way, and the rest keeps    *)
(* its own.                                                                *)
LEMMA SectionsAsk ==
  ASSUME DashboardTyped, NEW wanted \in SUBSET Sections, AskFor(wanted)
  PROVE  /\ awaited' \in [Sections -> [now : Nat, before : Nat]]
         /\ \A s \in wanted : Pending(s)' /\ awaited'[s].now > 0
         /\ \A s \in Sections \ wanted :
              (Pending(s)' <=> Pending(s)) /\ awaited'[s] = awaited[s]
<1>1. \A s \in Sections : awaited[s] \in [now : Nat, before : Nat]
  BY DEF DashboardTyped
<1>2. ASSUME NEW s \in wanted
      PROVE  awaited'[s] \in [now : Nat, before : Nat] /\ awaited'[s].now > 0
  <2>1. awaited'[s] = [awaited[s] EXCEPT !.now = @ + 1]
    BY <1>2 DEF AskFor
  <2> QED BY <1>1, <1>2, <2>1
<1>3. ASSUME NEW s \in Sections \ wanted PROVE awaited'[s] = awaited[s]
  BY <1>3 DEF AskFor
<1> QED BY <1>1, <1>2, <1>3 DEF AskFor, Pending

LEMMA SectionMarked ==
  ASSUME DashboardTyped, NEW s \in Sections
  PROVE  /\ Asked(s) \in SectionStates
         /\ section[s] \in SectionStates
  BY DEF DashboardTyped, Asked, SectionStates

LEMMA SectionsBoot ==
  ASSUME DashboardInv, BootFires
  PROVE  DashboardInv'
<1> DEFINE wanted == fetchDashboardData \cup fetchShiftPreview
                       \cup (IF "changes" \in mayView THEN {"product"} ELSE {})
<1>1. wanted \in SUBSET Sections /\ "stats" \in wanted
      /\ ("shifts" \in mayView => "shifts" \in wanted)
      /\ ("shifts" \notin mayView => "shifts" \notin wanted)
  BY SectionNames DEF fetchDashboardData, fetchShiftPreview
<1> HIDE DEF wanted
<1>2. /\ AskFor(wanted) /\ bootDue' = FALSE
      /\ section' = [s \in Sections |-> CASE s \in wanted   -> Asked(s)
                                      [] s = "shifts" /\ s \notin wanted -> Emptied
                                      [] OTHER          -> section[s]]
      /\ UNCHANGED <<mayView, activeChangeTab, tabDue>>
  BY DEF BootFires, wanted
<1>3. Emptied \in SectionStates /\ ~Emptied.loading
  BY SectionNames DEF DashboardInv, DashboardTyped, Emptied, SectionStates
<1>4. section' \in [Sections -> SectionStates]
  <2>1. \A s \in Sections : section'[s] \in SectionStates
    BY <1>2, <1>3, SectionMarked DEF DashboardInv
  <2> QED BY <1>2, <2>1
<1>5. DashboardTyped'
  BY <1>1, <1>2, <1>4, SectionsAsk DEF DashboardInv, DashboardTyped
<1>6. TopFine("stats", TRUE)'
  BY <1>1, <1>2, SectionsAsk DEF DashboardInv, TopFine, Served
<1>7. TopFine("shifts", "shifts" \in mayView)'
  <2>1. CASE "shifts" \in mayView
    BY <1>1, <1>2, <2>1, SectionsAsk DEF DashboardInv, TopFine, Served
  <2>2. CASE "shifts" \notin mayView
    <3>1. section'["shifts"] = Emptied
      BY <1>1, <1>2, <2>2, SectionNames
    <3> QED BY <1>2, <1>3, <2>2, <3>1 DEF TopFine
  <2> QED BY <2>1, <2>2
<1>8. ASSUME NEW t \in ChangeTabs PROVE TabFine(t)'
  <2>1. CASE t \in wanted
    BY <1>1, <1>2, <2>1, SectionsAsk DEF DashboardInv, TabFine
  <2>2. CASE t \notin wanted
    <3>1. section'[t] = section[t]
      BY <1>2, <2>2, SectionNames
    <3>2. Pending(t)' <=> Pending(t)
      BY <1>1, <1>2, <2>2, SectionNames, SectionsAsk DEF DashboardInv
    <3> QED BY <1>2, <3>1, <3>2 DEF DashboardInv, TabFine
  <2> QED BY <2>1, <2>2
<1> QED BY <1>5, <1>6, <1>7, <1>8 DEF DashboardInv

(* One section is asked for: a tab by its timer, or any by Retry.          *)
LEMMA AskingOne ==
  ASSUME DashboardInv, NEW s \in Sections, AskFor({s}),
         section' = [section EXCEPT ![s] = Asked(s)],
         UNCHANGED <<mayView, activeChangeTab, bootDue>>,
         tabDue' \in BOOLEAN, UNCHANGED tabDue \/ s = activeChangeTab
  PROVE  DashboardInv'
<1>1. DashboardTyped'
  BY SectionMarked, SectionsAsk DEF DashboardInv, DashboardTyped
<1>2. /\ Pending(s)' /\ awaited'[s].now > 0
      /\ \A r \in Sections \ {s} : /\ (Pending(r)' <=> Pending(r)) /\ section'[r] = section[r]
                                  /\ awaited'[r] = awaited[r]
  BY SectionsAsk DEF DashboardInv, DashboardTyped
<1>3. TopFine("stats", TRUE)' /\ TopFine("shifts", "shifts" \in mayView)'
  BY <1>2, SectionNames DEF DashboardInv, TopFine, Served
<1>4. ASSUME NEW t \in ChangeTabs PROVE TabFine(t)'
  BY <1>2, <1>4, SectionNames DEF DashboardInv, TabFine
<1> QED BY <1>1, <1>3, <1>4 DEF DashboardInv

(* An answer: its spinner stops, and if it is of now, or comes after one   *)
(* of now, the section has been served.                                    *)
LEMMA SectionAnswers ==
  ASSUME DashboardInv, NEW s \in Sections, NEW when \in {"now", "before"}, NEW ok \in BOOLEAN,
         Answer(s, when, ok)
  PROVE  DashboardInv'
<1>1. /\ section[s] \in SectionStates /\ awaited[s] \in [now : Nat, before : Nat]
      /\ awaited[s][when] > 0
      /\ UNCHANGED <<mayView, activeChangeTab, bootDue, tabDue>>
  BY DEF DashboardInv, DashboardTyped, Answer
<1> DEFINE new == [section[s] EXCEPT !.loading = FALSE, !.loaded = TRUE,
                     !.rows  = IF ok THEN Arrived(s, when) ELSE @,
                     !.error = @ \/ ~ok]
<1>2. section' = [section EXCEPT ![s] = new]
  BY DEF Answer
<1>3. /\ new \in SectionStates /\ ~new.loading
      /\ new.error \/ new.rows # "none"
      /\ when = "now" => new.error \/ new.rows \in {"now", "overtaken"}
      /\ section[s].error => new.error
      /\ section[s].rows \in {"now", "overtaken"} =>
           new.rows \in {"now", "overtaken"}
  BY <1>1 DEF SectionStates, Arrived
<1> HIDE DEF new
<1>4. section' \in [Sections -> SectionStates]
  BY <1>2, <1>3 DEF DashboardInv, DashboardTyped
<1> DEFINE less == [awaited[s] EXCEPT ![when] = @ - 1]
<1>5. less \in [now : Nat, before : Nat] /\ (when = "before" => less.now = awaited[s].now)
  BY <1>1
<1>6. awaited' = [awaited EXCEPT ![s] = less]
  BY DEF Answer
<1> HIDE DEF less
<1>7. awaited' \in [Sections -> [now : Nat, before : Nat]]
  BY <1>5, <1>6 DEF DashboardInv, DashboardTyped
<1>8. DashboardTyped'
  BY <1>1, <1>4, <1>7 DEF DashboardInv, DashboardTyped
<1>9. /\ section'[s] = new /\ awaited'[s] = less
      /\ \A r \in Sections \ {s} : section'[r] = section[r] /\ awaited'[r] = awaited[r]
  BY <1>2, <1>6 DEF DashboardInv, DashboardTyped
<1>10. Served(s) => Served(s)'
  BY <1>3, <1>5, <1>9 DEF Served
<1>11. TopFine("stats", TRUE)' /\ TopFine("shifts", "shifts" \in mayView)'
  BY <1>1, <1>3, <1>9, <1>10, SectionNames DEF DashboardInv, TopFine, Served, Pending
<1>12. ASSUME NEW t \in ChangeTabs PROVE TabFine(t)'
  BY <1>1, <1>3, <1>9, <1>12, SectionNames DEF DashboardInv, TabFine, Pending
<1> QED BY <1>8, <1>11, <1>12 DEF DashboardInv

LEMMA SectionsRegrant ==
  ASSUME DashboardInv, NEW p \in SUBSET Permissions, PermissionsChange(p)
  PROVE  DashboardInv'
<1>1. /\ mayView' = p /\ bootDue' = TRUE /\ tabDue' = TabWanted(p, activeChangeTab)
      /\ UNCHANGED activeChangeTab
  BY DEF PermissionsChange
<1>2. ASSUME NEW s \in Sections
      PROVE  /\ section'[s] \in SectionStates
             /\ section'[s].loading = section[s].loading /\ section'[s].loaded = section[s].loaded
             /\ section'[s].error = section[s].error
             /\ section'[s].rows = "none" => section[s].rows = "none"
  BY DEF PermissionsChange, DashboardInv, DashboardTyped, SectionStates
<1>3. ASSUME NEW s \in Sections
      PROVE  /\ awaited'[s] \in [now : Nat, before : Nat]
             /\ Pending(s) => Pending(s)'
  <2>1. /\ awaited[s] \in [now : Nat, before : Nat]
        /\ awaited'[s] = [now |-> 0, before |-> awaited[s].now + awaited[s].before]
    BY DEF PermissionsChange, DashboardInv, DashboardTyped
  <2> QED BY <2>1 DEF Pending
<1>4. section' \in [Sections -> SectionStates]
  BY <1>2 DEF PermissionsChange
<1>5. awaited' \in [Sections -> [now : Nat, before : Nat]]
  BY <1>3 DEF PermissionsChange
<1>6. tabDue' \in BOOLEAN
  BY <1>1 DEF TabWanted
<1>7. DashboardTyped'
  BY <1>1, <1>4, <1>5, <1>6 DEF DashboardInv, DashboardTyped
<1>8. TopFine("stats", TRUE)' /\ TopFine("shifts", "shifts" \in mayView)'
  BY <1>1 DEF TopFine
<1>9. ASSUME NEW t \in ChangeTabs PROVE TabFine(t)'
  BY <1>1, <1>2, <1>3, SectionNames DEF DashboardInv, TabFine, TabWanted
<1> QED BY <1>7, <1>8, <1>9 DEF DashboardInv

LEMMA SectionTabs ==
  ASSUME DashboardInv, TabCancelled \/ \E t \in ChangeTabs : OpenTab(t)
  PROVE  DashboardInv'
<1>1. /\ UNCHANGED <<mayView, section, awaited, bootDue>>
      /\ tabDue' = TabWanted(mayView, activeChangeTab')
      /\ activeChangeTab' \in ChangeTabs
  BY DEF DashboardInv, DashboardTyped, TabCancelled, OpenTab, TabWanted
<1>2. DashboardTyped'
  BY <1>1 DEF DashboardInv, DashboardTyped, TabWanted
<1>3. TopFine("stats", TRUE)' /\ TopFine("shifts", "shifts" \in mayView)'
  BY <1>1 DEF DashboardInv, TopFine, Pending, Served
<1>4. ASSUME NEW t \in ChangeTabs PROVE TabFine(t)'
  BY <1>1 DEF DashboardInv, TabFine, TabWanted, Pending
<1> QED BY <1>2, <1>3, <1>4 DEF DashboardInv
-----------------------------------------------------------------------------
LEMMA DashboardStart == DashboardInit => DashboardInv
<1> SUFFICES ASSUME DashboardInit PROVE DashboardInv
  OBVIOUS
<1>1. \A s \in Sections : /\ section[s] \in SectionStates
                          /\ section[s].loaded = FALSE
                          /\ section[s].loading = (s \notin ChangeTabs)
  BY DEF DashboardInit, Fresh, SectionStates
<1>2. DashboardTyped
  BY <1>1, SectionNames DEF DashboardInit, DashboardTyped
<1>3. TopFine("stats", TRUE) /\ TopFine("shifts", "shifts" \in mayView)
  BY DEF DashboardInit, TopFine
<1>4. ASSUME NEW t \in ChangeTabs PROVE TabFine(t)
  BY <1>1, SectionNames DEF DashboardInit, TabFine
<1> QED BY <1>2, <1>3, <1>4 DEF DashboardInv

LEMMA DashboardStep ==
  ASSUME DashboardInv, [DashboardNext]_dashboardVars
  PROVE  DashboardInv'
<1>1. CASE TabFires
  <2>1. activeChangeTab \in Sections
    BY SectionNames DEF DashboardInv, DashboardTyped
  <2> QED BY <1>1, <2>1, AskingOne DEF TabFires
<1>2. ASSUME NEW s \in Sections, Retry(s) PROVE DashboardInv'
  BY <1>2, AskingOne DEF Retry, DashboardInv, DashboardTyped
<1>3. ASSUME NEW when \in {"now", "before"}, NEW ok \in BOOLEAN,
             \/ StatsAnswered(when, ok) \/ ShiftsAnswered(when, ok)
             \/ \E t \in ChangeTabs : ChangesAnswered(t, when, ok)
      PROVE  DashboardInv'
  BY <1>3, SectionAnswers, SectionNames DEF StatsAnswered, ShiftsAnswered, ChangesAnswered
<1>4. CASE UNCHANGED dashboardVars
  BY <1>4 DEF dashboardVars, DashboardInv, DashboardTyped, TopFine, TabFine, Pending, Served
<1> QED BY <1>1, <1>2, <1>3, <1>4, SectionsBoot, SectionsRegrant, SectionTabs DEF DashboardNext

(* When nothing is under way and no timer is set, every section the user   *)
(* may see has been loaded or shows an error, the figures and the shifts   *)
(* with the permissions of now, whatever permissions came and went and in  *)
(* whatever order the answers came (the effects of DashboardScreen), for   *)
(* any number of tabs and calls.                                           *)
THEOREM SectionsLoaded == DashboardSpec => []EverySectionLoaded
<1>1. DashboardInv => EverySectionLoaded
  <2> SUFFICES ASSUME DashboardInv, AtRest, NEW s \in Visible
               PROVE  /\ ~section[s].loading
                      /\ section[s].error \/ section[s].rows # "none"
                      /\ s \in {"stats", "shifts"} =>
                           section[s].error \/ section[s].rows \in {"now", "overtaken"}
    BY DEF EverySectionLoaded
  <2>1. ~Pending(s) /\ ~bootDue /\ ~tabDue
    BY DEF AtRest, Visible, Pending
  <2>2. CASE s = "stats"
    <3>1. ~section["stats"].loading /\ Served("stats")
      BY <2>1, <2>2 DEF DashboardInv, TopFine
    <3> QED BY <2>1, <2>2, <3>1 DEF Served, Pending
  <2>3. CASE s = "shifts"
    <3>1. "shifts" \in mayView
      BY <2>3, SectionNames DEF Visible, ShiftHistoryShown, ChangesListShown
    <3>2. ~section["shifts"].loading /\ Served("shifts")
      BY <2>1, <2>3, <3>1 DEF DashboardInv, TopFine
    <3> QED BY <2>1, <2>3, <3>2 DEF Served, Pending
  <2>4. CASE s \in ChangeTabs
    BY <2>1, <2>4, SectionNames DEF DashboardInv, TabFine, Visible, ChangesListShown
  <2> QED BY <2>2, <2>3, <2>4 DEF Visible, Sections
<1>2. DashboardInv /\ [DashboardNext]_dashboardVars => DashboardInv'
  BY DashboardStep
<1> QED BY DashboardStart, <1>1, <1>2, PTL DEF DashboardSpec
-----------------------------------------------------------------------------
(* The lists: what the settled view rests on. Every slot of load is free   *)
(* or holds a load of the screen's own, and one that counts on a number of *)
(* pages is late or counts on the one there is; a turning spinner has      *)
(* someone to stop it, and only one further page is asked for at a time;   *)
(* rows that are wrong and unmarked have a load under way or a timer set.  *)
AnyFilter == Filters \cup {"closed"}
Chunks   == [query : [tab : AllFields, filter : AnyFilter], page : Nat,
             own : {"loaded", "edited", "late"}]
Asks     == [kind : {"replace", "more", "silent", "change", "restore"},
             query : [tab : AllFields, filter : Filters],
             page : Nat, late : BOOLEAN]
SinglePage == ViewScreens \ (InfiniteScreens \cup {"history"})

QuestionTyped ==
  /\ viewScreen \in ViewScreens /\ query \in Queries \cup {Closed}
  /\ query = Closed => viewScreen = "history"
  /\ pageNo \in Nat
  /\ viewScreen \in {"categories", "reports"} => pageNo = 1
FlagsTyped ==
  /\ hasMore \in BOOLEAN /\ isLoading \in BOOLEAN /\ isFetchingMore \in BOOLEAN
  /\ fetchError \in BOOLEAN /\ due \in BOOLEAN /\ astray \in BOOLEAN
ListTyped == list \in [AllFields -> Seq(Chunks)]

(* A load or change of the screen, and a load that counts on pages.        *)
Belongs(c) ==
  /\ c.query \in Queries
  /\ c.kind \in {"more", "silent"} => viewScreen \in InfiniteScreens
  /\ c.kind = "replace" /\ viewScreen \in InfiniteScreens \cup {"categories", "reports"}
       => c.page = 1
UpToDate(c) ==
  /\ c.kind = "more" => c.page = pageNo + 1
  /\ c.kind = "silent" => c.page = pageNo
LoadFits(c) == c = NoLoad \/ (c \in Asks /\ Belongs(c) /\ (c.late \/ UpToDate(c)))
LoadsFit == load = [l \in Loads |-> load[l]] /\ \A l \in Loads : LoadFits(load[l])

Spinners ==
  /\ isLoading => due \/ \E l \in Loads : load[l].kind \in {"replace", "restore"}
  /\ isFetchingMore => \E l \in Loads : load[l].kind = "more"
Fetching ==
  \A l \in Loads : load[l].kind = "more" =>
    isFetchingMore /\ \A m \in Loads : load[m].kind = "more" => m = l

(* The rows are right, or something has left its mark, or what will put    *)
(* them right is under way or will be.                                     *)
RowsRight == \A f \in FieldsOf(query.tab) : list[f] \in RowsAllowed
Mending   == \E l \in Loads : load[l].kind = "replace" /\ OnScreen(l)
Tended    == astray \/ RowsRight \/ due \/ Mending

ViewsInv ==
  /\ QuestionTyped /\ FlagsTyped /\ ListTyped /\ LoadsFit
  /\ Spinners /\ Fetching /\ Tended

LEMMA Screens ==
  /\ \A s \in ViewScreens : TabsOf(s) \subseteq AllFields
  /\ \A s \in ViewScreens \ {"categories", "reports"} : TabsOf(s) = {"rows"}
  /\ Closed \notin Queries
  /\ \A t \in AllFields : FieldsOf(t) \subseteq AllFields /\ FieldsOf(t) # {}
  /\ FieldsOf("rows") = {"rows"} /\ "rows" \in AllFields
<1>1. \A s \in ViewScreens \ {"categories", "reports"} : TabsOf(s) = {"rows"}
  BY DEF TabsOf
<1>2. /\ TabsOf("categories") = {"product", "expense"}
      /\ TabsOf("reports") = ReportTabs
  BY DEF TabsOf
<1>3. \A s \in ViewScreens : TabsOf(s) \subseteq AllFields
  BY <1>1, <1>2, ViewsAssumption DEF AllFields, ViewScreens
<1>4. Closed \notin Queries
  BY ViewsAssumption DEF Closed, Queries
<1> QED BY <1>1, <1>3, <1>4 DEF FieldsOf, AllFields, AllReports

(* A query of the screen, for the screen and for the one it becomes.       *)
LEMMA QueriesStay ==
  ASSUME viewScreen' = viewScreen
  PROVE  Queries' = Queries
  BY DEF Queries, TabsOf

LEMMA QueryFacts ==
  ASSUME viewScreen \in ViewScreens, NEW q \in Queries
  PROVE  /\ q \in [tab : AllFields, filter : Filters]
         /\ q.tab \in AllFields /\ FieldsOf(q.tab) \subseteq AllFields
         /\ FieldsOf(q.tab) # {} /\ q # Closed
         /\ viewScreen \notin {"categories", "reports"} =>
              q.tab = "rows" /\ FieldsOf(q.tab) = {"rows"}
<1>1. q \in [tab : TabsOf(viewScreen), filter : Filters]
  BY DEF Queries
<1>2. TabsOf(viewScreen) \subseteq AllFields
  BY Screens
<1>3. viewScreen \notin {"categories", "reports"} => TabsOf(viewScreen) = {"rows"}
  BY Screens
<1> QED BY <1>1, <1>2, <1>3, Screens

(* What is shown keeps its type.                                           *)
LEMMA PagesTyped ==
  ASSUME viewScreen \in ViewScreens, NEW q \in Queries, NEW n \in Nat
  PROVE  /\ Chunk(q, n) \in Chunks /\ <<Chunk(q, n)>> \in Seq(Chunks)
         /\ PagesTo(q, n) \in Seq(Chunks) /\ PagesTo(q, 1) = <<Chunk(q, 1)>>
         /\ Append(PagesTo(q, n), Chunk(q, n + 1)) = PagesTo(q, n + 1)
<1>1. \A m \in Nat : Chunk(q, m) \in Chunks
  <2>1. q \in [tab : AllFields, filter : AnyFilter]
    BY QueryFacts DEF AnyFilter
  <2> QED BY <2>1 DEF Chunk, Chunks
<1> DEFINE c(m) == Chunk(q, m)
<1>2. \A m \in Nat : c(m) \in Chunks
  BY <1>1
<1> HIDE DEF c
<1>3. \A m \in Nat : [p \in 1..m |-> c(p)] \in Seq(Chunks)
  BY <1>2
<1>4. [p \in 1..1 |-> c(p)] = <<c(1)>>
  OBVIOUS
<1>5. Append([p \in 1..n |-> c(p)], c(n + 1)) = [p \in 1..(n + 1) |-> c(p)]
  OBVIOUS
<1>6. <<c(n)>> \in Seq(Chunks)
  BY <1>2
<1> QED BY <1>1, <1>3, <1>4, <1>5, <1>6 DEF c, PagesTo

(* The rows an answer brings: as asked, but for those of a late one.       *)
LEMMA RowsTyped ==
  ASSUME viewScreen \in ViewScreens, NEW c \in Asks, c.query \in Queries, NEW p \in Nat
  PROVE  /\ RowsOf(c, p) \in Chunks
         /\ ~c.late => RowsOf(c, p) = Chunk(c.query, p)
<1>1. PICK x \in Chunks : x = Chunk(c.query, p)
  BY PagesTyped
<1>2. [x EXCEPT !.own = "late"] \in Chunks
  BY DEF Chunks
<1>3. [x EXCEPT !.own = x.own] = x
  BY DEF Chunks
<1>4. RowsOf(c, p) = IF c.late THEN [x EXCEPT !.own = "late"] ELSE [x EXCEPT !.own = x.own]
  BY <1>1 DEF RowsOf
<1> QED BY <1>1, <1>2, <1>3, <1>4

LEMMA ShowingTyped ==
  ASSUME ListTyped, viewScreen \in ViewScreens, NEW q \in Queries,
         NEW chunks \in Seq(Chunks)
  PROVE  /\ Showing(q, chunks) \in [AllFields -> Seq(Chunks)]
         /\ \A f \in FieldsOf(q.tab) : Showing(q, chunks)[f] = chunks
         /\ \A f \in AllFields \ FieldsOf(q.tab) : Showing(q, chunks)[f] = list[f]
  BY QueryFacts DEF Showing, ListTyped

LEMMA ListSet ==
  ASSUME ListTyped, NEW f \in AllFields, NEW chunks \in Seq(Chunks)
  PROVE  /\ [list EXCEPT ![f] = chunks] \in [AllFields -> Seq(Chunks)]
         /\ [list EXCEPT ![f] = chunks][f] = chunks
  BY DEF ListTyped

LEMMA RowsEmptied ==
  ASSUME ListTyped, NEW f \in AllFields, list' = [list EXCEPT ![f] = <<>>]
  PROVE  ListTyped' /\ list'[f] = <<>>
  BY ListSet DEF ListTyped

(* A change put into rows, once and again.                                 *)
LEMMA EditsTyped ==
  ASSUME NEW rows \in Seq(Chunks)
  PROVE  PutIn(rows) \subseteq Seq(Chunks) /\ WithOwn(rows) \subseteq PutIn(rows)
<1>1. ASSUME NEW i \in DOMAIN rows PROVE [rows EXCEPT ![i].own = "edited"] \in Seq(Chunks)
  <2>1. PICK x \in Chunks : x = [rows[i] EXCEPT !.own = "edited"]
    <3>1. rows[i] \in Chunks
      OBVIOUS
    <3> QED BY <3>1 DEF Chunks
  <2>2. [rows EXCEPT ![i] = x] \in Seq(Chunks)
    OBVIOUS
  <2> QED BY <2>1, <2>2
<1>2. OwnRow \in Chunks
  BY DEF OwnRow, Closed, Chunks, AllFields, AnyFilter
<1>3. <<OwnRow>> \in Seq(Chunks)
  BY <1>2
<1> QED BY <1>1, <1>3 DEF PutIn, WithOwn

LEMMA SingleEdits ==
  ASSUME NEW x \in Chunks, NEW rows \in WithOwn(<<x>>), NEW new \in PutIn(rows)
  PROVE  new \in WithOwn(<<x>>)
<1> DEFINE e(y) == [y EXCEPT !.own = "edited"]
<1>1. ASSUME NEW y PROVE PutIn(<<y>>) = {<<y>>, <<e(y)>>} /\ WithOwn(<<y>>) = {<<y>>, <<e(y)>>}
  <2>1. DOMAIN <<y>> = {1} /\ <<y>> # <<>>
    OBVIOUS
  <2>2. [<<y>> EXCEPT ![1].own = "edited"] = <<e(y)>>
    OBVIOUS
  <2> QED BY <2>1, <2>2 DEF PutIn, WithOwn
<1>2. e(e(x)) = e(x)
  BY DEF Chunks
<1> HIDE DEF e
<1> QED BY <1>1, <1>2

(* What is under way, when some of it becomes late.                        *)
LEMMA NoLoadIsFree ==
  /\ \A c \in Asks : c.kind # "none" /\ c # NoLoad
  /\ NoLoad.kind = "none"
  BY DEF Asks, NoLoad

Marked(loads) ==
  /\ loads = [m \in Loads |-> loads[m]]
  /\ \A m \in Loads : \/ loads[m] = load[m]
                      \/ /\ load[m].kind \in {"replace", "more", "silent"}
                         /\ loads[m] = [load[m] EXCEPT !.late = TRUE]

LEMMA MarkedKinds ==
  ASSUME LoadsFit, NEW loads, Marked(loads), NEW m \in Loads
  PROVE  /\ loads[m].kind = load[m].kind
         /\ load[m] = NoLoad <=> loads[m] = NoLoad
         /\ load[m] # NoLoad =>
              /\ load[m] \in Asks /\ loads[m] \in Asks
              /\ loads[m].query = load[m].query /\ loads[m].page = load[m].page
              /\ Belongs(load[m]) /\ Belongs(loads[m])
<1>1. CASE load[m] = NoLoad
  BY <1>1, NoLoadIsFree DEF Marked
<1>2. CASE load[m] # NoLoad
  <2>1. PICK c \in Asks : c = load[m] /\ Belongs(c)
    BY <1>2 DEF LoadsFit, LoadFits
  <2>2. PICK d \in Asks : d = [c EXCEPT !.late = TRUE]
    BY DEF Asks
  <2>3. d.kind = c.kind /\ d.query = c.query /\ d.page = c.page
    BY <2>2 DEF Asks
  <2>4. Belongs(d)
    BY <2>1, <2>3 DEF Belongs
  <2>5. loads[m] = c \/ loads[m] = d
    BY <2>1, <2>2 DEF Marked
  <2> QED BY <1>2, <2>1, <2>3, <2>4, <2>5, NoLoadIsFree
<1> QED BY <1>1, <1>2

LEMMA StillFits ==
  ASSUME ViewsInv, viewScreen' = viewScreen, NEW loads, Marked(loads), NEW m \in Loads,
         loads[m].kind \in {"more", "silent"} =>
           loads[m].late \/ UpToDate(loads[m])'
  PROVE  LoadFits(loads[m])'
<1>1. CASE loads[m] = NoLoad
  BY <1>1 DEF LoadFits
<1>2. CASE loads[m] # NoLoad
  <2>1. loads[m] \in Asks /\ Belongs(loads[m])
    BY <1>2, MarkedKinds DEF ViewsInv
  <2>2. Belongs(loads[m])'
    BY <2>1, QueriesStay DEF Belongs
  <2>3. loads[m].late \/ UpToDate(loads[m])'
    BY DEF UpToDate
  <2> QED BY <2>1, <2>2, <2>3 DEF LoadFits
<1> QED BY <1>1, <1>2

LEMMA NoneMarked == LoadsFit => Marked(load)
  BY DEF Marked, LoadsFit

(* The number of pages changes: as the list begins anew, or goes on.       *)
LEMMA LateIsLate ==
  ASSUME LoadsFit, NEW m \in Loads, load[m].kind \in {"more", "silent"}
  PROVE  [load[m] EXCEPT !.late = TRUE].late
<1>1. PICK c \in Asks : c = load[m]
  BY NoLoadIsFree DEF LoadsFit, LoadFits
<1>2. [c EXCEPT !.late = TRUE].late
  BY DEF Asks
<1> QED BY <1>1, <1>2

LEMMA RecountedAnew ==
  ASSUME LoadsFit, NEW p \in Nat, pageNo' = p, NEW loads, loads = Recounted(p, TRUE)
  PROVE  Marked(loads) /\ \A m \in Loads : loads[m].kind \in {"more", "silent"} =>
                                            loads[m].late \/ UpToDate(loads[m])'
<1>1. Marked(loads)
  BY DEF Marked, Recounted
<1>2. ASSUME NEW m \in Loads, loads[m].kind \in {"more", "silent"}, ~loads[m].late
      PROVE  UpToDate(loads[m])'
  <2>1. load[m].kind \in {"more", "silent"}
    BY <1>1, <1>2, MarkedKinds
  <2>2. ~(\/ load[m].kind = "silent" /\ load[m].page # p
          \/ load[m].kind = "more" /\ load[m].page # p + 1)
    BY <1>2, <2>1, LateIsLate DEF Recounted
  <2>3. loads[m] = load[m]
    BY <2>2 DEF Recounted
  <2> QED BY <2>2, <2>3 DEF UpToDate
<1> QED BY <1>1, <1>2

LEMMA RecountedOn ==
  ASSUME LoadsFit, NEW p \in Nat, pageNo' = p, NEW loads, loads = Recounted(p, FALSE)
  PROVE  Marked(loads) /\ \A m \in Loads : loads[m].kind = "silent" =>
                                            loads[m].late \/ UpToDate(loads[m])'
<1>1. Marked(loads)
  BY DEF Marked, Recounted
<1>2. ASSUME NEW m \in Loads, loads[m].kind = "silent", ~loads[m].late
      PROVE  UpToDate(loads[m])'
  <2>1. load[m].kind = "silent"
    BY <1>1, <1>2, MarkedKinds
  <2>2. load[m].page = p
    BY <1>2, <2>1, LateIsLate DEF Recounted
  <2>3. loads[m] = load[m]
    BY <2>1, <2>2 DEF Recounted
  <2> QED BY <2>1, <2>2, <2>3 DEF UpToDate
<1> QED BY <1>1, <1>2

(* A change of the employee's own is accepted.                             *)
LEMMA OutdatedFits ==
  ASSUME ViewsInv, NEW l \in Loads, load[l] # NoLoad,
         NEW loads, loads = Outdated(l), NEW m \in Loads
  PROVE  /\ Marked(loads)
         /\ loads[m].kind \in {"more", "silent"} => loads[m].late
<1>1. Marked(loads)
  BY DEF Marked, Outdated
<1>2. ASSUME loads[m].kind \in {"more", "silent"} PROVE loads[m].late
  <2>1. load[m].kind \in {"more", "silent"}
    BY <1>1, <1>2, MarkedKinds DEF ViewsInv
  <2>2. load[m] \in Asks /\ Belongs(load[m]) /\ load[l] \in Asks /\ Belongs(load[l])
    BY <2>1, NoLoadIsFree DEF ViewsInv, LoadsFit, LoadFits
  <2>3. viewScreen \in ViewScreens /\ viewScreen \notin {"categories", "reports"}
    BY <2>1, <2>2 DEF Belongs, InfiniteScreens, ViewsInv, QuestionTyped
  <2>4. load[m].query.tab = "rows" /\ load[l].query.tab = "rows"
    BY <2>2, <2>3, QueryFacts DEF Belongs
  <2>5. PICK c \in Asks : c = load[m]
    BY <2>2
  <2>6. loads[m] = [c EXCEPT !.late = TRUE]
    BY <2>1, <2>4, <2>5 DEF Outdated
  <2> QED BY <2>6 DEF Asks
<1> QED BY <1>1, <1>2

(* What is under way moves on: some of it late, one slot taken or freed.   *)
LEMMA LoadsMove ==
  ASSUME ViewsInv, viewScreen' = viewScreen,
         NEW loads, Marked(loads), NEW l \in Loads,
         NEW c \in Asks \cup {NoLoad},
         c # NoLoad => Belongs(c) /\ (c.late \/ UpToDate(c)'),
         load' = [loads EXCEPT ![l] = c],
         \A m \in Loads \ {l} : loads[m].kind \in {"more", "silent"} =>
                                  loads[m].late \/ UpToDate(loads[m])'
  PROVE  /\ LoadsFit' /\ load'[l] = c
         /\ \A m \in Loads \ {l} :
              /\ load'[m].kind = load[m].kind
              /\ load[m] # NoLoad => load'[m].query = load[m].query
<1>1. /\ (load = [m \in Loads |-> load[m]])' /\ load'[l] = c
      /\ \A m \in Loads \ {l} : load'[m] = loads[m]
  BY DEF Marked
<1>2. ASSUME NEW m \in Loads \ {l} PROVE LoadFits(load[m])'
  <2>1. LoadFits(loads[m])'
    BY StillFits
  <2> QED BY <1>1, <2>1 DEF LoadFits, Belongs, UpToDate
<1>3. LoadFits(load[l])'
  <2>1. CASE c = NoLoad
    BY <1>1, <2>1 DEF LoadFits
  <2>2. CASE c # NoLoad
    <3>1. Belongs(c)'
      BY <2>2, QueriesStay DEF Belongs
    <3> QED BY <1>1, <2>2, <3>1 DEF LoadFits, Belongs, UpToDate
  <2> QED BY <2>1, <2>2
<1>4. ASSUME NEW m \in Loads \ {l}
      PROVE  /\ load'[m].kind = load[m].kind
             /\ load[m] # NoLoad => load'[m].query = load[m].query
  BY <1>1, MarkedKinds DEF ViewsInv
<1> QED BY <1>1, <1>2, <1>3, <1>4 DEF LoadsFit

LEMMA KeptFits ==
  ASSUME ViewsInv, pageNo' = pageNo \/ viewScreen \notin InfiniteScreens,
         NEW loads, loads = load, NEW m \in Loads
  PROVE  /\ Marked(loads)
         /\ loads[m].kind \in {"more", "silent"} => loads[m].late \/ UpToDate(loads[m])'
<1>1. Marked(loads)
  BY DEF ViewsInv, LoadsFit, Marked
<1>2. ASSUME loads[m].kind \in {"more", "silent"}
      PROVE  loads[m].late \/ UpToDate(loads[m])'
  <2>1. Belongs(loads[m]) /\ (loads[m].late \/ UpToDate(loads[m]))
    BY <1>2, NoLoadIsFree DEF ViewsInv, LoadsFit, LoadFits
  <2>2. pageNo' = pageNo
    BY <1>2, <2>1 DEF Belongs
  <2> QED BY <2>1, <2>2 DEF UpToDate
<1> QED BY <1>1, <1>2

(* A new question that sets the timer.                                     *)
LEMMA TimerSet ==
  ASSUME ViewsInv, viewScreen' = viewScreen, SetsTimer,
         NEW loads, Marked(loads), load' = loads,
         \A m \in Loads : loads[m].kind \in {"more", "silent"} =>
                            loads[m].late \/ UpToDate(loads[m])',
         QuestionTyped', FlagsTyped', ListTyped', isFetchingMore' = isFetchingMore
  PROVE  ViewsInv'
<1>1. LoadsFit'
  <2>1. \A m \in Loads : LoadFits(loads[m])'
    BY StillFits
  <2>2. \A m \in Loads : LoadFits(load[m])'
    BY <2>1 DEF LoadFits, Belongs, UpToDate
  <2>3. (load = [m \in Loads |-> load[m]])'
    BY DEF Marked
  <2> QED BY <2>2, <2>3 DEF LoadsFit
<1>2. \A m \in Loads : load'[m].kind = load[m].kind
  BY MarkedKinds DEF ViewsInv
<1>3. Spinners' /\ Fetching'
  BY <1>2 DEF SetsTimer, ViewsInv, Spinners, Fetching
<1>4. Tended'
  BY DEF SetsTimer, Tended
<1> QED BY <1>1, <1>3, <1>4 DEF ViewsInv

LEMMA TimerKept ==
  ASSUME ViewsInv, viewScreen' = viewScreen, SetsTimer, load' = load,
         pageNo' = pageNo \/ viewScreen \notin InfiniteScreens,
         QuestionTyped', FlagsTyped', ListTyped', isFetchingMore' = isFetchingMore
  PROVE  ViewsInv'
<1>1. PICK loads : loads = load
  OBVIOUS
<1>2. load' = loads /\ Marked(loads)
  BY <1>1 DEF ViewsInv, LoadsFit, Marked
<1>3. \A m \in Loads : loads[m].kind \in {"more", "silent"} =>
                         loads[m].late \/ UpToDate(loads[m])'
  BY <1>1, KeptFits
<1> QED BY <1>2, <1>3, TimerSet

(* A new question that loads at once.                                      *)
LEMMA LoadedNow ==
  ASSUME ViewsInv, viewScreen' = viewScreen,
         NEW q \in Queries, NEW p \in Nat, query' = q, LoadsNow(q, p),
         viewScreen \notin InfiniteScreens,
         viewScreen \in {"categories", "reports"} => p = 1,
         QuestionTyped', FlagsTyped', ListTyped', isFetchingMore' = isFetchingMore
  PROVE  ViewsInv'
<1>1. PICK loads : loads = load
  OBVIOUS
<1>2. PICK c \in Asks \cup {NoLoad} : c = Replaces(q, p)
  BY QueryFacts DEF Replaces, Asks, ViewsInv, QuestionTyped
<1>3. PICK n \in Loads : Free(n) /\ load' = [loads EXCEPT ![n] = c]
  BY <1>1, <1>2 DEF LoadsNow, AskIn
<1>4. c \in Asks /\ c.kind = "replace" /\ c.query = q /\ c.page = p
  BY <1>2, QueryFacts DEF Replaces, Asks, ViewsInv, QuestionTyped
<1>5. c # NoLoad => Belongs(c) /\ (c.late \/ UpToDate(c)')
  BY <1>4 DEF Belongs, UpToDate
<1>6. Marked(loads) /\ \A m \in Loads \ {n} : loads[m].kind \in {"more", "silent"} =>
                                                loads[m].late \/ UpToDate(loads[m])'
  BY <1>1, KeptFits
<1>7. /\ LoadsFit' /\ load'[n] = c
      /\ \A m \in Loads \ {n} : load'[m].kind = load[m].kind
  BY <1>3, <1>5, <1>6, LoadsMove
<1>8. Spinners' /\ Fetching'
  BY <1>3, <1>4, <1>7 DEF ViewsInv, Spinners, Fetching, Free
<1>9. Tended'
  <2>1. FieldsOf(q.tab) # {}
    BY QueryFacts DEF ViewsInv, QuestionTyped
  <2>2. (load[n].kind = "replace" /\ OnScreen(n))'
    BY <1>4, <1>7, <2>1 DEF OnScreen
  <2> QED BY <2>2 DEF Tended, Mending
<1> QED BY <1>7, <1>8, <1>9 DEF ViewsInv

(* The same question, and one more load that fits it.                      *)
LEMMA OneMore ==
  ASSUME ViewsInv, UNCHANGED <<viewScreen, query, pageNo>>,
         NEW c \in Asks, LoadFits(c), AskIn(load, c),
         list' = list, astray' = astray, FlagsTyped',
         (due => due') \/ (c.kind = "replace" /\ query \in Queries /\ c.query = query),
         isLoading' => isLoading \/ c.kind \in {"replace", "restore"},
         IF c.kind = "more" THEN ~isFetchingMore /\ isFetchingMore'
                            ELSE isFetchingMore' = isFetchingMore
  PROVE  ViewsInv'
<1>1. PICK loads : loads = load
  OBVIOUS
<1>2. PICK n \in Loads : Free(n) /\ load' = [loads EXCEPT ![n] = c]
  BY <1>1 DEF AskIn
<1>3. c.kind # "none" /\ Belongs(c) /\ (c.late \/ UpToDate(c)')
  BY NoLoadIsFree DEF LoadFits, UpToDate
<1>4. Marked(loads) /\ \A m \in Loads \ {n} : loads[m].kind \in {"more", "silent"} =>
                                                loads[m].late \/ UpToDate(loads[m])'
  BY <1>1, KeptFits
<1>5. /\ LoadsFit' /\ load'[n] = c
      /\ \A m \in Loads \ {n} : /\ load'[m].kind = load[m].kind
                                /\ load[m] # NoLoad => load'[m].query = load[m].query
  BY <1>2, <1>3, <1>4, LoadsMove
<1>6. Spinners'
  BY <1>2, <1>5 DEF ViewsInv, Spinners, Free
<1>7. Fetching'
  <2>1. CASE c.kind = "more"
    <3>1. \A m \in Loads : load[m].kind # "more"
      BY <2>1 DEF ViewsInv, Fetching
    <3> QED BY <1>5, <2>1, <3>1 DEF Fetching
  <2>2. CASE c.kind # "more"
    BY <1>5, <2>2 DEF ViewsInv, Fetching
  <2> QED BY <2>1, <2>2
<1>8. QuestionTyped'
  BY QueriesStay DEF ViewsInv, QuestionTyped
<1>9. Tended'
  <2>1. RowsRight => RowsRight'
    BY DEF RowsRight, RowsAllowed, RowsAskedFor
  <2>2. ASSUME Mending PROVE Mending'
    <3>1. PICK m \in Loads : load[m].kind = "replace" /\ OnScreen(m)
      BY <2>2 DEF Mending
    <3>2. m # n /\ load[m] # NoLoad
      BY <1>2, <3>1, NoLoadIsFree DEF Free
    <3> QED BY <1>5, <3>1, <3>2 DEF Mending, OnScreen
  <2>3. CASE c.kind = "replace" /\ query \in Queries /\ c.query = query
    <3>1. FieldsOf(query.tab) # {}
      BY <2>3, QueryFacts DEF ViewsInv, QuestionTyped
    <3>2. (load[n].kind = "replace" /\ OnScreen(n))'
      BY <1>5, <2>3, <3>1 DEF OnScreen
    <3> QED BY <3>2 DEF Tended, Mending
  <2>4. CASE due => due'
    BY <2>1, <2>2, <2>4 DEF Tended, ViewsInv
  <2> QED BY <2>3, <2>4
<1> QED BY <1>5, <1>6, <1>7, <1>8, <1>9 DEF ViewsInv, ListTyped

(* An answer that is put on the screen, or an error.                       *)
LEMMA AnswerArrives ==
  ASSUME ViewsInv, UNCHANGED <<viewScreen, query, due>>,
         NEW l \in Loads, load[l].kind # "none",
         NEW loads, Marked(loads), load' = [loads EXCEPT ![l] = NoLoad],
         \A m \in Loads \ {l} : loads[m].kind \in {"more", "silent"} =>
                                  loads[m].late \/ UpToDate(loads[m])',
         QuestionTyped', FlagsTyped', ListTyped',
         \/ astray' \/ RowsRight'
         \/ (load[l].kind # "replace" \/ ~OnScreen(l)) /\ ~RowsRight /\ ~astray,
         isLoading' => isLoading /\ load[l].kind \notin {"replace", "restore"},
         isFetchingMore' = (isFetchingMore /\ load[l].kind # "more")
  PROVE  ViewsInv'
<1>1. PICK c \in Asks \cup {NoLoad} : c = NoLoad
  OBVIOUS
<1>2. /\ LoadsFit' /\ load'[l] = NoLoad
      /\ \A m \in Loads \ {l} : /\ load'[m].kind = load[m].kind
                                /\ load[m] # NoLoad => load'[m].query = load[m].query
  BY <1>1, LoadsMove
<1>3. Spinners' /\ Fetching'
  BY <1>2, NoLoadIsFree DEF ViewsInv, Spinners, Fetching
<1>4. ASSUME Mending, load[l].kind # "replace" \/ ~OnScreen(l) PROVE Mending'
  <2>1. PICK m \in Loads : load[m].kind = "replace" /\ OnScreen(m)
    BY <1>4 DEF Mending
  <2>2. m # l /\ load[m] # NoLoad
    BY <1>4, <2>1, NoLoadIsFree
  <2>3. load'[m].kind = "replace" /\ load'[m].query = load[m].query
    BY <1>2, <2>1, <2>2
  <2> QED BY <2>1, <2>3 DEF Mending, OnScreen
<1>5. Tended'
  BY <1>4 DEF ViewsInv, Tended
<1> QED BY <1>2, <1>3, <1>5 DEF ViewsInv

LEMMA Ended ==
  ASSUME ViewsInv, UNCHANGED <<viewScreen, query, pageNo, due>>,
         NEW l \in Loads, load[l] # NoLoad, Dropped(l),
         FlagsTyped', ListTyped',
         astray' \/ (astray' = astray /\ list' = list),
         load[l].kind = "replace" /\ OnScreen(l) => astray',
         isLoading' => isLoading /\ load[l].kind \notin {"replace", "restore"},
         isFetchingMore' = (isFetchingMore /\ load[l].kind # "more")
  PROVE  ViewsInv'
<1>1. PICK loads : loads = load
  OBVIOUS
<1>2. load' = [loads EXCEPT ![l] = NoLoad]
  BY <1>1 DEF Dropped
<1>3. Marked(loads) /\ \A m \in Loads \ {l} : loads[m].kind \in {"more", "silent"} =>
                                                loads[m].late \/ UpToDate(loads[m])'
  BY <1>1, KeptFits
<1>4. load[l].kind # "none"
  BY NoLoadIsFree DEF ViewsInv, LoadsFit, LoadFits
<1>5. QuestionTyped'
  BY QueriesStay DEF ViewsInv, QuestionTyped
<1>6. \/ astray' \/ RowsRight'
      \/ (load[l].kind # "replace" \/ ~OnScreen(l)) /\ ~RowsRight /\ ~astray
  <2>1. astray' = astray /\ list' = list => (RowsRight => RowsRight')
    BY DEF RowsRight, RowsAllowed, RowsAskedFor
  <2> QED BY <2>1
<1> QED BY <1>2, <1>3, <1>4, <1>5, <1>6, AnswerArrives

(* A change is accepted: its slot goes on as a reload, or is free.         *)
LEMMA ChangeAccepted ==
  ASSUME ViewsInv, UNCHANGED <<viewScreen, query, due, astray>>,
         NEW l \in Loads, load[l].kind \in {"change", "restore"},
         NEW c \in Asks \cup {NoLoad}, c # NoLoad => c = Replaces(load[l].query, 1),
         NEW loads, Marked(loads), load' = [loads EXCEPT ![l] = c],
         \A m \in Loads : loads[m].kind \in {"more", "silent"} => loads[m].late,
         QuestionTyped', FlagsTyped', ListTyped', isFetchingMore' = isFetchingMore,
         isLoading' => \/ c.kind = "replace"
                       \/ isLoading /\ load[l].kind = "change",
         \/ c.kind = "replace" /\ OnScreen(l)
         \/ RowsRight => RowsRight'
  PROVE  ViewsInv'
<1>1. load[l] # NoLoad /\ load[l] \in Asks /\ Belongs(load[l])
  BY NoLoadIsFree DEF ViewsInv, LoadsFit, LoadFits
<1>2. /\ c = NoLoad => c.kind = "none"
      /\ c # NoLoad => c.kind = "replace" /\ c.query = load[l].query /\ c.page = 1
  BY <1>1, NoLoadIsFree DEF Replaces
<1>3. c # NoLoad => Belongs(c) /\ (c.late \/ UpToDate(c)')
  BY <1>1, <1>2 DEF Belongs, UpToDate
<1>4. /\ LoadsFit' /\ load'[l] = c
      /\ \A m \in Loads \ {l} : /\ load'[m].kind = load[m].kind
                                /\ load[m] # NoLoad => load'[m].query = load[m].query
  BY <1>3, LoadsMove
<1>5. Spinners' /\ Fetching'
  BY <1>2, <1>4 DEF ViewsInv, Spinners, Fetching
<1>6. Tended'
  <2>1. ASSUME c.kind = "replace", OnScreen(l) PROVE Mending'
    <3>1. (load[l].kind = "replace" /\ OnScreen(l))'
      BY <1>2, <1>4, <2>1, NoLoadIsFree DEF OnScreen
    <3> QED BY <3>1 DEF Mending
  <2>2. ASSUME Mending PROVE Mending'
    <3>1. PICK m \in Loads : load[m].kind = "replace" /\ OnScreen(m)
      BY <2>2 DEF Mending
    <3>2. m # l /\ load[m] # NoLoad
      BY <3>1, NoLoadIsFree
    <3> QED BY <1>4, <3>1, <3>2 DEF Mending, OnScreen
  <2> QED BY <2>1, <2>2 DEF ViewsInv, Tended
<1> QED BY <1>4, <1>5, <1>6 DEF ViewsInv
-----------------------------------------------------------------------------
(* The actions: the two infinite lists first.                              *)
LEMMA NewQuestionTyped ==
  ASSUME ViewsInv, viewScreen' = viewScreen, query' \in Queries, pageNo' \in Nat,
         viewScreen \in {"categories", "reports"} => pageNo' = 1
  PROVE  QuestionTyped'
  BY QueriesStay, QueryFacts DEF ViewsInv, QuestionTyped

LEMMA PageIsNat ==
  ASSUME ViewsInv
  PROVE  pageNo \in Nat /\ ViewsAssumption
  BY ViewsAssumption DEF ViewsInv, QuestionTyped

LEMMA InfiniteQuestions ==
  ASSUME ViewsInv, NEW q \in Queries, ProductsFilter(q) \/ InventoryFilter(q)
  PROVE  ViewsInv'
<1>1. CASE ProductsFilter(q)
  <2>1. QuestionTyped'
    BY <1>1, NewQuestionTyped DEF ProductsFilter
  <2>2. ListTyped'
    BY <1>1, RowsEmptied, Screens DEF ProductsFilter, ViewsInv
  <2>3. FlagsTyped'
    BY <1>1 DEF ProductsFilter, SetsTimer, ViewsInv, FlagsTyped
  <2>4. PICK loads : loads = Recounted(1, TRUE)
    OBVIOUS
  <2>5. /\ viewScreen' = viewScreen /\ SetsTimer /\ load' = loads /\ pageNo' = 1
        /\ isFetchingMore' = isFetchingMore
    BY <1>1, <2>4 DEF ProductsFilter
  <2>6. Marked(loads) /\ \A m \in Loads : loads[m].kind \in {"more", "silent"} =>
                                            loads[m].late \/ UpToDate(loads[m])'
    BY <2>4, <2>5, RecountedAnew DEF ViewsInv
  <2> QED BY <2>1, <2>2, <2>3, <2>5, <2>6, TimerSet
<1>2. CASE InventoryFilter(q)
  <2>1. QuestionTyped'
    BY <1>2, NewQuestionTyped DEF InventoryFilter, ViewsInv, QuestionTyped
  <2>2. ListTyped'
    BY <1>2 DEF InventoryFilter, ViewsInv, ListTyped
  <2>3. FlagsTyped' /\ isFetchingMore' = isFetchingMore
    BY <1>2 DEF InventoryFilter, SetsTimer, ViewsInv, FlagsTyped, flags
  <2> QED BY <1>2, <2>1, <2>2, <2>3, TimerKept DEF InventoryFilter
<1> QED BY <1>1, <1>2

(* The timer loads what is asked now.                                      *)
LEMMA TimerFires ==
  ASSUME ViewsInv, viewScreen # "history", NEW p \in Nat, TimerLoads(p),
         viewScreen \in InfiniteScreens \cup {"categories", "reports"} => p = 1
  PROVE  ViewsInv'
<1>1. query \in Queries
  BY DEF ViewsInv, QuestionTyped
<1>2. PICK c : c = Replaces(query, p)
  OBVIOUS
<1>3. c \in Asks /\ c.kind = "replace" /\ c.query = query /\ c.page = p
  BY <1>1, <1>2, QueryFacts DEF Replaces, Asks, ViewsInv, QuestionTyped
<1>4. LoadFits(c)
  BY <1>1, <1>3 DEF LoadFits, Belongs, UpToDate
<1>5. /\ AskIn(load, c) /\ UNCHANGED <<viewScreen, query, pageNo>> /\ list' = list
      /\ astray' = astray /\ isFetchingMore' = isFetchingMore
  BY <1>2 DEF TimerLoads
<1>6. FlagsTyped'
  BY DEF TimerLoads, ViewsInv, FlagsTyped
<1> QED BY <1>1, <1>3, <1>4, <1>5, <1>6, OneMore

LEMMA InfiniteAsks ==
  ASSUME ViewsInv,
         ProductsLoad \/ ProductsMore \/ InventoryLoad \/ InventoryMore
         \/ InventoryPoll \/ ChangeSent
  PROVE  ViewsInv'
<1>1. viewScreen # "history"
  BY DEF ProductsLoad, ProductsMore, ProductsList, InventoryLoad, InventoryMore,
         InventoryPoll, ChangeSent, Reloaders, EditedInPlace
<1>2. query \in Queries
  BY <1>1 DEF ViewsInv, QuestionTyped
<1>3. CASE ProductsLoad \/ InventoryLoad
  BY <1>1, <1>3, TimerFires DEF ProductsLoad, InventoryLoad
<1>4. CASE ProductsMore \/ InventoryMore
  <2>1. PICK c : c = [kind |-> "more", query |-> query, page |-> pageNo + 1,
                      late |-> FALSE]
    OBVIOUS
  <2>2. c \in Asks /\ c.kind = "more" /\ c.query = query /\ c.page = pageNo + 1
    BY <1>2, <2>1, QueryFacts, PageIsNat DEF Asks, ViewsInv, QuestionTyped
  <2>3. AsksMore /\ viewScreen \in InfiniteScreens
    BY <1>4 DEF ProductsMore, ProductsList, InventoryMore, InfiniteScreens
  <2>4. LoadFits(c)
    BY <1>2, <2>2, <2>3 DEF LoadFits, Belongs, UpToDate
  <2>5. /\ AskIn(load, c) /\ UNCHANGED <<viewScreen, query, pageNo>> /\ list' = list
        /\ astray' = astray /\ (due => due') /\ (isLoading' => isLoading)
        /\ ~isFetchingMore /\ isFetchingMore'
    BY <2>1, <2>3 DEF AsksMore, MoreWanted
  <2>6. FlagsTyped'
    BY <2>3 DEF AsksMore, ViewsInv, FlagsTyped
  <2> QED BY <2>2, <2>4, <2>5, <2>6, OneMore
<1>5. CASE InventoryPoll
  <2>1. PICK n \in 1..pageNo :
          AskIn(load, [kind |-> "silent", query |-> query, page |-> n,
                       late |-> n # pageNo])
    BY <1>5 DEF InventoryPoll
  <2>2. PICK b \in BOOLEAN : b = (n # pageNo)
    OBVIOUS
  <2>3. PICK c : c = [kind |-> "silent", query |-> query, page |-> n, late |-> b]
    OBVIOUS
  <2>4. n \in Nat
    BY <2>1, PageIsNat
  <2>5. /\ c \in Asks /\ c.kind = "silent" /\ c.query = query /\ c.page = n
        /\ c.late = b
    BY <1>2, <2>4, <2>3, QueryFacts DEF Asks, ViewsInv, QuestionTyped
  <2>6. LoadFits(c)
    BY <1>2, <1>5, <2>2, <2>5 DEF LoadFits, Belongs, UpToDate, InventoryPoll, InfiniteScreens
  <2>7. /\ AskIn(load, c) /\ UNCHANGED <<viewScreen, query, pageNo>> /\ list' = list
        /\ astray' = astray /\ (due => due') /\ (isLoading' => isLoading)
        /\ isFetchingMore' = isFetchingMore
    BY <1>5, <2>1, <2>2, <2>3 DEF InventoryPoll, flags
  <2>8. FlagsTyped'
    BY <1>5 DEF InventoryPoll, ViewsInv, FlagsTyped, flags
  <2> QED BY <2>5, <2>6, <2>7, <2>8, OneMore
<1>6. CASE ChangeSent
  <2>1. PICK c : c = [kind |-> "change", query |-> query, page |-> 1, late |-> FALSE]
    OBVIOUS
  <2>2. c \in Asks /\ c.kind = "change" /\ c.query = query
    BY <1>2, <2>1, QueryFacts DEF Asks, ViewsInv, QuestionTyped
  <2>3. LoadFits(c)
    BY <1>2, <2>2 DEF LoadFits, Belongs, UpToDate
  <2>4. /\ AskIn(load, c) /\ UNCHANGED <<viewScreen, query, pageNo>> /\ list' = list
        /\ astray' = astray /\ (due => due') /\ (isLoading' => isLoading)
        /\ isFetchingMore' = isFetchingMore
    BY <1>6, <2>1 DEF ChangeSent, flags
  <2>5. FlagsTyped'
    BY <1>6 DEF ChangeSent, ViewsInv, FlagsTyped, flags
  <2> QED BY <2>2, <2>3, <2>4, <2>5, OneMore
<1> QED BY <1>3, <1>4, <1>5, <1>6

(* Answers, whatever the screen does with the page number.                 *)
LEMMA ReplacedFits ==
  ASSUME ViewsInv, UNCHANGED <<viewScreen, query, due>>, isFetchingMore' = isFetchingMore,
         fetchError' \in BOOLEAN,
         NEW l \in Loads, load[l].kind = "replace", NEW p \in Nat, Replaced(l, p),
         IF viewScreen \in SinglePage THEN p = pageNo ELSE p = load[l].page
  PROVE  ViewsInv'
<1>1. PICK c : c = load[l]
  OBVIOUS
<1>2. c \in Asks /\ c.kind = "replace" /\ Belongs(c)
  BY <1>1, NoLoadIsFree DEF ViewsInv, LoadsFit, LoadFits
<1>3. /\ c.query \in Queries /\ c.page \in Nat /\ c.late \in BOOLEAN
      /\ viewScreen \in ViewScreens
  BY <1>2 DEF Belongs, Asks, ViewsInv, QuestionTyped
<1>4. /\ RowsOf(c, c.page) \in Chunks
      /\ ~c.late => RowsOf(c, c.page) = Chunk(c.query, c.page)
  BY <1>2, <1>3, RowsTyped
<1>5. PICK chunks \in Seq(Chunks) : chunks = <<RowsOf(c, c.page)>>
  <2>1. PICK x \in Chunks : x = RowsOf(c, c.page)
    BY <1>4
  <2>2. <<x>> \in Seq(Chunks)
    OBVIOUS
  <2> QED BY <2>1, <2>2, Zenon
<1>6. /\ list' \in [AllFields -> Seq(Chunks)]
      /\ \A f \in FieldsOf(c.query.tab) : list'[f] = chunks
      /\ \A f \in AllFields \ FieldsOf(c.query.tab) : list'[f] = list[f]
  <2>1. list' = Showing(c.query, chunks)
    BY <1>1, <1>5, Zenon DEF Replaced
  <2>2. PICK q \in Queries : q = c.query
    BY <1>3
  <2>3. list' = Showing(q, chunks) /\ ListTyped
    BY <2>1, <2>2 DEF ViewsInv
  <2>4. /\ list' \in [AllFields -> Seq(Chunks)]
        /\ \A f \in FieldsOf(q.tab) : list'[f] = chunks
        /\ \A f \in AllFields \ FieldsOf(q.tab) : list'[f] = list[f]
    BY <1>3, <2>3, ShowingTyped
  <2> QED BY <2>2, <2>4
<1>7. pageNo' = p /\ astray' = IF OnScreen(l) THEN ~InTime(l) ELSE astray
  BY DEF Replaced
<1>8. QuestionTyped'
  <2>1. viewScreen \in {"categories", "reports"} => pageNo' = 1
    BY <1>7 DEF ViewsInv, QuestionTyped, SinglePage, ViewScreens, InfiniteScreens
  <2> QED BY <1>7, <2>1, QueriesStay DEF ViewsInv, QuestionTyped
<1>9. FlagsTyped' /\ ~isLoading'
  <2>1. astray' \in BOOLEAN
    BY <1>7 DEF ViewsInv, FlagsTyped
  <2>2. hasMore' \in BOOLEAN /\ isLoading' = FALSE
    BY DEF Replaced
  <2> QED BY <2>1, <2>2 DEF ViewsInv, FlagsTyped
<1>10. ASSUME OnScreen(l) PROVE astray' \/ RowsRight'
  <2>1. CASE ~InTime(l)
    BY <1>7, <1>10, <2>1
  <2>2. CASE InTime(l)
    <3>1. /\ c.query = query /\ ~c.late
          /\ viewScreen \in PagedScreens => c.page = pageNo
      BY <1>1, <2>2 DEF InTime
    <3>2. query # Closed
      BY <1>3, <3>1, QueryFacts
    <3>3. chunks = <<Chunk(query, c.page)>>
      BY <1>4, <1>5, <3>1
    <3>4. pageNo' = c.page
      <4>1. viewScreen \in {"categories", "reports"} => c.page = 1 /\ pageNo = 1
        BY <1>2 DEF Belongs, ViewsInv, QuestionTyped
      <4> QED BY <1>1, <1>3, <1>7, <3>1, <4>1 DEF SinglePage, ViewScreens
    <3>5. chunks = RowsAskedFor'
      <4>1. CASE viewScreen \in InfiniteScreens
        <5>1. c.page = 1
          BY <1>2, <4>1 DEF Belongs
        <5> QED BY <1>3, <3>1, <3>2, <3>3, <3>4, <4>1, <5>1, PagesTyped DEF RowsAskedFor
      <4>2. CASE viewScreen \notin InfiniteScreens
        BY <3>2, <3>3, <3>4, <4>2 DEF RowsAskedFor
      <4> QED BY <4>1, <4>2
    <3>6. (RowsAskedFor \in RowsAllowed)'
      BY DEF RowsAllowed, WithOwn
    <3> QED BY <1>6, <3>1, <3>5, <3>6 DEF RowsRight
  <2> QED BY <2>1, <2>2
<1>11. ASSUME ~OnScreen(l) PROVE astray' = astray /\ (RowsRight => RowsRight')
  <2>1. astray' = astray
    BY <1>7, <1>11
  <2>2. viewScreen \in {"categories", "reports"}
    <3> SUFFICES ASSUME viewScreen \notin {"categories", "reports"} PROVE FALSE
      OBVIOUS
    <3>1. FieldsOf(c.query.tab) = {"rows"}
      BY <1>3, QueryFacts
    <3>2. FieldsOf(query.tab) = {"rows"}
      BY <1>3, QueryFacts, Screens DEF ViewsInv, QuestionTyped, Closed
    <3> QED BY <1>1, <1>11, <3>1, <3>2 DEF OnScreen
  <2>3. query \in Queries /\ FieldsOf(query.tab) \subseteq AllFields
    BY <1>3, <2>2, QueryFacts DEF ViewsInv, QuestionTyped
  <2>4. \A f \in FieldsOf(query.tab) : list'[f] = list[f]
    BY <1>1, <1>6, <1>11, <2>3 DEF OnScreen
  <2>5. pageNo' = pageNo
    BY <1>3, <1>7, <2>2 DEF SinglePage, InfiniteScreens
  <2> QED BY <2>1, <2>4, <2>5 DEF RowsRight, RowsAllowed, RowsAskedFor
<1>12. PICK loads : loads = Recounted(p, TRUE)
  OBVIOUS
<1>13. load' = [loads EXCEPT ![l] = NoLoad]
  BY <1>12 DEF Replaced
<1>14. Marked(loads) /\ \A m \in Loads \ {l} : loads[m].kind \in {"more", "silent"} =>
                                                 loads[m].late \/ UpToDate(loads[m])'
  BY <1>7, <1>12, RecountedAnew DEF ViewsInv
<1>15. ListTyped'
  BY <1>6 DEF ListTyped
<1>16. isFetchingMore' = (isFetchingMore /\ load[l].kind # "more")
  BY DEF ViewsInv, FlagsTyped
<1>17. \/ astray' \/ RowsRight'
       \/ (load[l].kind # "replace" \/ ~OnScreen(l)) /\ ~RowsRight /\ ~astray
  BY <1>10, <1>11
<1>18. load[l].kind # "none" /\ ~isLoading'
  BY <1>9
<1> QED BY <1>8, <1>9, <1>13, <1>14, <1>15, <1>16, <1>17, <1>18, AnswerArrives

LEMMA FailedFits ==
  ASSUME ViewsInv, UNCHANGED <<viewScreen, query, pageNo, due>>,
         isFetchingMore' = isFetchingMore, fetchError' \in BOOLEAN, hasMore' \in BOOLEAN,
         NEW l \in Loads, load[l].kind = "replace", Failed(l),
         ListTyped', list' = list \/ OnScreen(l)
  PROVE  ViewsInv'
<1>1. load[l] # NoLoad /\ load[l] \in Asks
  BY NoLoadIsFree DEF ViewsInv, LoadsFit, LoadFits
<1>2. astray' = (astray \/ OnScreen(l)) /\ isLoading' = FALSE /\ Dropped(l)
  BY DEF Failed
<1>3. FlagsTyped'
  BY <1>2 DEF ViewsInv, FlagsTyped
<1>4. ~OnScreen(l) => astray' = astray
  BY <1>2 DEF ViewsInv, FlagsTyped
<1>5. isFetchingMore' = (isFetchingMore /\ load[l].kind # "more")
  BY DEF ViewsInv, FlagsTyped
<1> QED BY <1>1, <1>2, <1>3, <1>4, <1>5, Ended

LEMMA FirstPageFits ==
  ASSUME ViewsInv, UNCHANGED <<viewScreen, query, fetchError, due>>,
         viewScreen \in InfiniteScreens, NEW l \in Loads, FirstPage(l)
  PROVE  ViewsInv'
<1>1. load[l].kind = "replace" /\ isFetchingMore' = isFetchingMore
  BY DEF FirstPage
<1>2. fetchError' \in BOOLEAN
  BY DEF ViewsInv, FlagsTyped
<1>3. CASE Replaced(l, load[l].page)
  <2>1. PICK p \in Nat : p = load[l].page
    BY <1>1, NoLoadIsFree DEF ViewsInv, LoadsFit, LoadFits, Asks
  <2>2. Replaced(l, p) /\ viewScreen \notin SinglePage
    BY <1>3, <2>1 DEF SinglePage
  <2> QED BY <1>1, <1>2, <2>1, <2>2, ReplacedFits
<1>4. CASE Failed(l) /\ UNCHANGED <<list, pageNo, hasMore>>
  <2>1. ListTyped' /\ hasMore' \in BOOLEAN
    BY <1>4 DEF ViewsInv, ListTyped, FlagsTyped
  <2> QED BY <1>1, <1>2, <1>4, <2>1, FailedFits
<1> QED BY <1>3, <1>4 DEF FirstPage

LEMMA InfiniteFields ==
  ASSUME ViewsInv, viewScreen \in InfiniteScreens, NEW l \in Loads, load[l] # NoLoad
  PROVE  /\ load[l] \in Asks /\ Belongs(load[l])
         /\ query \in Queries /\ query # Closed
         /\ FieldsOf(load[l].query.tab) = {"rows"} /\ FieldsOf(query.tab) = {"rows"}
         /\ OnScreen(l) /\ viewScreen \notin EditedInPlace
<1>1. load[l] \in Asks /\ Belongs(load[l])
  BY DEF ViewsInv, LoadsFit, LoadFits
<1>2. query \in Queries
  BY DEF ViewsInv, QuestionTyped, InfiniteScreens
<1>3. viewScreen \in ViewScreens \ {"categories", "reports"}
  BY DEF ViewScreens, InfiniteScreens
<1>4. load[l].query \in Queries
  BY <1>1 DEF Belongs
<1>5. viewScreen \notin EditedInPlace
  BY DEF InfiniteScreens, EditedInPlace
<1> QED BY <1>1, <1>2, <1>3, <1>4, <1>5, QueryFacts DEF OnScreen

LEMMA AppendedFits ==
  ASSUME ViewsInv, UNCHANGED <<viewScreen, query, fetchError, due>>,
         viewScreen \in InfiniteScreens, NEW l \in Loads, Appended(l)
  PROVE  ViewsInv'
<1>1. PICK c : c = load[l]
  OBVIOUS
<1>2. c.kind = "more" /\ c # NoLoad
  BY <1>1, NoLoadIsFree DEF Appended
<1>3. /\ c \in Asks /\ Belongs(c) /\ (c.late \/ UpToDate(c))
      /\ query \in Queries /\ query # Closed /\ FieldsOf(query.tab) = {"rows"}
      /\ viewScreen \notin EditedInPlace
  BY <1>1, <1>2, InfiniteFields DEF ViewsInv, LoadsFit, LoadFits
<1>4. c.query \in Queries /\ c.page \in Nat /\ c.late \in BOOLEAN
  BY <1>3 DEF Belongs, Asks
<1>5. isFetchingMore' = FALSE /\ (isLoading' => isLoading) /\ isLoading' \in BOOLEAN
  BY DEF Appended, ViewsInv, FlagsTyped
<1>6. viewScreen \in ViewScreens
  BY DEF ViewsInv, QuestionTyped
<1>7. CASE /\ list' = [list EXCEPT !["rows"] = Append(@, RowsOf(c, c.page))]
           /\ pageNo' = c.page /\ hasMore' \in BOOLEAN
           /\ load' = [Recounted(c.page, FALSE) EXCEPT ![l] = NoLoad]
           /\ astray' = (astray \/ ~InTime(l))
  <2>1. /\ list["rows"] \in Seq(Chunks) /\ "rows" \in AllFields
        /\ RowsOf(c, c.page) \in Chunks
        /\ ~c.late => RowsOf(c, c.page) = Chunk(c.query, c.page)
    BY <1>3, <1>4, <1>6, RowsTyped, Screens DEF ViewsInv, ListTyped
  <2>2. PICK chunks \in Seq(Chunks) : chunks = Append(list["rows"], RowsOf(c, c.page))
    <3>1. \A rows \in Seq(Chunks), x \in Chunks : Append(rows, x) \in Seq(Chunks)
      OBVIOUS
    <3> QED BY <2>1, <3>1, Zenon
  <2>3. list' = [list EXCEPT !["rows"] = chunks]
    BY <1>7, <2>2
  <2>4. ListTyped' /\ list'["rows"] = chunks
    BY <2>1, <2>3, ListSet DEF ViewsInv, ListTyped
  <2>5. QuestionTyped'
    <3>1. pageNo' \in Nat /\ viewScreen \notin {"categories", "reports"}
      BY <1>4, <1>7 DEF InfiniteScreens
    <3> QED BY <3>1, QueriesStay DEF ViewsInv, QuestionTyped
  <2>6. FlagsTyped'
    BY <1>5, <1>7 DEF ViewsInv, FlagsTyped
  <2>7. astray' \/ RowsRight' \/ (~RowsRight /\ ~astray)
    <3>1. CASE astray \/ ~InTime(l)
      BY <1>7, <3>1
    <3>2. CASE ~RowsRight /\ ~astray
      BY <3>2
    <3>3. CASE RowsRight /\ InTime(l)
      <4>1. c.query = query /\ ~c.late /\ c.page = pageNo + 1
        BY <1>1, <1>2, <1>3, <3>3 DEF InTime, UpToDate
      <4>2. list["rows"] = PagesTo(query, pageNo)
        BY <1>3, <3>3 DEF RowsRight, RowsAllowed, RowsAskedFor
      <4>3. chunks = Append(PagesTo(query, pageNo), Chunk(query, pageNo + 1))
        BY <2>1, <2>2, <4>1, <4>2
      <4>4. chunks = PagesTo(query, c.page)
        BY <1>3, <1>6, <4>1, <4>3, PagesTyped, PageIsNat
      <4>5. RowsAllowed' = {PagesTo(query, c.page)}
        BY <1>3, <1>7 DEF RowsAllowed, RowsAskedFor
      <4> QED BY <1>3, <2>4, <4>4, <4>5 DEF RowsRight
    <3> QED BY <3>1, <3>2, <3>3
  <2>8. PICK loads : loads = Recounted(c.page, FALSE)
    OBVIOUS
  <2>9. load' = [loads EXCEPT ![l] = NoLoad]
    BY <1>7, <2>8
  <2>10. Marked(loads) /\ \A m \in Loads : loads[m].kind = "silent" =>
                                             loads[m].late \/ UpToDate(loads[m])'
    BY <1>4, <1>7, <2>8, RecountedOn DEF ViewsInv
  <2>11. \A m \in Loads \ {l} : loads[m].kind # "more"
    BY <1>1, <1>2, <2>10, MarkedKinds DEF ViewsInv, Fetching
  <2>12. \A m \in Loads \ {l} : loads[m].kind \in {"more", "silent"} =>
                                  loads[m].late \/ UpToDate(loads[m])'
    BY <2>10, <2>11
  <2>13. load[l].kind = "more"
    BY <1>1, <1>2
  <2> QED BY <1>5, <2>4, <2>5, <2>6, <2>7, <2>9, <2>10, <2>12, <2>13, AnswerArrives
<1>8. CASE Dropped(l) /\ UNCHANGED <<list, pageNo, hasMore, astray>>
  <2>1. ListTyped' /\ FlagsTyped'
    BY <1>5, <1>8 DEF ViewsInv, ListTyped, FlagsTyped
  <2> QED BY <1>1, <1>2, <1>5, <1>8, <2>1, Ended
<1> QED BY <1>1, <1>7, <1>8 DEF Appended

LEMMA RefreshedFits ==
  ASSUME ViewsInv, UNCHANGED <<viewScreen, query, fetchError, due>>,
         viewScreen \in InfiniteScreens, NEW l \in Loads, Refreshed(l)
  PROVE  ViewsInv'
<1>1. PICK c : c = load[l]
  OBVIOUS
<1>2. c.kind = "silent" /\ c # NoLoad
  BY <1>1, NoLoadIsFree DEF Refreshed
<1>3. /\ c \in Asks /\ Belongs(c) /\ (c.late \/ UpToDate(c))
      /\ query \in Queries /\ query # Closed /\ FieldsOf(query.tab) = {"rows"}
      /\ viewScreen \notin EditedInPlace
  BY <1>1, <1>2, InfiniteFields DEF ViewsInv, LoadsFit, LoadFits
<1>4. c.query \in Queries /\ c.page \in Nat /\ c.late \in BOOLEAN
  BY <1>3 DEF Belongs, Asks
<1>5. pageNo' = pageNo /\ isFetchingMore' = isFetchingMore /\ isLoading' = isLoading
  BY DEF Refreshed
<1>6. viewScreen \in ViewScreens /\ QuestionTyped'
  BY <1>5, QueriesStay DEF ViewsInv, QuestionTyped
<1>7. isFetchingMore' = (isFetchingMore /\ load[l].kind # "more")
  BY <1>1, <1>2, <1>5 DEF ViewsInv, FlagsTyped
<1>8. CASE /\ list' = [list EXCEPT !["rows"] = [p \in 1..c.page |-> RowsOf(c, p)]]
           /\ hasMore' \in BOOLEAN /\ Dropped(l) /\ astray' = ~InTime(l)
  <2>1. \A p \in Nat : RowsOf(c, p) \in Chunks /\ (~c.late => RowsOf(c, p) = Chunk(c.query, p))
    BY <1>3, <1>4, <1>6, RowsTyped
  <2>2. PICK chunks \in Seq(Chunks) : chunks = [p \in 1..c.page |-> RowsOf(c, p)]
    <3> DEFINE r(p) == RowsOf(c, p)
    <3>1. \A p \in Nat : r(p) \in Chunks
      BY <2>1
    <3> HIDE DEF r
    <3>2. [p \in 1..c.page |-> r(p)] \in Seq(Chunks)
      BY <1>4, <3>1
    <3> QED BY <3>2 DEF r
  <2>3. ListTyped' /\ list'["rows"] = chunks
    <3>1. list' = [list EXCEPT !["rows"] = chunks] /\ "rows" \in AllFields
      BY <1>8, <2>2, Screens
    <3> QED BY <3>1, ListSet DEF ViewsInv, ListTyped
  <2>4. FlagsTyped'
    BY <1>5, <1>8 DEF ViewsInv, FlagsTyped
  <2>5. astray' \/ RowsRight'
    <3>1. CASE ~InTime(l)
      BY <1>8, <3>1
    <3>2. CASE InTime(l)
      <4>1. c.query = query /\ ~c.late /\ c.page = pageNo
        BY <1>1, <1>2, <1>3, <3>2 DEF InTime, UpToDate
      <4>2. chunks = [p \in 1..pageNo |-> Chunk(query, p)]
        BY <2>1, <2>2, <4>1, PageIsNat
      <4> QED BY <1>3, <1>5, <2>3, <4>2 DEF RowsRight, RowsAllowed, RowsAskedFor, PagesTo
    <3> QED BY <3>1, <3>2
  <2>6. PICK loads : loads = load
    OBVIOUS
  <2>7. load' = [loads EXCEPT ![l] = NoLoad]
    BY <1>8, <2>6 DEF Dropped
  <2>8. Marked(loads) /\ \A m \in Loads \ {l} : loads[m].kind \in {"more", "silent"} =>
                                                  loads[m].late \/ UpToDate(loads[m])'
    BY <1>5, <2>6, KeptFits
  <2>9. load[l].kind = "silent" /\ (isLoading' => isLoading)
    BY <1>1, <1>2, <1>5
  <2> QED BY <1>6, <1>7, <2>3, <2>4, <2>5, <2>7, <2>8, <2>9, AnswerArrives
<1>9. CASE Dropped(l) /\ UNCHANGED <<list, hasMore, astray>>
  <2>1. ListTyped' /\ FlagsTyped'
    BY <1>5, <1>9 DEF ViewsInv, ListTyped, FlagsTyped
  <2> QED BY <1>1, <1>2, <1>5, <1>7, <1>9, <2>1, Ended
<1> QED BY <1>1, <1>8, <1>9 DEF Refreshed

LEMMA InfiniteAnswers ==
  ASSUME ViewsInv, NEW l \in Loads, ProductsLoaded(l) \/ InventoryLoaded(l)
  PROVE  ViewsInv'
<1>1. UNCHANGED <<viewScreen, query, fetchError, due>> /\ viewScreen \in InfiniteScreens
  BY DEF ProductsLoaded, InventoryLoaded, InfiniteScreens
<1>2. FirstPage(l) \/ Appended(l) \/ Refreshed(l)
  BY DEF ProductsLoaded, InventoryLoaded
<1> QED BY <1>1, <1>2, FirstPageFits, AppendedFits, RefreshedFits

(* Changes: accepted, they are put into the rows, or they reload.          *)
LEMMA ChangeMarks ==
  ASSUME ViewsInv, NEW l \in Loads, load[l].kind \in {"change", "restore"},
         NEW loads, loads = Outdated(l)
  PROVE  /\ Marked(loads)
         /\ \A m \in Loads : loads[m].kind \in {"more", "silent"} => loads[m].late
         /\ Replaces(load[l].query, 1) \in Asks /\ load[l].query \in Queries
<1>1. load[l] # NoLoad /\ load[l] \in Asks /\ Belongs(load[l])
  BY NoLoadIsFree DEF ViewsInv, LoadsFit, LoadFits
<1>2. Replaces(load[l].query, 1) \in Asks /\ load[l].query \in Queries
  BY <1>1 DEF Replaces, Asks, Belongs
<1> QED BY <1>1, <1>2, OutdatedFits

LEMMA EditedFits ==
  ASSUME ViewsInv, viewScreen \in EditedInPlace, NEW l \in Loads,
         NEW edits \in SUBSET PutIn(list["rows"]), Edited(l, edits)
  PROVE  ViewsInv'
<1>1. PICK rows \in PutIn(list["rows"]) : list' = [list EXCEPT !["rows"] = rows]
  BY DEF Edited
<1>2. list["rows"] \in Seq(Chunks) /\ "rows" \in AllFields
  BY Screens DEF ViewsInv, ListTyped
<1>3. rows \in Seq(Chunks)
  BY <1>1, <1>2, EditsTyped
<1>4. ListTyped' /\ list'["rows"] = rows
  BY <1>1, <1>2, <1>3, ListSet DEF ViewsInv, ListTyped
<1>5. /\ UNCHANGED <<viewScreen, query, due, astray>> /\ pageNo' = pageNo
      /\ UNCHANGED <<hasMore, isLoading, isFetchingMore, fetchError>>
      /\ load[l].kind = "change" /\ load' = [Outdated(l) EXCEPT ![l] = NoLoad]
  BY DEF Edited, flags
<1>6. QuestionTyped' /\ FlagsTyped'
  BY <1>5, QueriesStay DEF ViewsInv, QuestionTyped, FlagsTyped
<1>7. RowsRight => RowsRight'
  <2> SUFFICES ASSUME RowsRight PROVE RowsRight'
    OBVIOUS
  <2>1. viewScreen \in ViewScreens \ {"categories", "reports"}
        /\ viewScreen \notin InfiniteScreens /\ viewScreen # "history"
    BY DEF EditedInPlace, ViewScreens, PagedScreens, InfiniteScreens
  <2>2. query \in Queries /\ query # Closed /\ FieldsOf(query.tab) = {"rows"}
    BY <2>1, QueryFacts DEF ViewsInv, QuestionTyped
  <2>3. RowsAllowed = WithOwn(<<Chunk(query, pageNo)>>)
    BY <2>1, <2>2 DEF RowsAllowed, RowsAskedFor
  <2>4. RowsAllowed' = RowsAllowed
    BY <1>5 DEF RowsAllowed, RowsAskedFor
  <2>5. PICK x \in Chunks : x = Chunk(query, pageNo)
    BY <2>1, <2>2, PagesTyped, PageIsNat
  <2>6. list["rows"] \in WithOwn(<<x>>)
    BY <2>2, <2>3, <2>5 DEF RowsRight
  <2>7. rows \in WithOwn(<<x>>)
    BY <1>1, <2>6, SingleEdits
  <2> QED BY <1>4, <1>5, <2>2, <2>3, <2>4, <2>5, <2>7 DEF RowsRight
<1>8. PICK loads : loads = Outdated(l)
  OBVIOUS
<1>9. load' = [loads EXCEPT ![l] = NoLoad]
  BY <1>5, <1>8
<1>10. Marked(loads) /\ \A m \in Loads : loads[m].kind \in {"more", "silent"} => loads[m].late
  BY <1>5, <1>8, ChangeMarks
<1>11. PICK c \in Asks \cup {NoLoad} : c = NoLoad
  OBVIOUS
<1> QED BY <1>4, <1>5, <1>6, <1>7, <1>9, <1>10, <1>11, ChangeAccepted

LEMMA ChangesPutIn ==
  ASSUME ViewsInv, NEW l \in Loads, UsersChanged(l) \/ ExpensesChanged(l) \/ SalesChanged(l)
  PROVE  ViewsInv'
<1>1. WithOwn(list["rows"]) \subseteq PutIn(list["rows"])
  BY DEF PutIn
<1>2. viewScreen \in EditedInPlace
  BY DEF UsersChanged, ExpensesChanged, SalesChanged, EditedInPlace
<1>3. PICK edits \in SUBSET PutIn(list["rows"]) : Edited(l, edits)
  BY <1>1 DEF UsersChanged, ExpensesChanged, SalesChanged
<1> QED BY <1>2, <1>3, EditedFits

LEMMA ReloadedFits ==
  ASSUME ViewsInv, UNCHANGED <<viewScreen, query, due, astray>>,
         NEW l \in Loads, load[l].kind \in {"change", "restore"}, load' = Reloading(l),
         QuestionTyped', FlagsTyped', ListTyped', isFetchingMore' = isFetchingMore,
         OnScreen(l) \/ (RowsRight => RowsRight')
  PROVE  ViewsInv'
<1>1. PICK loads : loads = Outdated(l)
  OBVIOUS
<1>2. PICK c : c = Replaces(load[l].query, 1)
  OBVIOUS
<1>3. load' = [loads EXCEPT ![l] = c]
  BY <1>1, <1>2 DEF Reloading
<1>4. /\ Marked(loads)
      /\ \A m \in Loads : loads[m].kind \in {"more", "silent"} => loads[m].late
      /\ c \in Asks
  BY <1>1, <1>2, ChangeMarks
<1>5. c \in Asks \cup {NoLoad} /\ c.kind = "replace"
  BY <1>2, <1>4 DEF Replaces
<1> QED BY <1>2, <1>3, <1>4, <1>5, ChangeAccepted

LEMMA ProductsReload ==
  ASSUME ViewsInv, NEW l \in Loads, ProductsChanged(l)
  PROVE  ViewsInv'
<1>1. /\ UNCHANGED <<viewScreen, query, due, astray>> /\ pageNo' = pageNo
      /\ load[l].kind = "change" /\ load' = Reloading(l)
      /\ isFetchingMore' = isFetchingMore /\ viewScreen \in InfiniteScreens
      /\ isLoading' = TRUE /\ UNCHANGED <<hasMore, fetchError>>
  BY DEF ProductsChanged, InfiniteScreens
<1>2. QuestionTyped' /\ FlagsTyped'
  BY <1>1, QueriesStay DEF ViewsInv, QuestionTyped, FlagsTyped
<1>3. PICK rows \in PutIn(list["rows"]) : list' = [list EXCEPT !["rows"] = rows]
  BY DEF ProductsChanged
<1>4. rows \in Seq(Chunks) /\ "rows" \in AllFields
  BY <1>3, EditsTyped, Screens DEF ViewsInv, ListTyped
<1>5. ListTyped'
  BY <1>3, <1>4, ListSet DEF ViewsInv, ListTyped
<1>6. OnScreen(l)
  BY <1>1, InfiniteFields, NoLoadIsFree
<1> QED BY <1>1, <1>2, <1>5, <1>6, ReloadedFits

LEMMA InventoryReloads ==
  ASSUME ViewsInv, NEW l \in Loads, InventoryChanged(l)
  PROVE  ViewsInv'
<1>1. /\ UNCHANGED <<viewScreen, query, due, astray>> /\ viewScreen = "inventory"
      /\ load[l].kind = "change" /\ load' = Reloading(l)
      /\ isLoading' = TRUE /\ list' = [list EXCEPT !["rows"] = <<>>]
      /\ pageNo' = 1 /\ hasMore' = TRUE /\ isFetchingMore' = isFetchingMore
      /\ fetchError' = fetchError
  BY DEF InventoryChanged
<1>2. QuestionTyped' /\ FlagsTyped'
  BY <1>1, QueriesStay DEF ViewsInv, QuestionTyped, FlagsTyped
<1>3. ListTyped'
  BY <1>1, RowsEmptied, Screens DEF ViewsInv
<1>4. OnScreen(l)
  BY <1>1, InfiniteFields, NoLoadIsFree DEF InfiniteScreens
<1> QED BY <1>1, <1>2, <1>3, <1>4, ReloadedFits

LEMMA CategoriesReload ==
  ASSUME ViewsInv, NEW l \in Loads, CategoriesChanged(l)
  PROVE  ViewsInv'
<1>1. /\ UNCHANGED <<viewScreen, query, due, astray>> /\ pageNo' = pageNo
      /\ load[l].kind \in {"change", "restore"} /\ load' = Reloading(l)
      /\ isFetchingMore' = isFetchingMore /\ viewScreen = "categories"
      /\ isLoading' = TRUE /\ UNCHANGED <<hasMore, fetchError>>
  BY DEF CategoriesChanged
<1>2. QuestionTyped' /\ FlagsTyped'
  BY <1>1, QueriesStay DEF ViewsInv, QuestionTyped, FlagsTyped
<1>3. PICK q \in Queries : q = load[l].query
  BY <1>1, NoLoadIsFree DEF ViewsInv, LoadsFit, LoadFits, Belongs
<1>4. q.tab \in AllFields /\ FieldsOf(q.tab) = {q.tab} /\ FieldsOf(query.tab) = {query.tab}
      /\ query.tab \in AllFields
  <2>1. query \in Queries
    BY <1>1 DEF ViewsInv, QuestionTyped
  <2>2. \A r \in Queries : r.tab \in {"product", "expense"}
    BY <1>1 DEF Queries, TabsOf
  <2> QED BY <2>1, <2>2 DEF FieldsOf, AllFields
<1>5. PICK rows \in Seq(Chunks) : rows = list[q.tab]
  BY <1>4 DEF ViewsInv, ListTyped
<1>6. PICK chunks \in Seq(Chunks) :
        chunks = [i \in DOMAIN rows |-> [rows[i] EXCEPT !.own = "late"]]
  <2>1. \A x \in Chunks : [x EXCEPT !.own = "late"] \in Chunks
    BY DEF Chunks
  <2>2. \A i \in DOMAIN rows : rows[i] \in Chunks
    OBVIOUS
  <2>3. Len(rows) \in Nat /\ DOMAIN rows = 1..Len(rows)
    OBVIOUS
  <2>4. [i \in 1..Len(rows) |-> [rows[i] EXCEPT !.own = "late"]] \in Seq(Chunks)
    BY <2>1, <2>2, <2>3
  <2> QED BY <2>3, <2>4
<1>7. list' = [list EXCEPT ![q.tab] = chunks]
  BY <1>3, <1>5, <1>6 DEF CategoriesChanged
<1>8. ListTyped'
  BY <1>4, <1>7, ListSet DEF ViewsInv, ListTyped
<1>9. OnScreen(l) \/ (RowsRight => RowsRight')
  <2>1. CASE q.tab = query.tab
    BY <1>3, <1>4, <2>1 DEF OnScreen
  <2>2. CASE q.tab # query.tab
    <3>1. list'[query.tab] = list[query.tab]
      BY <1>4, <1>7, <2>2 DEF ViewsInv, ListTyped
    <3> QED BY <1>1, <1>4, <3>1 DEF RowsRight, RowsAllowed, RowsAskedFor
  <2> QED BY <2>1, <2>2
<1> QED BY <1>1, <1>2, <1>8, <1>9, ReloadedFits

LEMMA ChangesRefused ==
  ASSUME ViewsInv, NEW l \in Loads, ChangeRefused(l) \/ RestoreRefused(l)
  PROVE  ViewsInv'
<1>1. /\ UNCHANGED <<viewScreen, query, pageNo, due>> /\ list' = list /\ astray' = astray
      /\ load[l].kind \in {"change", "restore"} /\ Dropped(l)
      /\ isFetchingMore' = isFetchingMore
  BY DEF ChangeRefused, RestoreRefused, flags
<1>2. FlagsTyped' /\ (isLoading' => isLoading /\ load[l].kind # "restore")
  <2>1. CASE ChangeRefused(l)
    <3>1. isLoading' = isLoading /\ load[l].kind = "change" /\ FlagsTyped'
      BY <2>1 DEF ChangeRefused, flags, ViewsInv, FlagsTyped
    <3> QED BY <3>1
  <2>2. CASE RestoreRefused(l)
    <3>1. isLoading' = FALSE /\ FlagsTyped'
      BY <2>2 DEF RestoreRefused, ViewsInv, FlagsTyped
    <3> QED BY <3>1
  <2> QED BY <2>1, <2>2
<1>3. load[l] # NoLoad /\ ListTyped'
  BY <1>1, NoLoadIsFree DEF ViewsInv, ListTyped
<1>4. isFetchingMore' = (isFetchingMore /\ load[l].kind # "more")
  BY <1>1 DEF ViewsInv, FlagsTyped
<1> QED BY <1>1, <1>2, <1>3, <1>4, Ended

LEMMA InfiniteStep ==
  ASSUME ViewsInv, InfiniteNext
  PROVE  ViewsInv'
  BY InfiniteQuestions, InfiniteAsks, InfiniteAnswers, ProductsReload,
     InventoryReloads, ChangesRefused DEF InfiniteNext
-----------------------------------------------------------------------------
(* The lists that load at once.                                            *)
LEMMA NowFlags ==
  ASSUME ViewsInv, NEW q, NEW p, LoadsNow(q, p), UNCHANGED <<hasMore, isFetchingMore>>,
         astray' = astray
  PROVE  FlagsTyped' /\ isFetchingMore' = isFetchingMore
  BY DEF LoadsNow, ViewsInv, FlagsTyped

LEMMA AtOnceQuestions ==
  ASSUME ViewsInv, NEW q \in Queries,
         \/ CategoriesFilter(q) \/ ReportsAsk(q)
         \/ openHistoryDrawer(q) \/ HistoryFilter(q)
  PROVE  ViewsInv'
<1>1. /\ viewScreen' = viewScreen /\ query' = q /\ LoadsNow(q, 1) /\ astray' = astray
      /\ UNCHANGED <<hasMore, isFetchingMore>>
      /\ viewScreen \in {"categories", "reports", "history"}
      /\ pageNo' = pageNo \/ (viewScreen = "history" /\ pageNo' = 1)
  BY DEF CategoriesFilter, ReportsAsk, openHistoryDrawer, HistoryFilter, HistoryOpen
<1>2. viewScreen \in {"categories", "reports"} => pageNo' = 1
  BY <1>1 DEF ViewsInv, QuestionTyped
<1>3. QuestionTyped'
  BY <1>1, <1>2, PageIsNat, NewQuestionTyped
<1>4. ListTyped'
  <2>1. CASE CategoriesFilter(q)
    <3>1. q.tab \in AllFields
      BY QueryFacts DEF ViewsInv, QuestionTyped
    <3>2. list' = [list EXCEPT ![q.tab] = <<>>]
      BY <2>1 DEF CategoriesFilter
    <3> QED BY <3>1, <3>2, RowsEmptied DEF ViewsInv
  <2>2. CASE openHistoryDrawer(q)
    BY <2>2, RowsEmptied, Screens DEF ViewsInv, openHistoryDrawer
  <2>3. CASE ReportsAsk(q) \/ HistoryFilter(q)
    BY <2>3 DEF ReportsAsk, HistoryFilter, ViewsInv, ListTyped
  <2> QED BY <2>1, <2>2, <2>3
<1>5. viewScreen \notin InfiniteScreens
  BY <1>1 DEF InfiniteScreens
<1> QED BY <1>1, <1>3, <1>4, <1>5, NowFlags, LoadedNow

LEMMA UsersQuestions ==
  ASSUME ViewsInv, NEW q \in Queries, NEW p \in 1..MaxPages, UsersAsk(q, p)
  PROVE  ViewsInv'
<1>1. /\ viewScreen' = viewScreen /\ query' = q /\ LoadsNow(q, p) /\ astray' = astray
      /\ UNCHANGED <<hasMore, isFetchingMore>> /\ list' = list
      /\ viewScreen = "users" /\ pageNo' = p
  BY DEF UsersAsk, NewQuestion
<1>2. p \in Nat
  OBVIOUS
<1>3. QuestionTyped'
  BY <1>1, <1>2, NewQuestionTyped
<1>4. ListTyped' /\ viewScreen \notin InfiniteScreens
  BY <1>1 DEF ViewsInv, ListTyped, InfiniteScreens
<1> QED BY <1>1, <1>2, <1>3, <1>4, NowFlags, LoadedNow

LEMMA HistoryTurns ==
  ASSUME ViewsInv, NEW p \in 1..MaxPages, HistoryTurn(p)
  PROVE  ViewsInv'
<1>1. PICK q : q = query
  OBVIOUS
<1>2. /\ viewScreen' = viewScreen /\ query' = q /\ LoadsNow(q, p) /\ astray' = astray
      /\ UNCHANGED <<hasMore, isFetchingMore>> /\ list' = list
      /\ viewScreen = "history" /\ pageNo' = pageNo /\ query # Closed
  BY <1>1 DEF HistoryTurn, HistoryPager, HistoryOpen
<1>3. p \in Nat /\ q \in Queries
  BY <1>1, <1>2 DEF ViewsInv, QuestionTyped
<1>4. QuestionTyped'
  BY <1>2, <1>3, NewQuestionTyped, PageIsNat
<1>5. ListTyped' /\ viewScreen \notin InfiniteScreens
  BY <1>2 DEF ViewsInv, ListTyped, InfiniteScreens
<1> QED BY <1>2, <1>3, <1>4, <1>5, NowFlags, LoadedNow

LEMMA AtOnceAsks ==
  ASSUME ViewsInv, RestoreSent \/ ReportsRefresh
  PROVE  ViewsInv'
<1>1. viewScreen \in {"categories", "reports"}
  BY DEF RestoreSent, CategoriesList, ReportsRefresh, RefreshOffered
<1>2. query \in Queries /\ pageNo = 1
  BY <1>1 DEF ViewsInv, QuestionTyped
<1>3. PICK kind \in {"restore", "replace"} :
        AskIn(load, [kind |-> kind, query |-> query, page |-> 1, late |-> FALSE])
  BY DEF RestoreSent, ReportsRefresh, Replaces
<1>4. PICK c : c = [kind |-> kind, query |-> query, page |-> 1, late |-> FALSE]
  OBVIOUS
<1>5. c \in Asks /\ c.kind = kind /\ c.query = query /\ c.page = 1
  BY <1>2, <1>4, QueryFacts DEF Asks, ViewsInv, QuestionTyped
<1>6. LoadFits(c)
  BY <1>2, <1>5 DEF LoadFits, Belongs, UpToDate
<1>7. /\ AskIn(load, c) /\ UNCHANGED <<viewScreen, query, pageNo>> /\ list' = list
      /\ astray' = astray /\ (due => due') /\ isFetchingMore' = isFetchingMore
  BY <1>3, <1>4 DEF RestoreSent, ReportsRefresh
<1>8. FlagsTyped'
  BY DEF RestoreSent, ReportsRefresh, ViewsInv, FlagsTyped
<1> QED BY <1>5, <1>6, <1>7, <1>8, OneMore

(* The history closes: by hand or over an error.                           *)
LEMMA HistoryShuts ==
  ASSUME ViewsInv, NEW loads, Shut(loads), loads = [l \in Loads |-> loads[l]],
         \A l \in Loads : loads[l] = NoLoad \/ loads[l] = load[l],
         viewScreen = "history", UNCHANGED <<viewScreen, due>>,
         UNCHANGED <<hasMore, isFetchingMore, fetchError>>
  PROVE  ViewsInv'
<1>1. \A l \in Loads : load[l].kind \notin {"more", "silent"}
  BY NoLoadIsFree DEF ViewsInv, LoadsFit, LoadFits, Belongs, InfiniteScreens
<1>2. load' = loads
  BY DEF Shut
<1>3. LoadsFit'
  <2>1. ASSUME NEW l \in Loads, load'[l] # NoLoad PROVE LoadFits(load[l])'
    <3>1. load'[l] = load[l] /\ load[l] \in Asks /\ Belongs(load[l])
      BY <1>2, <2>1 DEF ViewsInv, LoadsFit, LoadFits
    <3>2. Belongs(load[l])'
      BY <3>1, QueriesStay DEF Belongs
    <3> QED BY <1>1, <3>1, <3>2 DEF LoadFits, UpToDate
  <2>2. ASSUME NEW l \in Loads, load'[l] = NoLoad PROVE LoadFits(load[l])'
    BY <2>2 DEF LoadFits
  <2> QED BY <1>2, <2>1, <2>2 DEF LoadsFit
<1>4. ListTyped' /\ list'["rows"] = <<>>
  BY RowsEmptied, Screens DEF Shut, ViewsInv
<1>5. RowsRight'
  BY <1>4, Screens DEF Shut, RowsRight, RowsAllowed, RowsAskedFor, WithOwn, Closed
<1>6. ~isFetchingMore
  BY <1>1 DEF ViewsInv, Spinners
<1>7. Spinners'
  BY <1>6 DEF Spinners, Shut
<1>8. Fetching'
  BY <1>1, <1>2, NoLoadIsFree DEF Fetching
<1>9. QuestionTyped' /\ FlagsTyped'
  BY QueriesStay DEF Shut, ViewsInv, QuestionTyped, FlagsTyped
<1> QED BY <1>3, <1>4, <1>5, <1>7, <1>8, <1>9 DEF ViewsInv, Tended

LEMMA HistoryCloses ==
  ASSUME ViewsInv, HistoryClose
  PROVE  ViewsInv'
<1>1. PICK loads : loads = load
  OBVIOUS
<1>2. /\ Shut(loads) /\ viewScreen = "history" /\ UNCHANGED <<viewScreen, due>>
      /\ UNCHANGED <<hasMore, isFetchingMore, fetchError>>
  BY <1>1 DEF HistoryClose, HistoryOpen
<1>3. /\ loads = [l \in Loads |-> loads[l]]
      /\ \A l \in Loads : loads[l] = NoLoad \/ loads[l] = load[l]
  BY <1>1 DEF ViewsInv, LoadsFit
<1> QED BY <1>2, <1>3, HistoryShuts

LEMMA HistoryAnswers ==
  ASSUME ViewsInv, NEW l \in Loads, HistoryLoaded(l)
  PROVE  ViewsInv'
<1>1. /\ viewScreen = "history" /\ load[l].kind = "replace"
      /\ UNCHANGED <<viewScreen, due>> /\ UNCHANGED <<isFetchingMore, fetchError>>
  BY DEF HistoryLoaded
<1>2. CASE Replaced(l, load[l].page) /\ UNCHANGED query
  <2>1. viewScreen \notin SinglePage /\ fetchError' \in BOOLEAN
    BY <1>1 DEF SinglePage, ViewsInv, FlagsTyped
  <2>2. PICK p \in Nat : p = load[l].page
    BY <1>1, NoLoadIsFree DEF ViewsInv, LoadsFit, LoadFits, Asks
  <2>3. Replaced(l, p)
    BY <1>2, <2>2
  <2> QED BY <1>1, <1>2, <2>1, <2>2, <2>3, ReplacedFits
<1>3. CASE Shut([load EXCEPT ![l] = NoLoad]) /\ UNCHANGED hasMore
  <2>1. PICK loads : loads = [load EXCEPT ![l] = NoLoad]
    OBVIOUS
  <2>2. /\ loads = [m \in Loads |-> loads[m]]
        /\ \A m \in Loads : loads[m] = NoLoad \/ loads[m] = load[m]
    BY <2>1 DEF ViewsInv, LoadsFit
  <2>3. Shut(loads) /\ UNCHANGED <<hasMore, isFetchingMore, fetchError>>
    BY <1>1, <1>3, <2>1
  <2> QED BY <1>1, <2>2, <2>3, HistoryShuts
<1> QED BY <1>2, <1>3 DEF HistoryLoaded

(* Pages that replace what is shown.                                       *)
LEMMA PageEnds ==
  ASSUME ViewsInv, viewScreen \in SinglePage, NEW l \in Loads, NEW instead \in BOOLEAN,
         PageArrives(l) \/ PageFails(l, instead)
  PROVE  ViewsInv'
<1>1. CASE PageArrives(l)
  <2>1. /\ Replaced(l, pageNo) /\ load[l].kind = "replace"
        /\ UNCHANGED <<viewScreen, query, due>> /\ isFetchingMore' = isFetchingMore
    BY <1>1 DEF PageArrives
  <2>2. fetchError' \in BOOLEAN
    BY <1>1 DEF PageArrives, ViewsInv, FlagsTyped
  <2>3. PICK p \in Nat : p = pageNo
    BY PageIsNat
  <2>4. Replaced(l, p)
    BY <2>1, <2>3
  <2> QED BY <2>1, <2>2, <2>3, <2>4, ReplacedFits
<1>2. CASE PageFails(l, instead)
  <2>1. /\ Failed(l) /\ load[l].kind = "replace"
        /\ UNCHANGED <<viewScreen, query, pageNo, due>>
        /\ isFetchingMore' = isFetchingMore /\ list' = list
    BY <1>2 DEF PageFails
  <2>2. fetchError' \in BOOLEAN /\ hasMore' \in BOOLEAN /\ ListTyped'
    BY <1>2 DEF PageFails, ViewsInv, FlagsTyped, ListTyped
  <2> QED BY <2>1, <2>2, FailedFits
<1> QED BY <1>1, <1>2

LEMMA AtOnceAnswers ==
  ASSUME ViewsInv, NEW l \in Loads,
         CategoriesLoaded(l) \/ UsersLoaded(l) \/ ReportsLoaded(l)
  PROVE  ViewsInv'
<1>1. CASE CategoriesLoaded(l) \/ ReportsLoaded(l)
  <2>1. viewScreen \in SinglePage
    BY <1>1 DEF CategoriesLoaded, ReportsLoaded, SinglePage, ViewScreens, InfiniteScreens
  <2> QED BY <1>1, <2>1, PageEnds DEF CategoriesLoaded, ReportsLoaded
<1>2. CASE UsersLoaded(l)
  <2>1. /\ UNCHANGED <<viewScreen, query, due>> /\ viewScreen = "users"
        /\ isFetchingMore' = isFetchingMore /\ load[l].kind = "replace"
        /\ fetchError' = fetchError
    BY <1>2 DEF UsersLoaded
  <2>2. fetchError' \in BOOLEAN
    BY <2>1 DEF ViewsInv, FlagsTyped
  <2>3. CASE Replaced(l, pageNo)
    <3>1. viewScreen \in SinglePage
      BY <2>1 DEF SinglePage, ViewScreens, PagedScreens, InfiniteScreens
    <3>2. PICK p \in Nat : p = pageNo
      BY PageIsNat
    <3>3. Replaced(l, p)
      BY <2>3, <3>2
    <3> QED BY <2>1, <2>2, <3>1, <3>2, <3>3, ReplacedFits
  <2>4. CASE /\ Failed(l) /\ UNCHANGED pageNo
             /\ list' = [list EXCEPT !["rows"] = <<>>] /\ hasMore' = FALSE
    <3>1. ListTyped'
      BY <2>4, RowsEmptied, Screens DEF ViewsInv
    <3>2. OnScreen(l)
      <4>1. load[l].query \in Queries /\ query \in Queries
        BY <2>1, NoLoadIsFree DEF ViewsInv, QuestionTyped, LoadsFit, LoadFits, Belongs
      <4> QED BY <2>1, <4>1, QueryFacts DEF ViewsInv, QuestionTyped, OnScreen
    <3>3. hasMore' \in BOOLEAN
      BY <2>4
    <3> QED BY <2>1, <2>2, <2>4, <3>1, <3>2, <3>3, FailedFits
  <2> QED BY <1>2, <2>3, <2>4 DEF UsersLoaded
<1> QED BY <1>1, <1>2

LEMMA AtOnceStep ==
  ASSUME ViewsInv, AtOnceNext
  PROVE  ViewsInv'
  BY AtOnceQuestions, UsersQuestions, HistoryTurns, AtOnceAsks, HistoryCloses,
     HistoryAnswers, AtOnceAnswers, CategoriesReload, ChangesRefused DEF AtOnceNext
-----------------------------------------------------------------------------
(* The lists with pages.                                                   *)
LEMMA PagedQuestions ==
  ASSUME ViewsInv, NEW q \in Queries, NEW p \in 1..MaxPages,
         ExpensesAsk(q, p) \/ SalesAsk(q, p) \/ ShiftsAsk(q, p) \/ AuditAsk(q, p)
  PROVE  ViewsInv'
<1>1. /\ UNCHANGED <<viewScreen, list, flags, astray>> /\ SetsTimer /\ load' = load
      /\ query' = q /\ pageNo' = p /\ viewScreen \in PagedScreens
  BY DEF ExpensesAsk, SalesAsk, ShiftsAsk, AuditAsk, TurnsOrFilters, NewQuestion,
         PagedScreens
<1>2. p \in Nat /\ viewScreen \notin {"categories", "reports"} \cup InfiniteScreens
  BY <1>1 DEF PagedScreens, InfiniteScreens
<1>3. QuestionTyped'
  BY <1>1, <1>2, NewQuestionTyped
<1>4. ListTyped' /\ FlagsTyped' /\ isFetchingMore' = isFetchingMore
  BY <1>1 DEF ViewsInv, ListTyped, FlagsTyped, flags, SetsTimer
<1> QED BY <1>1, <1>2, <1>3, <1>4, TimerKept

LEMMA ChangesTurns ==
  ASSUME ViewsInv, (\E p \in 1..MaxPages : ChangesTurn(p)) \/ (\E q \in Queries : ChangesLimit(q))
  PROVE  ViewsInv'
<1>1. /\ UNCHANGED <<viewScreen, list, flags, astray>> /\ SetsTimer /\ load' = load
      /\ pageNo' \in Nat /\ viewScreen = "changes" /\ query' \in Queries
  BY DEF ChangesTurn, ChangesLimit, ChangesPager, ViewsInv, QuestionTyped
<1>2. QuestionTyped' /\ viewScreen \notin InfiniteScreens
  BY <1>1, NewQuestionTyped DEF InfiniteScreens
<1>3. ListTyped' /\ FlagsTyped' /\ isFetchingMore' = isFetchingMore
  BY <1>1 DEF ViewsInv, ListTyped, FlagsTyped, flags, SetsTimer
<1> QED BY <1>1, <1>2, <1>3, TimerKept

LEMMA ChangesMounts ==
  ASSUME ViewsInv, NEW q \in Queries, ChangesMount(q)
  PROVE  ViewsInv'
<1>1. QuestionTyped'
  BY NewQuestionTyped DEF ChangesMount
<1>2. ListTyped'
  BY RowsEmptied, Screens DEF ChangesMount, ViewsInv
<1>3. FlagsTyped'
  BY DEF ChangesMount, ViewsInv, FlagsTyped
<1>4. ~isFetchingMore
  <2>1. \A l \in Loads : load[l] # NoLoad => load[l].kind # "more"
    BY DEF ChangesMount, ViewsInv, LoadsFit, LoadFits, Belongs, InfiniteScreens
  <2> QED BY <2>1, NoLoadIsFree DEF ViewsInv, Spinners
<1>5. LoadsFit'
  BY DEF ChangesMount, LoadsFit, LoadFits
<1>6. Spinners' /\ Tended'
  BY <1>4 DEF ChangesMount, Spinners, Tended
<1>7. Fetching'
  BY NoLoadIsFree DEF ChangesMount, Fetching
<1> QED BY <1>1, <1>2, <1>3, <1>5, <1>6, <1>7 DEF ViewsInv

LEMMA PagedLoads ==
  ASSUME ViewsInv,
         ExpensesLoad \/ SalesLoad \/ ShiftsLoad \/ AuditLoad \/ ChangesLoad
  PROVE  ViewsInv'
<1>1. TimerLoads(pageNo) /\ viewScreen \in PagedScreens
  BY DEF ExpensesLoad, SalesLoad, ShiftsLoad, AuditLoad, ChangesLoad, PagedScreens
<1>2. viewScreen # "history"
      /\ viewScreen \notin InfiniteScreens \cup {"categories", "reports"}
  BY <1>1 DEF PagedScreens, InfiniteScreens
<1>3. PICK p \in Nat : p = pageNo
  BY PageIsNat
<1> QED BY <1>1, <1>2, <1>3, TimerFires

LEMMA PagedRetries ==
  ASSUME ViewsInv, ShiftsRetry \/ AuditRetry \/ ChangesRetry
  PROVE  ViewsInv'
<1>1. CASE ShiftsRetry
  <2>1. query \in Queries /\ pageNo \in Nat
    BY <1>1 DEF ShiftsRetry, ViewsInv, QuestionTyped
  <2>2. PICK c : c = Replaces(query, pageNo)
    OBVIOUS
  <2>3. c \in Asks /\ c.kind = "replace" /\ c.query = query /\ c.page = pageNo
    BY <2>1, <2>2, QueryFacts DEF Replaces, Asks, ViewsInv, QuestionTyped
  <2>4. LoadFits(c)
    BY <1>1, <2>1, <2>3 DEF LoadFits, Belongs, UpToDate, ShiftsRetry, InfiniteScreens
  <2>5. /\ AskIn(load, c) /\ UNCHANGED <<viewScreen, query, pageNo>> /\ list' = list
        /\ astray' = astray /\ isFetchingMore' = isFetchingMore
    BY <1>1, <2>2 DEF ShiftsRetry
  <2>6. FlagsTyped'
    BY <1>1 DEF ShiftsRetry, ViewsInv, FlagsTyped
  <2> QED BY <2>1, <2>3, <2>4, <2>5, <2>6, OneMore
<1>2. CASE AuditRetry \/ ChangesRetry
  <2>1. /\ UNCHANGED <<viewScreen, query, pageNo, list, flags, load, astray>>
        /\ due' = TRUE
    BY <1>2 DEF AuditRetry, ChangesRetry
  <2>2. QuestionTyped' /\ ListTyped' /\ FlagsTyped' /\ isFetchingMore' = isFetchingMore
    BY <2>1, QueriesStay DEF ViewsInv, QuestionTyped, ListTyped, FlagsTyped, flags
  <2> QED BY <2>1, <2>2, TimerKept DEF SetsTimer
<1> QED BY <1>1, <1>2

LEMMA PagedAnswers ==
  ASSUME ViewsInv, NEW l \in Loads,
         \/ ExpensesLoaded(l) \/ SalesLoaded(l) \/ ShiftsLoaded(l)
         \/ AuditLoaded(l) \/ ChangesLoaded(l)
  PROVE  ViewsInv'
<1>1. /\ viewScreen \in PagedScreens
      /\ \E instead \in BOOLEAN : PageArrives(l) \/ PageFails(l, instead)
  BY DEF ExpensesLoaded, SalesLoaded, ShiftsLoaded, AuditLoaded, ChangesLoaded,
         PagedScreens
<1>2. viewScreen \in SinglePage
  BY <1>1 DEF PagedScreens, SinglePage, ViewScreens, InfiniteScreens
<1> QED BY <1>1, <1>2, PageEnds

LEMMA PagedStep ==
  ASSUME ViewsInv, PagedNext
  PROVE  ViewsInv'
  BY PagedQuestions, ChangesTurns, ChangesMounts, PagedLoads, PagedRetries,
     PagedAnswers, ChangesPutIn DEF PagedNext
-----------------------------------------------------------------------------
LEMMA ViewsStart == ViewsInit => ViewsInv
<1> SUFFICES ASSUME ViewsInit PROVE ViewsInv
  OBVIOUS
<1>1. QuestionTyped
  <2>1. viewScreen \in ViewScreens /\ pageNo = 1
    BY DEF ViewsInit
  <2>2. query \in IF viewScreen \in StartsClosed THEN {Closed} ELSE Queries
    BY DEF ViewsInit
  <2>3. query \in Queries \cup {Closed} /\ (query = Closed => viewScreen = "history")
    BY <2>2, Screens DEF StartsClosed
  <2> QED BY <2>1, <2>3 DEF QuestionTyped
<1>2. FlagsTyped
  BY DEF ViewsInit, FlagsTyped
<1>3. ListTyped
  BY DEF ViewsInit, ListTyped
<1>4. PICK first \in Loads :
        load = [l \in Loads |-> IF l = first /\ viewScreen \in StartsAtOnce
                                THEN Replaces(query, 1) ELSE NoLoad]
  BY DEF ViewsInit
<1>5. viewScreen \in StartsAtOnce => query \in Queries
  BY DEF ViewsInit, StartsAtOnce, StartsClosed
<1>6. viewScreen \in StartsAtOnce => Replaces(query, 1) \in Asks
  BY <1>1, <1>5, QueryFacts DEF QuestionTyped, Replaces, Asks
<1>7. LoadsFit
  <2>1. ASSUME NEW l \in Loads PROVE LoadFits(load[l])
    BY <1>4, <1>5, <1>6, <2>1 DEF LoadFits, Belongs, UpToDate, Replaces
  <2>2. load = [l \in Loads |-> load[l]]
    BY <1>4
  <2> QED BY <2>1, <2>2 DEF LoadsFit
<1>8. Fetching
  BY <1>4, NoLoadIsFree DEF Fetching, Replaces
<1>9. CASE viewScreen \in StartsAtOnce
  <2>1. load[first].kind = "replace" /\ OnScreen(first)
    BY <1>1, <1>4, <1>5, <1>9, QueryFacts DEF QuestionTyped, OnScreen, Replaces
  <2> QED BY <1>1, <1>2, <1>3, <1>7, <1>8, <2>1
          DEF ViewsInv, Spinners, Tended, Mending, ViewsInit
<1>10. CASE viewScreen \in StartsClosed
  <2>1. query = Closed /\ isLoading = FALSE /\ isFetchingMore = FALSE
    BY <1>10 DEF ViewsInit
  <2>2. RowsRight
    BY <2>1, Screens DEF RowsRight, RowsAllowed, RowsAskedFor, WithOwn, ViewsInit, Closed
  <2> QED BY <1>1, <1>2, <1>3, <1>7, <1>8, <2>1, <2>2 DEF ViewsInv, Spinners, Tended
<1>11. CASE viewScreen \notin StartsAtOnce \cup StartsClosed
  <2>1. due = TRUE /\ isFetchingMore = FALSE
    BY <1>11 DEF ViewsInit
  <2> QED BY <1>1, <1>2, <1>3, <1>7, <1>8, <2>1 DEF ViewsInv, Spinners, Tended
<1> QED BY <1>9, <1>10, <1>11

LEMMA ViewsStep ==
  ASSUME ViewsInv, [ViewsNext]_viewVars
  PROVE  ViewsInv'
<1>1. CASE UNCHANGED viewVars
  <2>1. UNCHANGED <<viewScreen, query, pageNo, list, flags, due, load, astray>>
    BY <1>1 DEF viewVars
  <2>2. QuestionTyped' /\ ListTyped' /\ FlagsTyped'
    BY <2>1, QueriesStay DEF ViewsInv, QuestionTyped, ListTyped, FlagsTyped, flags
  <2>3. LoadsFit'
    BY <2>1, QueriesStay DEF ViewsInv, LoadsFit, LoadFits, Belongs, UpToDate
  <2>4. Spinners' /\ Fetching'
    BY <2>1 DEF ViewsInv, Spinners, Fetching, flags
  <2>5. Tended'
    BY <2>1 DEF ViewsInv, Tended, RowsRight, RowsAllowed, RowsAskedFor, Mending, OnScreen
  <2> QED BY <2>2, <2>3, <2>4, <2>5 DEF ViewsInv
<1> QED BY <1>1, InfiniteStep, AtOnceStep, PagedStep DEF ViewsNext

(* Once nothing is under way no spinner turns, and the rows are the ones   *)
(* asked for, for any filters, number of loads and pages, and in whatever  *)
(* order changes of the question, of the number of pages and of the data,  *)
(* reloads, polls and answers come: unless the last answer was not in time *)
(* (InTime) or a load has failed since, and but for own changes put in     *)
(* since the load (WithOwn).                                               *)
THEOREM ListsSettleRight == ViewsSpec => []SettledViewIsRight
<1>1. ViewsInv => SettledViewIsRight
  <2> SUFFICES ASSUME ViewsInv, Settled
               PROVE  /\ ~isLoading /\ ~isFetchingMore
                      /\ ~astray => \A f \in FieldsOf(query.tab) : list[f] \in RowsAllowed
    BY DEF SettledViewIsRight
  <2>1. ~due /\ \A l \in Loads : load[l].kind = "none"
    BY DEF Settled, Free
  <2> QED BY <2>1 DEF ViewsInv, Spinners, Tended, RowsRight, Mending
<1>2. ViewsInv /\ [ViewsNext]_viewVars => ViewsInv'
  BY ViewsStep
<1> QED BY ViewsStart, <1>1, <1>2, PTL DEF ViewsSpec
=============================================================================
