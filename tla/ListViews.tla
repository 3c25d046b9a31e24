------------------------------- MODULE ListViews -------------------------------
(***************************************************************************)
(* The lists of the back-office screens and how they are kept: filters and *)
(* pages decide what is asked, answers replace or extend what is shown.    *)
(* No request carries a number: an answer that arrives after the question  *)
(* has changed is shown like any other, except where the list is mounted   *)
(* anew (changes). A load is asked at once (categories, users, reports) or *)
(* by a timer of 0 ms that the next change of the question cancels. What   *)
(* the employee changes himself is reloaded (products, inventory,          *)
(* categories) or put into the rows as they stand (users, expenses, sales, *)
(* and products until the reload comes).                                   *)
(*                                                                         *)
(* A chunk of rows stands for the page it was asked as, with the filters   *)
(* it was asked for: the view (active or archived), the search text after  *)
(* its 300 ms, the category, the dates, the order, the rows per page. Of   *)
(* the employee's own changes it tells whether it was asked for after the  *)
(* last of them (loaded), has had one put in since (edited), or was asked  *)
(* for before one was accepted and may lack it (late). What others change  *)
(* meanwhile is not told.                                                  *)
(***************************************************************************)
EXTENDS Naturals, Sequences, FiniteSets

CONSTANTS
  Filters,     \* what the filters of a screen may be set to
  ReportTabs,  \* the tabs of the reports screen
  Loads,       \* loads that may be under way at once
  MaxPages     \* bound: pages of a list

AllReports == {"overview", "sales", "top-sellers", "inventory", "cash",
               "employees", "categories"}

ASSUME ViewsAssumption ==
  /\ Filters # {} /\ "closed" \notin Filters /\ MaxPages \in Nat \ {0}
  /\ ReportTabs # {} /\ ReportTabs \subseteq AllReports

InfiniteScreens == {"products", "inventory"}
PagedScreens    == {"users", "expenses", "sales", "shifts", "audit", "changes"}
ViewScreens     ==
  InfiniteScreens \cup PagedScreens \cup {"categories", "reports", "history"}

VARIABLES
  viewScreen,      \* the screen the employee is on
  query,           \* tab and filters as the screen shows them
  pageNo,          \* page
  list,            \* the rows shown, per piece of state that holds rows
  hasMore, isLoading, isFetchingMore, fetchError,
  due,             \* a timer is set that will load
  load,            \* loads and changes under way
  astray           \* history: the last answer put on the screen was not in time
                   \* (InTime), or a load has failed since

flags    == <<hasMore, isLoading, isFetchingMore, fetchError>>
viewVars == <<viewScreen, query, pageNo, list, flags, due, load, astray>>
-----------------------------------------------------------------------------
(* The pieces of state a tab shows: of the reports, the overview shares    *)
(* two with other tabs.                                                    *)
TabsOf(screen) ==
  CASE screen = "categories" -> {"product", "expense"}
    [] screen = "reports"    -> ReportTabs
    [] OTHER                 -> {"rows"}
FieldsOf(tab) == IF tab = "overview" THEN {"sales", "top-sellers"} ELSE {tab}
Queries       == [tab : TabsOf(viewScreen), filter : Filters]
Closed        == [tab |-> "rows", filter |-> "closed"]
AllFields     == {"rows", "product", "expense"} \cup AllReports

Chunk(q, p)   == [query |-> q, page |-> p, own |-> "loaded"]
PagesTo(q, n) == [p \in 1..n |-> Chunk(q, p)]
Showing(q, chunks) ==
  [f \in AllFields |-> IF f \in FieldsOf(q.tab) THEN chunks ELSE list[f]]
Shown == list[CHOOSE f \in FieldsOf(query.tab) : TRUE]

NoLoad  == [kind |-> "none"]
Free(l) == load[l].kind = "none"
Replaces(q, p) == [kind |-> "replace", query |-> q, page |-> p, late |-> FALSE]

AskIn(loads, asked) ==
  \E l \in Loads : Free(l) /\ load' = [loads EXCEPT ![l] = asked]
Dropped(l) == load' = [load EXCEPT ![l] = NoLoad]

(* An answer is in time if the question is still the one it was asked with *)
(* and it is not late: asked before the employee's last change was         *)
(* accepted, or, of an infinite list, with another number of pages.        *)
OnScreen(l) == FieldsOf(load[l].query.tab) \cap FieldsOf(query.tab) # {}
InTime(l) ==
  /\ load[l].query = query /\ ~load[l].late
  /\ viewScreen \in PagedScreens => load[l].page = pageNo
RowsOf(c, p) ==
  [Chunk(c.query, p) EXCEPT !.own = IF c.late THEN "late" ELSE @]

(* The list has come to p pages: polls for another number are late, and if *)
(* it begins anew also a page that is not the next.                        *)
Recounted(p, anew) ==
  [m \in Loads |->
     IF \/ load[m].kind = "silent" /\ load[m].page # p
        \/ load[m].kind = "more" /\ anew /\ load[m].page # p + 1
     THEN [load[m] EXCEPT !.late = TRUE] ELSE load[m]]
-----------------------------------------------------------------------------
StartsAtOnce == {"categories", "users", "reports"}
StartsClosed == {"history"}

ViewsInit ==
  /\ viewScreen \in ViewScreens /\ pageNo = 1
  /\ query \in IF viewScreen \in StartsClosed THEN {Closed} ELSE Queries
  /\ list = [f \in AllFields |-> <<>>]
  /\ hasMore = TRUE /\ isLoading = (query # Closed) /\ isFetchingMore = FALSE
  /\ fetchError = FALSE /\ astray = FALSE
  /\ due = (viewScreen \notin StartsAtOnce \cup StartsClosed)
  /\ \E first \in Loads :
       load = [l \in Loads |-> IF l = first /\ viewScreen \in StartsAtOnce
                               THEN Replaces(query, 1) ELSE NoLoad]
-----------------------------------------------------------------------------
(* Asking. A new question and the timer or the load that goes with it.     *)
NewQuestion(q, p) == <<q, p>> # <<query, pageNo>> /\ query' = q /\ pageNo' = p
SetsTimer == due' = TRUE
LoadsNow(q, p) ==
  /\ AskIn(load, Replaces(q, p))
  /\ isLoading' = TRUE /\ fetchError' = FALSE /\ UNCHANGED due

TimerLoads(p) ==
  /\ due /\ due' = FALSE
  /\ AskIn(load, Replaces(query, p))
  /\ isLoading' = TRUE /\ fetchError' = FALSE
  /\ UNCHANGED <<viewScreen, query, pageNo, list, hasMore, isFetchingMore, astray>>

(* A list shows no rows, and no pager below them, while it is loading.     *)
RowsShown    == ~isLoading /\ Shown # <<>>
PagesOffered == {p \in {pageNo - 1, pageNo + 1} :
                   p \in 1..MaxPages /\ (p > pageNo => hasMore)}

(* The end of a load, which leaves the screen at page p: of the rows asked *)
(* for nothing is kept on an error.                                        *)
Replaced(l, p) ==
  /\ list' = Showing(load[l].query, <<RowsOf(load[l], load[l].page)>>)
  /\ pageNo' = p /\ hasMore' \in BOOLEAN /\ isLoading' = FALSE
  /\ load' = [Recounted(p, TRUE) EXCEPT ![l] = NoLoad]
  /\ astray' = IF OnScreen(l) THEN ~InTime(l) ELSE astray
Failed(l) ==
  /\ isLoading' = FALSE /\ Dropped(l) /\ astray' = (astray \/ OnScreen(l))
PageArrives(l) ==
  /\ load[l].kind = "replace" /\ Replaced(l, pageNo)
  /\ UNCHANGED <<viewScreen, query, isFetchingMore, fetchError, due>>
(* An error is shown above the rows, or (instead) in their place.          *)
PageFails(l, instead) ==
  /\ load[l].kind = "replace" /\ Failed(l)
  /\ fetchError' = instead
  /\ UNCHANGED <<viewScreen, query, pageNo, list, hasMore, isFetchingMore, due>>
-----------------------------------------------------------------------------
(* Products: a new question empties the list, then the timer loads page 1; *)
(* further pages are appended as the end of the list comes into view.      *)
ProductsFilter(q) ==
  /\ viewScreen = "products" /\ q # query
  /\ query' = q /\ pageNo' = 1 /\ hasMore' = TRUE
  /\ list' = [list EXCEPT !["rows"] = <<>>]
  /\ SetsTimer /\ load' = Recounted(1, TRUE)
  /\ UNCHANGED <<viewScreen, isLoading, isFetchingMore, fetchError, astray>>
ProductsLoad == viewScreen = "products" /\ TimerLoads(1)

(* Mutant: also while a further page is under way.                         *)
MoreAnyTime == hasMore /\ ~isLoading /\ pageNo < MaxPages
MoreWanted  == hasMore /\ ~isLoading /\ ~isFetchingMore /\ pageNo < MaxPages
AsksMore ==
  /\ MoreWanted
  /\ AskIn(load, [kind |-> "more", query |-> query, page |-> pageNo + 1,
                  late |-> FALSE])
  /\ isFetchingMore' = TRUE
  /\ UNCHANGED <<viewScreen, query, pageNo, list, hasMore, isLoading, fetchError,
                 due, astray>>
ProductsList == viewScreen = "products" /\ Shown # <<>>
ProductsMore == ProductsList /\ AsksMore

(* A page or an error has arrived, of products or of inventory.            *)
Appended(l) ==
  LET c == load[l] IN
  /\ c.kind = "more"
  /\ \/ /\ list' = [list EXCEPT !["rows"] = Append(@, RowsOf(c, c.page))]
        /\ pageNo' = c.page /\ hasMore' \in BOOLEAN
        /\ load' = [Recounted(c.page, FALSE) EXCEPT ![l] = NoLoad]
        /\ astray' = (astray \/ ~InTime(l))
     \/ /\ Dropped(l) /\ UNCHANGED <<list, pageNo, hasMore, astray>>
  /\ isFetchingMore' = FALSE /\ UNCHANGED isLoading
FirstPage(l) ==
  /\ load[l].kind = "replace"
  /\ \/ Replaced(l, load[l].page)
     \/ Failed(l) /\ UNCHANGED <<list, pageNo, hasMore>>
  /\ UNCHANGED isFetchingMore
ProductsLoaded(l) ==
  /\ viewScreen = "products" /\ (FirstPage(l) \/ Appended(l))
  /\ UNCHANGED <<viewScreen, query, fetchError, due>>

(* Inventory: a new question leaves the rows until the answer; every five  *)
(* seconds the pages loaded so far are asked for again in one request,     *)
(* without a spinner. How many they are is read from a state update that   *)
(* may run after the request has been made, so it may be too few.          *)
InventoryFilter(q) ==
  /\ viewScreen = "inventory" /\ q # query
  /\ query' = q /\ SetsTimer
  /\ UNCHANGED <<viewScreen, pageNo, list, flags, load, astray>>
InventoryLoad == viewScreen = "inventory" /\ TimerLoads(1)
InventoryMore == viewScreen = "inventory" /\ AsksMore
InventoryPoll ==
  /\ viewScreen = "inventory" /\ ~due
  /\ \E n \in 1..pageNo :
       AskIn(load, [kind |-> "silent", query |-> query, page |-> n,
                    late |-> n # pageNo])
  /\ UNCHANGED <<viewScreen, query, pageNo, list, flags, due, astray>>
Refreshed(l) ==
  LET c == load[l] IN
  /\ c.kind = "silent"
  /\ \/ /\ list' = [list EXCEPT !["rows"] = [p \in 1..c.page |-> RowsOf(c, p)]]
        /\ hasMore' \in BOOLEAN /\ Dropped(l) /\ astray' = ~InTime(l)
     \/ Dropped(l) /\ UNCHANGED <<list, hasMore, astray>>
  /\ UNCHANGED <<pageNo, isLoading, isFetchingMore>>
InventoryLoaded(l) ==
  /\ viewScreen = "inventory" /\ (FirstPage(l) \/ Appended(l) \/ Refreshed(l))
  /\ UNCHANGED <<viewScreen, query, fetchError, due>>
-----------------------------------------------------------------------------
(* A change of the employee's own under way (RecordForms): of a sale only  *)
(* where one has been shown. When it is accepted, loads of the same rows   *)
(* that are under way were asked for before.                               *)
Reloaders     == {"products", "inventory", "categories"}
EditedInPlace == {"users", "expenses", "sales"}
ChangeSent ==
  /\ viewScreen \in Reloaders \cup EditedInPlace
  /\ viewScreen = "sales" => Shown # <<>>
  /\ AskIn(load, [kind |-> "change", query |-> query, page |-> 1, late |-> FALSE])
  /\ UNCHANGED <<viewScreen, query, pageNo, list, flags, due, astray>>
Outdated(l) ==
  [m \in Loads |->
     IF /\ load[m].kind \in {"replace", "more", "silent"}
        /\ load[m].query.tab = load[l].query.tab
     THEN [load[m] EXCEPT !.late = TRUE] ELSE load[m]]

(* It is put into the rows where they stand, whatever filters and page     *)
(* they are of: a row changed, taken out, or added (also to an empty list),*)
(* or none if it is not among them.                                        *)
OwnRow       == [query |-> Closed, page |-> 0, own |-> "edited"]
WithOwn(rows) == {rows} \cup {[rows EXCEPT ![i].own = "edited"] : i \in DOMAIN rows}
PutIn(rows)   == WithOwn(rows) \cup (IF rows = <<>> THEN {<<OwnRow>>} ELSE {})
Edited(l, edits) ==
  /\ load[l].kind = "change" /\ load' = [Outdated(l) EXCEPT ![l] = NoLoad]
  /\ \E rows \in edits : list' = [list EXCEPT !["rows"] = rows]
  /\ UNCHANGED <<viewScreen, query, pageNo, flags, due, astray>>
UsersChanged(l)    == viewScreen = "users" /\ Edited(l, PutIn(list["rows"]))
ExpensesChanged(l) == viewScreen = "expenses" /\ Edited(l, PutIn(list["rows"]))
SalesChanged(l)    == viewScreen = "sales" /\ Edited(l, WithOwn(list["rows"]))

(* Or the list is reloaded, with the filters of the moment it was sent.    *)
Reloading(l) == [Outdated(l) EXCEPT ![l] = Replaces(load[l].query, 1)]
ProductsChanged(l) ==
  /\ viewScreen = "products" /\ load[l].kind = "change"
  /\ \E rows \in PutIn(list["rows"]) : list' = [list EXCEPT !["rows"] = rows]
  /\ load' = Reloading(l) /\ isLoading' = TRUE
  /\ UNCHANGED <<viewScreen, query, pageNo, hasMore, isFetchingMore, fetchError,
                 due, astray>>
InventoryChanged(l) ==
  /\ viewScreen = "inventory" /\ load[l].kind = "change"
  /\ load' = Reloading(l) /\ isLoading' = TRUE
  /\ list' = [list EXCEPT !["rows"] = <<>>] /\ pageNo' = 1 /\ hasMore' = TRUE
  /\ UNCHANGED <<viewScreen, query, isFetchingMore, fetchError, due, astray>>
ChangeRefused(l) ==
  /\ load[l].kind = "change" /\ Dropped(l)
  /\ UNCHANGED <<viewScreen, query, pageNo, list, flags, due, astray>>

(* Categories: restoring shows the spinner itself, from click to reload.   *)
CategoriesFilter(q) ==
  /\ viewScreen = "categories" /\ q # query
  /\ query' = q /\ list' = [list EXCEPT ![q.tab] = <<>>]
  /\ LoadsNow(q, 1)
  /\ UNCHANGED <<viewScreen, pageNo, hasMore, isFetchingMore, astray>>
CategoriesLoaded(l) ==
  /\ viewScreen = "categories" /\ (PageArrives(l) \/ PageFails(l, FALSE))
CategoriesChanged(l) ==
  /\ viewScreen = "categories" /\ load[l].kind \in {"change", "restore"}
  /\ list' = [list EXCEPT ![load[l].query.tab] =
                [i \in DOMAIN @ |-> [@[i] EXCEPT !.own = "late"]]]
  /\ load' = Reloading(l) /\ isLoading' = TRUE
  /\ UNCHANGED <<viewScreen, query, pageNo, hasMore, isFetchingMore, fetchError,
                 due, astray>>
CategoriesList == viewScreen = "categories" /\ RowsShown
RestoreSent ==
  /\ CategoriesList
  /\ AskIn(load, [kind |-> "restore", query |-> query, page |-> 1, late |-> FALSE])
  /\ isLoading' = TRUE
  /\ UNCHANGED <<viewScreen, query, pageNo, list, hasMore, isFetchingMore,
                 fetchError, due, astray>>
RestoreRefused(l) ==
  /\ load[l].kind = "restore" /\ Dropped(l) /\ isLoading' = FALSE
  /\ UNCHANGED <<viewScreen, query, pageNo, list, hasMore, isFetchingMore,
                 fetchError, due, astray>>
-----------------------------------------------------------------------------
(* Users load at once, and an error empties the list.                      *)
UsersPager == viewScreen = "users" /\ RowsShown
UsersAsk(q, p) ==
  /\ viewScreen = "users" /\ NewQuestion(q, p)
  /\ \/ q # query /\ p = 1
     \/ q = query /\ UsersPager /\ p \in PagesOffered
  /\ LoadsNow(q, p)
  /\ UNCHANGED <<viewScreen, list, hasMore, isFetchingMore, astray>>
UsersLoaded(l) ==
  /\ viewScreen = "users" /\ load[l].kind = "replace"
  /\ \/ Replaced(l, pageNo)
     \/ /\ Failed(l) /\ UNCHANGED pageNo
        /\ list' = [list EXCEPT !["rows"] = <<>>] /\ hasMore' = FALSE
  /\ UNCHANGED <<viewScreen, query, isFetchingMore, fetchError, due>>

(* The other pages load by timer: a filter goes back to page 1, the pager  *)
(* turns one page.                                                         *)
TurnsOrFilters(q, p, pager) ==
  /\ NewQuestion(q, p)
  /\ \/ q # query /\ p = 1
     \/ q = query /\ pager /\ p \in PagesOffered
ExpensesPager == viewScreen = "expenses" /\ RowsShown
ExpensesAsk(q, p) ==
  /\ viewScreen = "expenses" /\ TurnsOrFilters(q, p, ExpensesPager) /\ SetsTimer
  /\ UNCHANGED <<viewScreen, list, flags, load, astray>>
ExpensesLoad      == viewScreen = "expenses" /\ TimerLoads(pageNo)
ExpensesLoaded(l) == viewScreen = "expenses" /\ (PageArrives(l) \/ PageFails(l, FALSE))

(* Typing in the search box already goes back to page 1; the text counts   *)
(* 300 ms later.                                                           *)
SalesPager == viewScreen = "sales" /\ RowsShown
SalesAsk(q, p) ==
  /\ viewScreen = "sales"
  /\ \/ TurnsOrFilters(q, p, SalesPager)
     \/ q = query /\ p = 1 /\ NewQuestion(q, p)
  /\ SetsTimer
  /\ UNCHANGED <<viewScreen, list, flags, load, astray>>
SalesLoad      == viewScreen = "sales" /\ TimerLoads(pageNo)
SalesLoaded(l) == viewScreen = "sales" /\ (PageArrives(l) \/ PageFails(l, FALSE))

(* Shifts and audit show an error in place of the rows, with a Retry.      *)
ShiftsPager == viewScreen = "shifts" /\ RowsShown /\ ~fetchError
ShiftsAsk(q, p) ==
  /\ viewScreen = "shifts" /\ TurnsOrFilters(q, p, ShiftsPager) /\ SetsTimer
  /\ UNCHANGED <<viewScreen, list, flags, load, astray>>
ShiftsLoad == viewScreen = "shifts" /\ TimerLoads(pageNo)
ShiftsRetry ==
  /\ viewScreen = "shifts" /\ ~isLoading /\ fetchError
  /\ AskIn(load, Replaces(query, pageNo))
  /\ isLoading' = TRUE /\ fetchError' = FALSE
  /\ UNCHANGED <<viewScreen, query, pageNo, list, hasMore, isFetchingMore, due, astray>>
ShiftsLoaded(l) == viewScreen = "shifts" /\ (PageArrives(l) \/ PageFails(l, TRUE))

AuditPager == viewScreen = "audit" /\ RowsShown /\ ~fetchError
AuditAsk(q, p) ==
  /\ viewScreen = "audit" /\ TurnsOrFilters(q, p, AuditPager) /\ SetsTimer
  /\ UNCHANGED <<viewScreen, list, flags, load, astray>>
AuditLoad == viewScreen = "audit" /\ TimerLoads(pageNo)
AuditRetry ==
  /\ viewScreen = "audit" /\ ~isLoading /\ fetchError /\ due' = TRUE
  /\ UNCHANGED <<viewScreen, query, pageNo, list, flags, load, astray>>
AuditLoaded(l) == viewScreen = "audit" /\ (PageArrives(l) \/ PageFails(l, TRUE))

(* A filter or tab of the changes screen mounts a new list: nothing of the *)
(* old one's loads reaches it.                                             *)
ChangesMount(q) ==
  /\ viewScreen = "changes" /\ q # query
  /\ query' = q /\ pageNo' = 1 /\ list' = [list EXCEPT !["rows"] = <<>>]
  /\ hasMore' = TRUE /\ isLoading' = TRUE /\ fetchError' = FALSE
  /\ due' = TRUE /\ load' = [l \in Loads |-> NoLoad] /\ astray' = FALSE
  /\ UNCHANGED <<viewScreen, isFetchingMore>>
ChangesPager == viewScreen = "changes" /\ RowsShown /\ ~fetchError
ChangesTurn(p) ==
  /\ ChangesPager /\ p \in PagesOffered
  /\ pageNo' = p /\ SetsTimer
  /\ UNCHANGED <<viewScreen, query, list, flags, load, astray>>
(* The rows per page, by contrast, are the list's own.                     *)
ChangesLimit(q) ==
  /\ ChangesPager /\ q # query
  /\ query' = q /\ pageNo' = 1 /\ SetsTimer
  /\ UNCHANGED <<viewScreen, list, flags, load, astray>>
ChangesLoad == viewScreen = "changes" /\ TimerLoads(pageNo)
ChangesRetry ==
  /\ viewScreen = "changes" /\ ~isLoading /\ fetchError /\ due' = TRUE
  /\ UNCHANGED <<viewScreen, query, pageNo, list, flags, load, astray>>
ChangesLoaded(l) == viewScreen = "changes" /\ (PageArrives(l) \/ PageFails(l, TRUE))

(* Reports load the tab shown, at once; of an overview with one failing    *)
(* part nothing is kept.                                                   *)
ReportsAsk(q) ==
  /\ viewScreen = "reports" /\ q # query
  /\ query' = q /\ LoadsNow(q, 1)
  /\ UNCHANGED <<viewScreen, pageNo, list, hasMore, isFetchingMore, astray>>
RefreshOffered == viewScreen = "reports" /\ ~isLoading
ReportsRefresh ==
  /\ RefreshOffered /\ AskIn(load, Replaces(query, 1))
  /\ isLoading' = TRUE
  /\ UNCHANGED <<viewScreen, query, pageNo, list, hasMore, isFetchingMore,
                 fetchError, due, astray>>
ReportsLoaded(l) == viewScreen = "reports" /\ (PageArrives(l) \/ PageFails(l, FALSE))

(* The stock history of a product, in a drawer over the inventory: a       *)
(* question is the product and the filters. The page turns as the answer   *)
(* arrives; an error, also a late one, closes whatever history is open.    *)
HistoryOpen == viewScreen = "history" /\ query # Closed
Shut(loads) ==
  /\ query' = Closed /\ pageNo' = 1 /\ list' = [list EXCEPT !["rows"] = <<>>]
  /\ isLoading' = FALSE /\ load' = loads /\ astray' = FALSE

openHistoryDrawer(q) ==
  /\ viewScreen = "history" /\ query = Closed
  /\ query' = q /\ LoadsNow(q, 1)
  /\ list' = [list EXCEPT !["rows"] = <<>>] /\ pageNo' = 1
  /\ UNCHANGED <<viewScreen, hasMore, isFetchingMore, astray>>
HistoryFilter(q) ==
  /\ HistoryOpen /\ q # query
  /\ query' = q /\ LoadsNow(q, 1)
  /\ UNCHANGED <<viewScreen, pageNo, list, hasMore, isFetchingMore, astray>>
HistoryPager == HistoryOpen /\ RowsShown
HistoryTurn(p) ==
  /\ HistoryPager /\ p \in PagesOffered
  /\ LoadsNow(query, p)
  /\ UNCHANGED <<viewScreen, query, pageNo, list, hasMore, isFetchingMore, astray>>
HistoryClose ==
  /\ HistoryOpen /\ Shut(load)
  /\ UNCHANGED <<viewScreen, hasMore, isFetchingMore, fetchError, due>>
HistoryLoaded(l) ==
  /\ viewScreen = "history" /\ load[l].kind = "replace"
  /\ \/ Replaced(l, load[l].page) /\ UNCHANGED query
     \/ Shut([load EXCEPT ![l] = NoLoad]) /\ UNCHANGED hasMore
  /\ UNCHANGED <<viewScreen, isFetchingMore, fetchError, due>>
-----------------------------------------------------------------------------
InfiniteNext ==
  \/ \E q \in Queries : ProductsFilter(q) \/ InventoryFilter(q)
  \/ ProductsLoad \/ ProductsMore \/ InventoryLoad \/ InventoryMore \/ InventoryPoll
  \/ ChangeSent
  \/ \E l \in Loads :
       \/ ProductsLoaded(l) \/ InventoryLoaded(l)
       \/ ProductsChanged(l) \/ InventoryChanged(l) \/ ChangeRefused(l)

AtOnceNext ==
  \/ \E q \in Queries :
       \/ CategoriesFilter(q) \/ ReportsAsk(q)
       \/ openHistoryDrawer(q) \/ HistoryFilter(q)
  \/ \E q \in Queries : \E p \in 1..MaxPages : UsersAsk(q, p)
  \/ RestoreSent \/ ReportsRefresh
  \/ HistoryClose \/ \E p \in 1..MaxPages : HistoryTurn(p)
  \/ \E l \in Loads :
       \/ CategoriesLoaded(l) \/ CategoriesChanged(l)
       \/ RestoreRefused(l)
       \/ UsersLoaded(l) \/ ReportsLoaded(l) \/ HistoryLoaded(l)

PagedNext ==
  \/ \E q \in Queries : \E p \in 1..MaxPages :
       ExpensesAsk(q, p) \/ SalesAsk(q, p) \/ ShiftsAsk(q, p) \/ AuditAsk(q, p)
  \/ \E q \in Queries : ChangesMount(q) \/ ChangesLimit(q)
  \/ \E p \in 1..MaxPages : ChangesTurn(p)
  \/ ExpensesLoad \/ SalesLoad \/ ShiftsLoad \/ AuditLoad \/ ChangesLoad
  \/ ShiftsRetry \/ AuditRetry \/ ChangesRetry
  \/ \E l \in Loads :
       \/ ExpensesLoaded(l) \/ SalesLoaded(l) \/ ShiftsLoaded(l)
       \/ AuditLoaded(l) \/ ChangesLoaded(l)
       \/ UsersChanged(l) \/ ExpensesChanged(l) \/ SalesChanged(l)

ViewsNext == InfiniteNext \/ AtOnceNext \/ PagedNext
ViewsSpec == ViewsInit /\ [][ViewsNext]_viewVars
-----------------------------------------------------------------------------
(* The rows the screen asks for: of an infinite list, all pages so far.    *)
RowsAskedFor ==
  IF query = Closed THEN <<>>
  ELSE IF viewScreen \in InfiniteScreens THEN PagesTo(query, pageNo)
  ELSE <<Chunk(query, pageNo)>>
RowsAllowed ==
  IF viewScreen \in EditedInPlace THEN WithOwn(RowsAskedFor) ELSE {RowsAskedFor}
Settled == ~due /\ \A l \in Loads : Free(l)

(* Once nothing is under way no spinner turns, and the rows are the ones   *)
(* the filters, the tab and the page ask for, none asked for before the    *)
(* employee's own last change: no change of the question goes unloaded,    *)
(* and reloads, polls and further pages, however they overlap, leave no    *)
(* page out and none twice. Two exceptions: the last answer to come was    *)
(* not in time (InTime), or a load has failed since (astray); and the      *)
(* lists of users, expenses and sales hold own changes put in since the    *)
(* load, whether or not the filters and the page ask for them (WithOwn).   *)
SettledViewIsRight ==
  Settled =>
    /\ ~isLoading /\ ~isFetchingMore
    /\ ~astray => \A f \in FieldsOf(query.tab) : list[f] \in RowsAllowed
=============================================================================
