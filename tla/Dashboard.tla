------------------------------- MODULE Dashboard -------------------------------
(***************************************************************************)
(* The dashboard: today's figures with the low-stock alert, the last       *)
(* shifts, and the recent changes on four tabs, each a section that loads  *)
(* by itself. What the user may see can change while the page is open      *)
(* (permissions_changed), and then every section is loaded anew. A tab of  *)
(* changes is loaded when it is first opened. Timers of 0 ms start the     *)
(* loads; an effect that runs again cancels its timer.                     *)
(*                                                                         *)
(* Of an answer it matters whether it was asked for with the permissions   *)
(* the user has now, or before they changed.                               *)
(***************************************************************************)
EXTENDS Naturals, FiniteSets

CONSTANTS
  ChangeTabs,   \* the tabs of changes: product, inventory, sale, expense
  Permissions,  \* what decides the sections: inventory, shifts, changes
  MaxAwaited,   \* bound: calls of one section that are under way
  MaxRegrants   \* bound: times the permissions change

ASSUME DashboardAssumption ==
  /\ "product" \in ChangeTabs /\ ChangeTabs \cap {"stats", "shifts"} = {}
  /\ MaxAwaited \in Nat \ {0} /\ MaxRegrants \in Nat

Sections == {"stats", "shifts"} \cup ChangeTabs

VARIABLES
  mayView,          \* the permissions of the user
  regrants,         \* how often they have changed
  activeChangeTab,
  section,          \* per section: loading, loaded, error and rows
  awaited,          \* per section: calls under way, asked now or before
  bootDue, tabDue   \* the timers of the two effects

dashboardVars == <<mayView, regrants, activeChangeTab, section, awaited, bootDue, tabDue>>
-----------------------------------------------------------------------------
Fresh == [loading |-> FALSE, loaded |-> FALSE, error |-> FALSE, rows |-> "none"]

DashboardInit ==
  /\ mayView \in SUBSET Permissions /\ regrants = 0
  /\ activeChangeTab = "product"
  /\ section = [s \in Sections |-> [Fresh EXCEPT !.loading = s \notin ChangeTabs]]
  /\ awaited = [s \in Sections |-> [now |-> 0, before |-> 0]]
  /\ bootDue = TRUE /\ tabDue = ("changes" \in mayView)

(* A section that is asked for shows its spinner and forgets its error.    *)
Asked(s)    == [section[s] EXCEPT !.loading = TRUE, !.error = FALSE]
CanAsk(s)   == awaited[s].now + awaited[s].before < MaxAwaited
Emptied     == [section["shifts"] EXCEPT !.loading = FALSE, !.error = FALSE,
                                         !.rows = "none"]
AskFor(wanted) ==
  /\ \A s \in wanted : CanAsk(s)
  /\ awaited' = [s \in Sections |-> IF s \in wanted
                   THEN [awaited[s] EXCEPT !.now = @ + 1] ELSE awaited[s]]

(* The figures are always asked for, with what the user may see of them;   *)
(* the shifts of one who may not see them are emptied.                     *)
fetchDashboardData == {"stats"}
fetchShiftPreview  == IF "shifts" \in mayView THEN {"shifts"} ELSE {}
BootFires ==
  LET wanted == fetchDashboardData \cup fetchShiftPreview
                  \cup (IF "changes" \in mayView THEN {"product"} ELSE {})
  IN
  /\ bootDue /\ bootDue' = FALSE
  /\ AskFor(wanted)
  /\ section' = [s \in Sections |-> CASE s \in wanted   -> Asked(s)
                                      [] s = "shifts" /\ s \notin wanted -> Emptied
                                      [] OTHER          -> section[s]]
  /\ UNCHANGED <<mayView, regrants, activeChangeTab, tabDue>>

(* A tab is loaded once: not again after it was loaded, or failed to load. *)
(* Mutant: only the first tab is.                                          *)
FirstTabOnly(perms, t) ==
  "changes" \in perms /\ t = "product" /\ ~section[t].loaded /\ ~section[t].loading
TabWanted(perms, t) ==
  "changes" \in perms /\ ~section[t].loaded /\ ~section[t].loading

(* The page is drawn again before the timer fires, and the effect cancels  *)
(* it; or the timer fires first, and the tab is asked for twice.           *)
TabCancelled ==
  /\ tabDue /\ ~TabWanted(mayView, activeChangeTab) /\ tabDue' = FALSE
  /\ UNCHANGED <<mayView, regrants, activeChangeTab, section, awaited, bootDue>>
TabFires ==
  /\ tabDue /\ tabDue' = FALSE
  /\ AskFor({activeChangeTab})
  /\ section' = [section EXCEPT ![activeChangeTab] = Asked(activeChangeTab)]
  /\ UNCHANGED <<mayView, regrants, activeChangeTab, bootDue>>

OpenTab(t) ==
  /\ "changes" \in mayView /\ t # activeChangeTab
  /\ activeChangeTab' = t /\ tabDue' = TabWanted(mayView, t)
  /\ UNCHANGED <<mayView, regrants, section, awaited, bootDue>>

(* What a section shows: a spinner, or an error, or its rows.              *)
ChangesListShown(t) == "changes" \in mayView /\ t = activeChangeTab
ShiftHistoryShown   == "shifts" \in mayView
Visible ==
  {s \in Sections : s = "stats" \/ (s = "shifts" /\ ShiftHistoryShown)
                      \/ (s \in ChangeTabs /\ ChangesListShown(s))}

(* The figures offer no Retry.                                             *)
Retry(s) ==
  /\ s \in Visible \ {"stats"} /\ section[s].error /\ ~section[s].loading
  /\ AskFor({s})
  /\ section' = [section EXCEPT ![s] = Asked(s)]
  /\ UNCHANGED <<mayView, regrants, activeChangeTab, bootDue, tabDue>>
-----------------------------------------------------------------------------
(* An answer, whenever it was asked for. A failing sales summary counts as *)
(* an answer, of zeros; a failing low-stock list is an error. What is shown*)
(* is the answer that came last: one of before, which may have come after  *)
(* and over the one of now.                                                *)
Arrived(s, when) ==
  IF when = "now" THEN "now"
  ELSE IF section[s].rows \in {"now", "overtaken"} THEN "overtaken" ELSE "before"
Answer(s, when, ok) ==
  /\ awaited[s][when] > 0
  /\ awaited' = [awaited EXCEPT ![s][when] = @ - 1]
  /\ section' = [section EXCEPT ![s].loading = FALSE, ![s].loaded = TRUE,
                   ![s].rows  = IF ok THEN Arrived(s, when) ELSE @,
                   ![s].error = @ \/ ~ok]
  /\ UNCHANGED <<mayView, regrants, activeChangeTab, bootDue, tabDue>>
StatsAnswered(when, ok)   == Answer("stats", when, ok)
ShiftsAnswered(when, ok)  == Answer("shifts", when, ok)
ChangesAnswered(t, when, ok) == Answer(t, when, ok)

(* The permissions change. Both effects depend on them and run again; what *)
(* is shown or was asked for is of before.                                 *)
PermissionsChange(p) ==
  /\ p # mayView /\ regrants < MaxRegrants
  /\ mayView' = p /\ regrants' = regrants + 1
  /\ bootDue' = TRUE
  /\ tabDue' = TabWanted(p, activeChangeTab)
  /\ section' = [s \in Sections |->
       IF section[s].rows = "none" THEN section[s]
                                   ELSE [section[s] EXCEPT !.rows = "before"]]
  /\ awaited' = [s \in Sections |->
       [now |-> 0, before |-> awaited[s].now + awaited[s].before]]
  /\ UNCHANGED activeChangeTab
-----------------------------------------------------------------------------
DashboardNext ==
  \/ BootFires \/ TabCancelled \/ TabFires
  \/ \E t \in ChangeTabs : OpenTab(t)
  \/ \E s \in Sections : Retry(s)
  \/ \E when \in {"now", "before"} : \E ok \in BOOLEAN :
       \/ StatsAnswered(when, ok) \/ ShiftsAnswered(when, ok)
       \/ \E t \in ChangeTabs : ChangesAnswered(t, when, ok)
  \/ \E p \in SUBSET Permissions : PermissionsChange(p)

DashboardSpec == DashboardInit /\ [][DashboardNext]_dashboardVars
-----------------------------------------------------------------------------
AtRest == ~bootDue /\ ~tabDue /\ \A s \in Sections : awaited[s] = [now |-> 0, before |-> 0]

(* At rest every section the user may see has been loaded or shows an      *)
(* error, and none turns its spinner for ever, whatever permissions came   *)
(* and went and whatever tabs were opened before their timers fired. The   *)
(* figures and the shifts have been loaded with the permissions of now;    *)
(* if what they show is of before all the same, an answer of before came   *)
(* after the one of now and replaced it (overtaken). Of the tabs only the  *)
(* first is loaded again, so what another shows may be of before.          *)
EverySectionLoaded ==
  AtRest => \A s \in Visible :
    /\ ~section[s].loading
    /\ section[s].error \/ section[s].rows # "none"
    /\ s \in {"stats", "shifts"} =>
         section[s].error \/ section[s].rows \in {"now", "overtaken"}
=============================================================================
