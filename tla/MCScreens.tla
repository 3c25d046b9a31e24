------------------------------- MODULE MCScreens -------------------------------
(***************************************************************************)
(* One run for the back-office screens: their forms, their lists and the   *)
(* dashboard. The three share no variable, so one part is explored while   *)
(* the others rest in one of their initial states: what holds of each      *)
(* alone holds of them together. Bound: the users' form, whose steps are   *)
(* those of the products' form, is explored with one handler at a time.    *)
(***************************************************************************)
EXTENDS RecordForms, ListViews, Dashboard, TLC

VARIABLE part

FormsRest     == formScreen = "sales"
ViewsRest     == viewScreen = "audit" /\ query.filter = CHOOSE f \in Filters : TRUE
DashboardRest == mayView = {}

Init ==
  /\ FormsInit /\ ViewsInit /\ DashboardInit
  /\ \/ part = "forms" /\ ViewsRest /\ DashboardRest
     \/ part = "views" /\ FormsRest /\ DashboardRest
     \/ part = "dashboard" /\ FormsRest /\ ViewsRest

OneAtATime == \E t \in Tasks : task'[t].handler = "none"

Next ==
  /\ \/ /\ part = "forms" /\ FormsNext /\ UNCHANGED <<viewVars, dashboardVars>>
        /\ formScreen = "users" => OneAtATime
     \/ part = "views" /\ ViewsNext /\ UNCHANGED <<formVars, dashboardVars>>
     \/ part = "dashboard" /\ DashboardNext /\ UNCHANGED <<formVars, viewVars>>
  /\ UNCHANGED part

Spec == Init /\ [][Next]_<<part, formVars, viewVars, dashboardVars>>

Symmetric == Permutations(Records) \cup Permutations(Tasks) \cup Permutations(Loads)
=============================================================================
