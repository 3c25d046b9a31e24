SPECIFICATION Spec
CONSTANTS
  Records = {r1, r2}
  Tasks = {t1, t2}
  None = None
  MaxStamp = 2
  May = {"create", "edit", "delete"}
  Filters = {f1, f2}
  ReportTabs = {"overview", "top-sellers", "cash"}
  Loads = {l1, l2}
  MaxPages = 3
  ChangeTabs = {"product", "sale"}
  Permissions = {"shifts", "changes"}
  MaxAwaited = 2
  MaxRegrants = 1
SYMMETRY Symmetric
INVARIANTS
  BusyFollowsHandler
  SettledViewIsRight
  EverySectionLoaded
PROPERTIES
  ChangedAsSeen
CHECK_DEADLOCK FALSE
