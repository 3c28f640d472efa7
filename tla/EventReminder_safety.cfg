SPECIFICATION Spec
CONSTANTS
  Pollers = {p1, p2}
  Reconcilers = {r1}
  Updaters = {u1}
  Lead = 1
  Starts = {1, 2, 4}
  EndOfTime = 3
  MayReschedule = TRUE
  MayCrash = TRUE
  None = None
SYMMETRY Symmetry
INVARIANTS RowMatchesEvent NoReminderWhenRecurring OnePollerSends
PROPERTIES DeliveredIsCurrent EarlyOnlyByStaleClaim
CHECK_DEADLOCK FALSE
