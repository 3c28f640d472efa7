SPECIFICATION Spec
CONSTANTS
  Pollers = {p1}
  Reconcilers = {r1}
  Updaters = {u1, u2}
  Lead = 1
  Starts = {2, 4}
  EndOfTime = 3
  MayReschedule = TRUE
  MayCrash = FALSE
  None = None
INVARIANT NoReminderWhenRecurring
CHECK_DEADLOCK FALSE
