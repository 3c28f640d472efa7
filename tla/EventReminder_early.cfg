SPECIFICATION Spec
CONSTANTS
  Pollers = {p1}
  Reconcilers = {r1}
  Updaters = {u1}
  Lead = 1
  Starts = {2, 4}
  EndOfTime = 3
  MayReschedule = TRUE
  MayCrash = FALSE
  None = None
PROPERTY NeverEarly
CHECK_DEADLOCK FALSE
