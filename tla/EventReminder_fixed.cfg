SPECIFICATION FairSpec
CONSTANTS
  Pollers = {p1, p2}
  Reconcilers = {r1}
  Updaters = {u1}
  Lead = 1
  Starts = {2, 3}
  EndOfTime = 3
  MayReschedule = FALSE
  MayCrash = TRUE
  None = None
PROPERTY DueIsSent
CHECK_DEADLOCK FALSE
