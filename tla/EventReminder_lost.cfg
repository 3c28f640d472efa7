SPECIFICATION FairSpec
CONSTANTS
  Pollers = {p1, p2}
  Reconcilers = {r1}
  Updaters = {u1}
  Lead = 1
  Starts = {2, 4}
  EndOfTime = 3
  MayReschedule = TRUE
  MayCrash = FALSE
  None = None
PROPERTY DueIsSent
CHECK_DEADLOCK FALSE
