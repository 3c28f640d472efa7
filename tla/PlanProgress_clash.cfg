SPECIFICATION MCSpec
CONSTANTS
  p1 = p1  q1 = q1  p2 = p2
  d1 = d1  d2 = d2  e1 = e1  f1 = f1
  ta = ta  tb = tb  tc = tc  td = td
  ua = ua  ub = ub
  Plans = {p1, q1, p2}
  Days = {d1, d2, e1, f1}
  Tasks = {ta, tb, tc, td}
  SubTasks = {ua, ub}
  PlanOf <- PlanOfDay
  Number <- NumberOfDay
  DayOf <- DayOfTask
  TaskOf <- TaskOfSubTask
  Slot <- SlotOfPlan
  Sessions = {s1, s2}
  MaxCalls = 3
  None = None
SYMMETRY Symmetry
INVARIANTS CompletedAfterLastDay
CHECK_DEADLOCK FALSE
