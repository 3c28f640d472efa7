SPECIFICATION Spec
CONSTANTS
  Plans = {p1, p2}
  Series = {x}
  Groups = {g1, g2}
  Transfers = {t1, t2}
  Sessions = {s1}
  MayCrash = FALSE
  None = None
SYMMETRY Symmetry
INVARIANTS PlansFollowSeries
CHECK_DEADLOCK FALSE
