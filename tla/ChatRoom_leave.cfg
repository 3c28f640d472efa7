SPECIFICATION Spec
CONSTANTS
  Users = {u1, u2}
  Messages = {m1, m2}
  Sessions = {s1, s2}
  MayCrash = FALSE
  None = None
SYMMETRY Symmetry
PROPERTY CreatorLeavesLast
