SPECIFICATION Spec
CONSTANTS
  Users = {u1, u2, u3}
  Messages = {m1, m2}
  Sessions = {s1, s2}
  MayCrash = TRUE
  None = None
SYMMETRY Symmetry
INVARIANTS AtMostOneCreator SendersAreMembers
PROPERTIES NoMessageAfterHide
