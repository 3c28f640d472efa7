SPECIFICATION Spec
CONSTANTS
  Users = {u1}
  Messages = {m1, m2}
  Sessions = {s1}
  MayCrash = TRUE
  None = None
INVARIANT RoomHasCreator
