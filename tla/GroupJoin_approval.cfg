SPECIFICATION Spec
CONSTANTS
  Users = {u1, u2}
  Moderators = {m1}
  Requests = {r1, r2}
  Sessions = {s1, s2}
  None = None

PROPERTY ApprovedTogether
CHECK_DEADLOCK FALSE
