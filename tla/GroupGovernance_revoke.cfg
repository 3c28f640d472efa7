SPECIFICATION Spec
CONSTANTS
  Authors = {a1, a2}
  SuperAdmins = {}
  PlainRoles = {"AUTHOR"}
  Invites = {i1}
  Sessions = {s1, s2}
  MayCrash = FALSE
  None = None
PROPERTY OnlyPendingRevoked
CHECK_DEADLOCK FALSE
