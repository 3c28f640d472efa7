SPECIFICATION Spec
CONSTANTS
  Authors = {a1, a2, a3}
  SuperAdmins = {}
  PlainRoles = {"AUTHOR"}
  Invites = {i1}
  Sessions = {s1}
  MayCrash = TRUE
  None = None
INVARIANT OwnerRemains
CHECK_DEADLOCK FALSE
