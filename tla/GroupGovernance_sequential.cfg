SPECIFICATION Spec
CONSTANTS
  Authors = {a1, a2, root}
  SuperAdmins = {root}
  PlainRoles = {"AUTHOR"}
  Invites = {i1, i2}
  Sessions = {s1}
  MayCrash = FALSE
  None = None
INVARIANTS OwnerRemains OnePendingInvite
PROPERTY AdminsAreProtected
CHECK_DEADLOCK FALSE
