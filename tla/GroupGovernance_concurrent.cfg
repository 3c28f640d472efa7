SPECIFICATION Spec
CONSTANTS
  Authors = {a1, a2, a3}
  SuperAdmins = {}
  PlainRoles = {"AUTHOR"}
  Invites = {i1}
  Sessions = {s1, s2}
  MayCrash = TRUE
  None = None
SYMMETRY Symmetry
INVARIANT AtMostOneOwner
PROPERTIES OwnerLostOnlyByStaleCheck ChangedByName EntersOnce
CHECK_DEADLOCK FALSE
