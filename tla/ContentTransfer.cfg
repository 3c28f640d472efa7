SPECIFICATION Spec
CONSTANTS
  Plans = {p1, p2}
  Series = {x}
  Groups = {g1, g2}
  Transfers = {t1, t2}
  Sessions = {s1}
  MayCrash = TRUE
  None = None
SYMMETRY Symmetry
INVARIANTS OnePendingTransfer OwnerIsPartner
PROPERTIES StraysByTransferOrCopy ImplementsCustody
CHECK_DEADLOCK FALSE
