SPECIFICATION Spec
CONSTANTS
  Sessions = {s1, s2}
  MaxCount = 2
  MaxCalls = 5
  None = None
SYMMETRY Symmetry
PROPERTIES ResetAlwaysToZero
CHECK_DEADLOCK FALSE
