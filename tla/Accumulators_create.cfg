SPECIFICATION Spec
CONSTANTS
  Sessions = {s1, s2}
  MaxCount = 2
  MaxCalls = 4
  None = None
SYMMETRY Symmetry
INVARIANTS OneActiveAccumulator
CHECK_DEADLOCK FALSE
