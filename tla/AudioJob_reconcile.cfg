SPECIFICATION Spec
CONSTANTS
  Workers = {w1, w2}
  BatchSize = 1
  None = None
  Jobs = {j1, j2}
SYMMETRY Symmetry
PROPERTY OnlyUnrecordedFailed
CHECK_DEADLOCK FALSE
