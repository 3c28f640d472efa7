SPECIFICATION Spec
CONSTANTS
  Sessions = {s1, s2}
  MaxCount = 2
  MaxCalls = 4
  None = None
SYMMETRY Symmetry
INVARIANTS SubmittedIsCounted HistoryCoversCount StatsAreFresh
CHECK_DEADLOCK FALSE
