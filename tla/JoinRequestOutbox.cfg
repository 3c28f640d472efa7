SPECIFICATION FairOutboxSpec
CONSTANTS
  Requests = {r1}
  Senders = {s1, s2}
  MayFail = TRUE
  None = None
INVARIANTS AdmittedSilently RecordedWasSent
PROPERTIES DecisionIsSent CreationIsSent
CHECK_DEADLOCK FALSE
