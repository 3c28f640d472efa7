SPECIFICATION FairSpec
CONSTANTS
  Workers = {w1, w2}
  BatchSize = 1
  None = None
  Jobs = {j1, j2}
INVARIANTS OneGenerator
PROPERTIES ImplementsLifecycle ReconcileSparesWorkers PendingIsResolved
CHECK_DEADLOCK FALSE
