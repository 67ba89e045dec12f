SPECIFICATION Spec
CONSTANTS
  Writes = {w1, w2, w3}
  DrainTimeout = FALSE
INVARIANTS NoWaiterAfterFinish
PROPERTIES CloseReleasesWaiters
CHECK_DEADLOCK FALSE
