SPECIFICATION Spec
CONSTANTS
  i1 = i1
  Conns = {c1, c2}
  ClientIds = {i1}
  IdOf <- OneId
  NoConn = NoConn
  WillConns = {c1, c2}
  Stored = {c1}
  Clustered = TRUE
INVARIANTS CountCovers WillPublishedOnce NoOrphanWill WillStoredUndisturbed
CHECK_DEADLOCK FALSE
PROPERTIES ClosedEarlyStaysOut TakeoverCompletes BrokerCloses
