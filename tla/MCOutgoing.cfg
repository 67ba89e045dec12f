CONSTANTS
  MaxMsgs = 2
  MaxConns = 2
  MaxId = 2
  FirstIds = {1}
  LaterIds = {2}
  QoS2 = {2}
  Doubtful = {1}
  Twice = {2}
SPECIFICATION Spec
CHECK_DEADLOCK FALSE
INVARIANTS Kept
PROPERTIES HandedOver 
