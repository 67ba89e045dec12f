SPECIFICATION Spec
CONSTANTS
  MaxMsgs = 3
  MaxConns = 3
  QoS2 = {1, 3}
INVARIANTS AtLeastOnce StoreEmptied
PROPERTIES HandedOver Completes
CHECK_DEADLOCK FALSE
