SPECIFICATION Spec
CONSTANTS
  MaxPackets = 7
  QueueLimit = 3
INVARIANTS NothingLost InOrder CountdownEnds
PROPERTIES EverythingRead
CHECK_DEADLOCK FALSE
