SPECIFICATION Spec
CONSTANTS
  Writes = {w1, w2, w3}
  DrainTimeout = TRUE
INVARIANTS AnsweredOnce TimerServesWaiters Accounted
PROPERTIES EveryWriteAnswered ImplementsReply
CHECK_DEADLOCK FALSE
