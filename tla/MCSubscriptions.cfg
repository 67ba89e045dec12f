SPECIFICATION Spec
CONSTANTS
  t1 = t1
  t2 = t2
  MaxReqs = 2
  Topics = {t1, t2}
  Lists <- ListsOf
  Options = {0, 1}
  First = 0
  None = None
INVARIANTS HandlersTracked NoHandlerLeft LastRequestWins SessionCoversSubscriptions
CHECK_DEADLOCK FALSE
