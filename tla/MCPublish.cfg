SPECIFICATION Spec
CONSTANTS
  c1 = c1
  c2 = c2
  h1 = h1
  h2 = h2
  h3 = h3
  s1 = s1
  s2 = s2
  q1 = q1
  x1 = x1
  d1 = d1
  Msgs = {s1, s2, q1, x1, d1}
  Clients = {c1, c2}
  Handlers = {h1, h2, h3}
  Owner <- OwnerOf
  Matches <- MatchesOf
  Retained = {q1}
  Queued = {q1, d1}
  Direct = {d1}
  Target <- TargetOf
  Barred <- BarredPairs
  Refused <- RefusedPairs
  Concurrency = 1
INVARIANTS SlotsAccounted DroppedOnlyIfOvertaken AcceptedInOrder
PROPERTIES WaitingIsPublished
CHECK_DEADLOCK FALSE
