SPECIFICATION Safe
CONSTANTS
  i1 = i1
  Conns = {c1, c2, c3}
  ClientIds = {i1}
  IdOf <- OneId
  NoConn = NoConn
  WillConns = {}
  Stored = {}
  Clustered = FALSE
INVARIANTS OneLiveClientPerId
SYMMETRY Alike
CHECK_DEADLOCK FALSE
