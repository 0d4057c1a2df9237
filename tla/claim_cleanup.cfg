\* One developer, who leaves during the handshake.
SPECIFICATION Spec
CONSTANTS
  Conns = {c1}
  Ids = {i1}
  Reqs = {r1}
  NoId = NoId
  NoConn = NoConn
  NoHello = NoHello
  BadHello = BadHello
  MaxStreams = 1
  Slow = {}
  Hellos <- OneHello
INVARIANT
  FinishedHandlerLeavesNothing
CHECK_DEADLOCK FALSE
