\* Two developers: the newer one leaves.
SPECIFICATION Spec
CONSTANTS
  Conns = {c1, c2}
  Ids = {i1, i2}
  Reqs = {r1}
  NoId = NoId
  NoConn = NoConn
  NoHello = NoHello
  BadHello = BadHello
  MaxStreams = 1
  Slow = {}
  Hellos <- OneHello
INVARIANT
  ConnectedTunnelOwnsHost
CHECK_DEADLOCK FALSE
