\* Two developers with different options.
SPECIFICATION HSpec
CONSTANTS
  Conns = {c1, c2}
  Ids = {i1, i2}
  Reqs = {r1}
  NoId = NoId
  NoConn = NoConn
  NoHello = NoHello
  BadHello = BadHello
  MaxStreams = 1
  Slow = {}
  Hellos <- TwoHellos
INVARIANT
  OwnerOptionsHonoured
CHECK_DEADLOCK FALSE
