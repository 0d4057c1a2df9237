\* Two streams, two requests that hang, one that does not.
SPECIFICATION FairSpec
CONSTANTS
  Conns = {c1}
  Ids = {i1}
  Reqs = {r1, r2, r3}
  NoId = NoId
  NoConn = NoConn
  NoHello = NoHello
  BadHello = BadHello
  MaxStreams = 2
  Slow = {r2, r3}
  Hellos <- OneHello
PROPERTY
  SlowPageNeverBlocks
CHECK_DEADLOCK FALSE
