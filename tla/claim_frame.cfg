\* Bodies up to the cap, which is as long as a frame.
SPECIFICATION PoolSpec
CONSTANTS
  Conns = {c1}
  Ids = {i1}
  Reqs = {r1}
  NoId = NoId
  NoConn = NoConn
  NoHello = NoHello
  BadHello = BadHello
  Slow = {}
  Threads = 1
  MaxStreams = 1
  MaxBody = 4
  MaxFrame = 4
  Overhead = 1
  Bodies <- BodyLengths
PROPERTY
  CappedBodiesTravel
CHECK_DEADLOCK FALSE
