\* Two tunnels that share two threads, one request that hangs.
SPECIFICATION FairPoolSpec
CONSTANTS
  Conns = {c1, c2}
  Ids = {i1}
  Reqs = {r1, r2, r3}
  NoId = NoId
  NoConn = NoConn
  NoHello = NoHello
  BadHello = BadHello
  Slow = {r1}
  Threads = 2
  MaxStreams = 2
  MaxBody = 4
  MaxFrame = 4
  Overhead = 1
  Bodies <- BodyLengths
INVARIANTS
  PoolTypeOK
  PoolAccounted
  PoolNeverStalls
PROPERTIES
  OthersFinish
  ThreadsComeBack
CHECK_DEADLOCK FALSE
