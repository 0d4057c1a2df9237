\* Two CLIs, their server and one request.
SPECIFICATION MHSpec
CONSTANTS
  Conns = {c1, c2}
  Ids = {i1, i2}
  Reqs = {r1}
  NoId = NoId
  NoConn = NoConn
  NoHello = NoHello
  BadHello = BadHello
  MaxStreams = 1
  MaxRestarts = 0
  Slow = {}
  Hellos <- AllHellos
  Commands <- FewCommands
  Resolutions <- AnyResolution
SYMMETRY Symmetry
VIEW OwnersOnly
INVARIANTS
  CliTypeOK
  ExitCodeTellsTruth
  ReadyMeansReachable
  ByeIsHeard
  OnlyOwnersSeeRequests
PROPERTY
  ServerIsRelay
CHECK_DEADLOCK FALSE
