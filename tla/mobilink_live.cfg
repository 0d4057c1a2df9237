\* One CLI with a hanging request and one that does not hang, and a server that may restart.
SPECIFICATION FairMSpec
CONSTANTS
  Conns = {c1}
  Ids = {i1}
  Reqs = {r1, r2}
  NoId = NoId
  NoConn = NoConn
  NoHello = NoHello
  BadHello = BadHello
  MaxStreams = 2
  MaxRestarts = 1
  Slow = {r2}
  Hellos <- AllHellos
  Commands <- OneCommand
  Resolutions <- Ipv4Only
INVARIANT
  RequestsNeverStuck
PROPERTIES
  RequestsAnswered
  LostTunnelForgotten
  CleanShutdown
  CliFollowsServer
CHECK_DEADLOCK FALSE
