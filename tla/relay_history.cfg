\* Two developers with any options, who take the host over from each other.
SPECIFICATION HSpec
CONSTANTS
  Conns = {c1, c2}
  Ids = {i1, i2}
  Reqs = {r1}
  NoId = NoId
  NoConn = NoConn
  NoHello = NoHello
  BadHello = BadHello
  MaxStreams = 1
  Slow = {}
  Hellos <- AllHellos
SYMMETRY Symmetry
INVARIANTS
  OwnerIsOpen
  RegistryCoversTunnels
  HandlerKeepsItsEntries
  SessionsAccounted
  RoutedToAnOwner
  NotFoundHasACause
  MissingTunnelHasACause
  CalmHostServes
  SoleTunnelOptionsHonoured
PROPERTIES
  HostChangesHands
  KeepsPublicPromise
CHECK_DEADLOCK FALSE
