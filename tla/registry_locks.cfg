\* Three threads that call the registry over and over.
SPECIFICATION ReadsSpec
CONSTANTS
  Threads = {t1, t2, t3}
  Ids = {i1, i2, i3}
  Conns = {c1, c2}
  NoThread = NoThread
  NoId = NoId
  NoConn = NoConn
SYMMETRY Symmetry
INVARIANT
  NoDeadlock
PROPERTIES
  ImplementsContract
  ActiveSessionIsOfItsCall
