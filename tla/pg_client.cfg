SPECIFICATION Spec
CONSTANTS
  Threads = {t1, t2}
  Reloader = reloader
  Servers = {a}
  Configured = {}
  Pooled = {}
  Pools = {p1, p2}
  Conns = {c1, c2, c3, c4}
  MaxConn = 1
  MaxRetries = 2
  ReloadKinds = {"remove", "change", "add"}
  NoPool = NoPool
  NoConn = NoConn
  NoServer = NoServer
  NoThread = NoThread
CHECK_DEADLOCK FALSE
SYMMETRY Symmetry
INVARIANTS
  TypeOK
  NoForeignWork
  PermitsMatch
  NeverExhausted
  NoConnectionLost
PROPERTIES
  ConnectionsPooled
