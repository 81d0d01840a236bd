SPECIFICATION FairSpec
CONSTANTS
  Threads = {t1}
  Reloader = reloader
  Servers = {a}
  Configured = {a}
  Pooled = {a}
  Pools = {p1, p2}
  Conns = {c1, c2, c3, c4}
  MaxConn = 1
  MaxRetries = 2
  ReloadKinds = {"change"}
  NoPool = NoPool
  NoConn = NoConn
  NoServer = NoServer
  NoThread = NoThread
CHECK_DEADLOCK FALSE
PROPERTIES
  ReloadReturns
