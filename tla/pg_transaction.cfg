SPECIFICATION Spec
CONSTANTS
  Threads = {t1}
  Reloader = reloader
  Servers = {a}
  Configured = {a}
  Pooled = {a}
  Pools = {p1}
  Conns = {c1, c2}
  MaxConn = 1
  MaxRetries = 2
  ReloadKinds = {}
  NoPool = NoPool
  NoConn = NoConn
  NoServer = NoServer
  NoThread = NoThread
INVARIANTS
  TransactionsStart
