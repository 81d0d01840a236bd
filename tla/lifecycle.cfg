SPECIFICATION Spec
CONSTANTS
  Threads = {t1, t2, t3}
  Callers = {c1, c2}
  Keys = {a, b}
  Configured = {a}
  MaxManagers = 3
  Requests = {r1, r2, r3}
  OwnTtl = 0
  DefaultTtl = 2
  MaxLag = 1
  MaxVersion = 2
  Servers = {"s"}
  Fields = {"f"}
  Operators = {"o"}
  Retries = 3
  MaxUses = 2
  Confs <- MCConfs
  Models = {m1, m2, alien}
  Foreign = {alien}
  MaxNow = 3
  MaxId = 3
CHECK_DEADLOCK FALSE
INVARIANTS
  OneInstancePerLock
  RetiredGone
  ServedWithin
  PostsAccountedFor
  FindsSendAlike
  OneWatchdog
  
PROPERTIES
  Settled
  UnitsOfWork
