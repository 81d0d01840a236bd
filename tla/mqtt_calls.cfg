SPECIFICATION FairSpec
CONSTANTS
  Threads = {t1}
  Clients = {k1, k2}
  Topics = {x1, x2}
  SlowBroker = FALSE
  RefusingBroker = FALSE
  Unreachable = FALSE
  NoActor = NoActor
  NoClient = NoClient
  Message = Message
CHECK_DEADLOCK FALSE
PROPERTIES
  ResubscribesAfterReconnect
  CallsReturn
