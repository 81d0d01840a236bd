SPECIFICATION FairSpec
CONSTANTS
  Threads = {t1}
  Clients = {k1}
  Topics = {x1}
  SlowBroker = FALSE
  RefusingBroker = FALSE
  Unreachable = TRUE
  NoActor = NoActor
  NoClient = NoClient
  Message = Message
CHECK_DEADLOCK FALSE
PROPERTIES
  ResubscribesAfterReconnect
