SPECIFICATION Spec
CONSTANTS
  Threads = {t1, t2}
  Clients = {k1, k2}
  Topics = {x1}
  SlowBroker = TRUE
  RefusingBroker = TRUE
  Unreachable = TRUE
  NoActor = NoActor
  NoClient = NoClient
  Message = Message
SYMMETRY Symmetry
CHECK_DEADLOCK FALSE
INVARIANTS
  TypeOK
  Resubscribed
PROPERTIES
  ClientStays
