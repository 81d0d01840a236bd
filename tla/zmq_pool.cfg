SPECIFICATION FairSpec
CONSTANTS
  Threads = {t1, t2}
  Workers = {w1}
  Sockets = {s1, s2, s3}
  Requests = {r1, r2}
  CachedRoutes = {}
  Unserializable = {r2}
  PollerRetries = 1
  MalformedReplies = FALSE
  MaxAgain = 0
  NoWorker = NoWorker
  NoSocket = NoSocket
  NoMessage = NoMessage
PROPERTIES
  WorkersPooled
  WorkerReturned
  QueueServed
