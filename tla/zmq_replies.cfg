SPECIFICATION Spec
CONSTANTS
  Threads = {t1, t2}
  Workers = {w1, w2}
  Sockets = {s1, s2, s3, s4}
  Requests = {r1, r2}
  CachedRoutes = {r1}
  Unserializable = {}
  PollerRetries = 1
  MalformedReplies = TRUE
  MaxAgain = 1
  NoWorker = NoWorker
  NoSocket = NoSocket
  NoMessage = NoMessage
SYMMETRY Symmetry
INVARIANTS
  TypeOK
  ReplyAnswersRequest
  RecvNeverBlocks
  TokensConserved
