--------------------------- MODULE ZmqDispatcher ---------------------------
(***************************************************************************)
(* The ZeroMQ client of envoxy: ZMQ.send_and_recv and the worker pool it   *)
(* takes its pollers and sockets from (src/envoxy/zeromq/dispatcher.py).   *)
(*                                                                         *)
(* A worker is an identifier in a queue.Queue together with a poller and   *)
(* at most one REQ socket.  A calling thread takes a worker, gets or       *)
(* creates its socket, sends, polls, receives, gives the worker back and   *)
(* only then decodes the reply.  Every exception closes the worker's       *)
(* socket, gives the worker back, sleeps and calls send_and_recv again.    *)
(*                                                                         *)
(* One zmq server is modelled: servers share nothing but the class lock,   *)
(* and each block under that lock is one step here.  The queue is a bag of *)
(* worker identifiers, so a thread may take any of them.                   *)
(***************************************************************************)
EXTENDS Naturals, FiniteSets

CONSTANTS
  Threads,         (* threads that call send_and_recv                       *)
  Workers,         (* worker identifiers (context_max_workers of them)      *)
  Sockets,         (* socket objects: a closed and unreferenced one is      *)
                   (* created anew                                          *)
  Requests,        (* messages; a reply is named by the message it answers  *)
  CachedRoutes,    (* messages whose route is in cached_routes              *)
  Unserializable,  (* messages envoxy_json_dumps raises on                  *)
  PollerRetries,   (* ZEROMQ_POLLER_RETRIES                                 *)
  MalformedReplies,(* whether the peer may send a reply that does not decode *)
  MaxAgain,        (* bound: replies that do not decode                     *)
  NoWorker, NoSocket, NoMessage

ASSUME ZmqAssumption ==
  /\ IsFiniteSet(Threads) /\ IsFiniteSet(Workers) /\ IsFiniteSet(Sockets)
  /\ Cardinality(Sockets) >= Cardinality(Threads) + Cardinality(Workers)
  /\ CachedRoutes \subseteq Requests
  /\ Unserializable \subseteq Requests
  /\ PollerRetries \in Nat
  /\ MalformedReplies \in BOOLEAN
  /\ MaxAgain \in Nat
  /\ NoWorker \notin Workers
  /\ NoSocket \notin Sockets
  /\ NoMessage \notin Requests

VARIABLES
  tokens,   (* _available_workers: how often each worker is in the queue    *)
  socket,   (* _workers[w]["socket"]; also what w's poller has registered   *)
  state,    (* REQ state machine of each socket object                      *)
  carries,  (* the message last sent on a socket                            *)
  cache,    (* the reply cached for a message                               *)
  pc,       (* where a thread is in send_and_recv                           *)
  req,      (* its argument message                                         *)
  held,     (* its local _worker_id                                         *)
  var,      (* its local _socket                                            *)
  attempts, (* its local _poller_attempt                                    *)
  got,      (* its local _recv, then _response                              *)
  again     (* history: times a worker was given back once too often        *)

workerVars == <<tokens, again>>
socketVars == <<socket, state, carries>>
vars == <<workerVars, socketVars, cache, pc, req, held, var, attempts, got>>

SocketState == {"closed", "ready", "sent", "replied"}

(* A thread between get_available_worker and the put that ends free_worker. *)
Holding == {"taken", "connected", "polling", "readable", "received",
            "failing", "returning"}

PC == Holding \union {"idle", "waiting", "decoding", "sleeping"}

Goto(t, l) == pc' = [pc EXCEPT ![t] = l]

-----------------------------------------------------------------------------
(* __init__ adds every worker, without a socket, to the queue. *)
Init ==
  /\ tokens = [w \in Workers |-> 1]
  /\ again = [w \in Workers |-> 0]
  /\ socket = [w \in Workers |-> NoSocket]
  /\ state = [s \in Sockets |-> "closed"]
  /\ carries = [s \in Sockets |-> NoMessage]
  /\ cache = [r \in Requests |-> NoMessage]
  /\ pc = [t \in Threads |-> "idle"]
  /\ req = [t \in Threads |-> NoMessage]
  /\ held = [t \in Threads |-> NoWorker]
  /\ var = [t \in Threads |-> NoSocket]
  /\ attempts = [t \in Threads |-> 0]
  /\ got = [t \in Threads |-> NoMessage]

-----------------------------------------------------------------------------
(* send_and_recv, one action per step another thread can come between. *)

(* The cache lookup: a hit returns the cached reply, a cache backend that  *)
(* raises ends the call, anything else goes on to wait for a worker.       *)
Enter(t, r) ==
  /\ \/ /\ r \in CachedRoutes /\ cache[r] # NoMessage
        /\ got' = [got EXCEPT ![t] = cache[r]]
        /\ Goto(t, "idle")
     \/ /\ r \in CachedRoutes
        /\ got' = [got EXCEPT ![t] = NoMessage]
        /\ Goto(t, "idle")
     \/ /\ r \in CachedRoutes => cache[r] = NoMessage
        /\ got' = [got EXCEPT ![t] = NoMessage]
        /\ Goto(t, "waiting")
  /\ UNCHANGED <<workerVars, socketVars, cache, held, var, attempts>>

Call(t, r) ==
  /\ pc[t] = "idle"
  /\ req' = [req EXCEPT ![t] = r]
  /\ Enter(t, r)

(* The recursive call after the sleep of an except clause.  The clause for *)
(* IOError (324-333) frees the worker and calls again inside the outer try *)
(* and is one with the others here: pyzmq's errors are no IOErrors, so it  *)
(* is practically unreachable.                                             *)
Retry(t) ==
  /\ pc[t] = "sleeping"
  /\ UNCHANGED req
  /\ Enter(t, req[t])

(* get_available_worker blocks until the queue has a worker. *)
TakeWorker(t, w) ==
  /\ pc[t] = "waiting"
  /\ tokens[w] > 0
  /\ tokens' = [tokens EXCEPT ![w] = @ - 1]
  /\ held' = [held EXCEPT ![t] = w]
  /\ Goto(t, "taken")
  /\ UNCHANGED <<again, socketVars, cache, req, var, attempts, got>>

Unreferenced ==
  {s \in Sockets : /\ \A w \in Workers : socket[w] # s
                   /\ \A t \in Threads : var[t] # s}

(* The worker has a socket that is open. *)
Usable(w) == socket[w] # NoSocket /\ state[socket[w]] # "closed"

GetOrCreateSocket(t) ==
  LET w == held[t] IN
  /\ pc[t] = "taken"
  /\ \/ /\ Usable(w)
        /\ var' = [var EXCEPT ![t] = socket[w]]
        /\ UNCHANGED socketVars
     \/ /\ ~Usable(w)
        /\ \E s \in Unreferenced :
             /\ socket' = [socket EXCEPT ![w] = s]
             /\ state' = [state EXCEPT ![s] = "ready"]
             /\ carries' = [carries EXCEPT ![s] = NoMessage]
             /\ var' = [var EXCEPT ![t] = s]
  /\ Goto(t, "connected")
  /\ UNCHANGED <<workerVars, cache, req, held, attempts, got>>

(* Serialization raises ValueError, which the outer except Exception takes. *)
SerializeFails(t) ==
  /\ pc[t] = "connected"
  /\ req[t] \in Unserializable
  /\ Goto(t, "failing")
  /\ UNCHANGED <<workerVars, socketVars, cache, req, held, var, attempts, got>>

(* Fault: a DEALER in place of the REQ socket, which sends at any time. *)
CanSendAnytime(s) == state[s] # "closed"

(* A REQ socket sends only when it is not waiting for a reply. *)
CanSend(s) == state[s] = "ready"

Send(t) ==
  /\ pc[t] = "connected"
  /\ req[t] \notin Unserializable
  /\ IF CanSend(var[t])
     THEN /\ state' = [state EXCEPT ![var[t]] = "sent"]
          /\ carries' = [carries EXCEPT ![var[t]] = req[t]]
          /\ attempts' = [attempts EXCEPT ![t] = 0]
          /\ Goto(t, "polling")
     ELSE /\ Goto(t, "failing")
          /\ UNCHANGED <<state, carries, attempts>>
  /\ UNCHANGED <<workerVars, socket, cache, req, held, var, got>>

(* Whether the poller of worker w reports an event. *)
HasEvent(w) == socket[w] # NoSocket /\ state[socket[w]] = "replied"

(* Fault: the attempt is compared before it is counted. *)
PollTimeoutLate(t) ==
  /\ pc[t] = "polling"
  /\ ~HasEvent(held[t])
  /\ IF attempts[t] <= PollerRetries
     THEN /\ attempts' = [attempts EXCEPT ![t] = @ + 1]
          /\ UNCHANGED pc
     ELSE /\ Goto(t, "failing")
          /\ UNCHANGED attempts
  /\ UNCHANGED <<workerVars, socketVars, cache, req, held, var, got>>

(* Fault: the attempts are reset in every round of the loop. *)
PollTimeoutForever(t) ==
  /\ pc[t] = "polling"
  /\ ~HasEvent(held[t])
  /\ UNCHANGED vars

(* An empty poll: polled again up to PollerRetries times, then            *)
(* NoSocketException.                                                      *)
PollTimeout(t) ==
  /\ pc[t] = "polling"
  /\ ~HasEvent(held[t])
  /\ IF attempts[t] < PollerRetries
     THEN /\ attempts' = [attempts EXCEPT ![t] = @ + 1]
          /\ UNCHANGED pc
     ELSE /\ Goto(t, "failing")
          /\ UNCHANGED attempts
  /\ UNCHANGED <<workerVars, socketVars, cache, req, held, var, got>>

(* Fault: the result of the poll is not looked at. *)
PollEventUnchecked(t) ==
  /\ pc[t] = "polling"
  /\ socket[held[t]] = var[t]
  /\ Goto(t, "readable")
  /\ UNCHANGED <<workerVars, socketVars, cache, req, held, var, attempts, got>>

(* The poller reports this thread's own socket.  An event on another       *)
(* socket is ignored and does not count as an attempt: a stuttering step.  *)
PollEvent(t) ==
  /\ pc[t] = "polling"
  /\ HasEvent(held[t])
  /\ socket[held[t]] = var[t]
  /\ Goto(t, "readable")
  /\ UNCHANGED <<workerVars, socketVars, cache, req, held, var, attempts, got>>

(* Polling or receiving on a socket another thread closed raises ZMQError. *)
SocketGone(t) ==
  /\ pc[t] \in {"polling", "readable"}
  /\ state[var[t]] = "closed"
  /\ Goto(t, "failing")
  /\ UNCHANGED <<workerVars, socketVars, cache, req, held, var, attempts, got>>

Recv(t) ==
  /\ pc[t] = "readable"
  /\ state[var[t]] = "replied"
  /\ got' = [got EXCEPT ![t] = carries[var[t]]]
  /\ state' = [state EXCEPT ![var[t]] = "ready"]
  /\ Goto(t, "received")
  /\ UNCHANGED <<workerVars, socket, carries, cache, req, held, var, attempts>>

(* The worker goes back to the queue before the reply is decoded. *)
FreeWorker(t) ==
  /\ pc[t] = "received"
  /\ tokens' = [tokens EXCEPT ![held[t]] = @ + 1]
  /\ Goto(t, "decoding")
  /\ UNCHANGED <<again, socketVars, cache, req, held, var, attempts, got>>

(* Decode, strip, store in the cache (whose errors are swallowed), return. *)
Decode(t) ==
  /\ pc[t] = "decoding"
  /\ \/ /\ req[t] \in CachedRoutes
        /\ cache' = [cache EXCEPT ![req[t]] = got[t]]
     \/ UNCHANGED cache
  /\ held' = [held EXCEPT ![t] = NoWorker]
  /\ var' = [var EXCEPT ![t] = NoSocket]
  /\ attempts' = [attempts EXCEPT ![t] = 0]
  /\ Goto(t, "idle")
  /\ UNCHANGED <<workerVars, socketVars, req, got>>

(* A reply that does not decode raises after the worker was freed, and the *)
(* except clause will free it again.                                       *)
DecodeFails(t) ==
  /\ MalformedReplies
  /\ pc[t] = "decoding"
  /\ again[held[t]] < MaxAgain
  /\ again' = [again EXCEPT ![held[t]] = @ + 1]
  /\ got' = [got EXCEPT ![t] = NoMessage]
  /\ Goto(t, "failing")
  /\ UNCHANGED <<tokens, socketVars, cache, req, held, var, attempts>>

(* free_worker(close_socket=True): close, then put. *)
CloseSocket(t) ==
  LET w == held[t] IN
  /\ pc[t] = "failing"
  /\ state' = [s \in Sockets |-> IF s = socket[w] THEN "closed" ELSE state[s]]
  /\ socket' = [socket EXCEPT ![w] = NoSocket]
  /\ Goto(t, "returning")
  /\ UNCHANGED <<workerVars, carries, cache, req, held, var, attempts, got>>

(* Fault: the except clause closes the socket and keeps the worker. *)
ReturnNothing(t) ==
  /\ pc[t] = "returning"
  /\ held' = [held EXCEPT ![t] = NoWorker]
  /\ var' = [var EXCEPT ![t] = NoSocket]
  /\ attempts' = [attempts EXCEPT ![t] = 0]
  /\ Goto(t, "sleeping")
  /\ UNCHANGED <<workerVars, socketVars, cache, req, got>>

(* Fault: the inner and the outer except clause both free the worker. *)
ReturnTwice(t) ==
  /\ pc[t] = "returning"
  /\ tokens' = [tokens EXCEPT ![held[t]] = @ + 2]
  /\ held' = [held EXCEPT ![t] = NoWorker]
  /\ var' = [var EXCEPT ![t] = NoSocket]
  /\ attempts' = [attempts EXCEPT ![t] = 0]
  /\ Goto(t, "sleeping")
  /\ UNCHANGED <<again, socketVars, cache, req, got>>

ReturnWorker(t) ==
  /\ pc[t] = "returning"
  /\ tokens' = [tokens EXCEPT ![held[t]] = @ + 1]
  /\ held' = [held EXCEPT ![t] = NoWorker]
  /\ var' = [var EXCEPT ![t] = NoSocket]
  /\ attempts' = [attempts EXCEPT ![t] = 0]
  /\ Goto(t, "sleeping")
  /\ UNCHANGED <<again, socketVars, cache, req, got>>

-----------------------------------------------------------------------------
(* The peer and the cache backend. *)

(* A reply that arrives while its socket is open; LINGER 0 and close drop  *)
(* the late ones.                                                          *)
PeerReply(s) ==
  /\ state[s] = "sent"
  /\ state' = [state EXCEPT ![s] = "replied"]
  /\ UNCHANGED <<workerVars, socket, carries, cache, pc, req, held, var,
                 attempts, got>>

CacheExpires(r) ==
  /\ cache[r] # NoMessage
  /\ cache' = [cache EXCEPT ![r] = NoMessage]
  /\ UNCHANGED <<workerVars, socketVars, pc, req, held, var, attempts, got>>

-----------------------------------------------------------------------------
(* What a thread inside the call does next. *)
Step(t) ==
  \/ \E w \in Workers : TakeWorker(t, w)
  \/ GetOrCreateSocket(t) \/ SerializeFails(t) \/ Send(t)
  \/ PollTimeout(t) \/ PollEvent(t) \/ SocketGone(t) \/ Recv(t)
  \/ FreeWorker(t) \/ Decode(t) \/ DecodeFails(t)
  \/ CloseSocket(t) \/ ReturnWorker(t) \/ Retry(t)

Next ==
  \/ \E t \in Threads, r \in Requests : Call(t, r)
  \/ \E t \in Threads : Step(t)
  \/ \E s \in Sockets : PeerReply(s)
  \/ \E r \in Requests : CacheExpires(r)

Spec == Init /\ [][Next]_vars

(* Threads keep running; nothing is assumed of the peer. *)
FairSpec == Spec /\ \A t \in Threads : WF_vars(Step(t))

-----------------------------------------------------------------------------
(* Properties. *)

TypeOK ==
  /\ tokens \in [Workers -> Nat]
  /\ again \in [Workers -> Nat]
  /\ socket \in [Workers -> Sockets \union {NoSocket}]
  /\ state \in [Sockets -> SocketState]
  /\ carries \in [Sockets -> Requests \union {NoMessage}]
  /\ cache \in [Requests -> Requests \union {NoMessage}]
  /\ pc \in [Threads -> PC]
  /\ req \in [Threads -> Requests \union {NoMessage}]
  /\ held \in [Threads -> Workers \union {NoWorker}]
  /\ var \in [Threads -> Sockets \union {NoSocket}]
  /\ attempts \in [Threads -> 0..PollerRetries]
  /\ got \in [Threads -> Requests \union {NoMessage}]
  /\ \A t \in Threads :
       /\ pc[t] # "idle" => req[t] \in Requests
       /\ pc[t] \in Holding \union {"decoding"} => held[t] \in Workers
       /\ pc[t] \in (Holding \ {"taken"}) \union {"decoding"} => var[t] \in Sockets

(* Whatever replies are late, malformed or lost, and however many threads  *)
(* came to share a worker, a call that returned a reply (from the peer at  *)
(* line 322 or from the cache at line 220) returned the reply to its own   *)
(* message.                                                                *)
ReplyAnswersRequest ==
  /\ \A t \in Threads : got[t] \in {NoMessage, req[t]}
  /\ \A r \in Requests : cache[r] \in {NoMessage, r}

(* The blocking recv_multipart of line 261, which has no timeout, is only  *)
(* reached with a reply to read or on a socket that makes it raise.        *)
RecvNeverBlocks ==
  \A t \in Threads :
    pc[t] = "readable" => state[var[t]] \in {"replied", "closed"}

(* The threads between get_available_worker and free_worker with a worker. *)
Holders(w) == {t \in Threads : pc[t] \in Holding /\ held[t] = w}

(* While replies decode, a worker is in the queue once or with one thread, *)
(* so a socket that is not thread safe is used by one thread at a time.    *)
ExclusiveWorkers ==
  ~MalformedReplies =>
    \A w \in Workers :
      \/ tokens[w] = 1 /\ Holders(w) = {}
      \/ tokens[w] = 0 /\ \E t \in Threads : Holders(w) = {t}

Pool == INSTANCE ExclusivePool WITH
  Users <- Threads, Items <- Workers, Renewed <- FALSE, Nothing <- NoWorker,
  free  <- {w \in Workers : tokens[w] > 0},
  holds <- [t \in Threads |-> IF pc[t] \in Holding THEN held[t] ELSE NoWorker]

(* While replies decode, the queue of dispatcher.py:224 is a pool of its   *)
(* workers, however calls fail: one thread at a time has a worker, whose   *)
(* poller and socket are not thread safe, and all of them stay.            *)
WorkersPooled == Pool!Spec

(* No retry path loses a worker, and the only one that multiplies it is    *)
(* the reply that fails after line 263: queue and threads together have    *)
(* each worker once, plus once per such reply.                             *)
TokensConserved ==
  \A w \in Workers : tokens[w] + Cardinality(Holders(w)) = 1 + again[w]

(* A thread that took a worker gives it back, even if the peer never       *)
(* answers: the poll loop, the retries and the sleeps end.                 *)
WorkerReturned ==
  \A t \in Threads : (pc[t] \in Holding) ~> (pc[t] \notin Holding)

(* A waiting call does not wait on a pool that has lost its workers.       *)
QueueServed ==
  (\E t \in Threads : pc[t] = "waiting") ~> (\E t \in Threads : pc[t] = "taken")

(* dispatcher.py:239: "Don't retry - this is a data problem, not a          *)
(* connection problem".  The code retries it, until Python's limit on      *)
(* recursion ends the call.                                                *)
DataErrorNotRetried ==
  [][\A t \in Threads :
       pc[t] = "sleeping" /\ req[t] \in Unserializable => pc'[t] # "waiting"]_vars
=============================================================================
