---------------------------- MODULE MCLifecycle ----------------------------
(***************************************************************************)
(* The singletons, the ORM's sessions, the response cache, the CouchDB     *)
(* client and the start of a process.  They share no state, so a behaviour *)
(* is one of one part: the states add up instead of multiplying, and no    *)
(* interleaving is lost.                                                   *)
(***************************************************************************)
EXTENDS Singletons, SessionManagers, ResponseCache, CouchClient, Boot

VARIABLE part   \* the part this behaviour is one of

lifecycle == <<part, singletons, sessions, caching, couch, boot>>

Credentials == {"credentials", "modules"}

\* One start that authenticates for each branch that the options decide.
MCConfs ==
  {{"test"}, {"modules"}, Credentials,
   {"credentials", "modules", "packages"},
   {"credentials", "packages", "amqp"},
   {"credentials", "zmq", "mqtt", "backend", "keep_alive", "master"},
   {"credentials", "backend", "keep_alive", "pid"},
   Credentials \cup {"keep_alive", "embed_keep_alive", "pid", "own_pid"}}

\* The parts that are left out begin in one of their initial states.
Init ==
  /\ part \in {"singletons", "sessions", "cache", "couch", "boot"}
  /\ SingletonsInit /\ SessionsInit /\ CacheInit /\ CouchInit /\ BootInit
  /\ part # "singletons" => base = "Singleton" /\ lock = 0
  /\ part # "sessions" => key = [c \in Callers |-> CHOOSE k \in Keys : TRUE]
  /\ part # "couch" => given = {}
  /\ part # "boot" => conf = {"test"}

Next ==
  \/ /\ part = "singletons" /\ SingletonsNext
     /\ UNCHANGED <<part, sessions, caching, couch, boot>>
  \/ /\ part = "sessions" /\ SessionsNext
     /\ UNCHANGED <<part, singletons, caching, couch, boot>>
  \/ /\ part = "cache" /\ CacheNext
     /\ UNCHANGED <<part, singletons, sessions, couch, boot>>
  \/ /\ part = "couch" /\ CouchNext
     /\ UNCHANGED <<part, singletons, sessions, caching, boot>>
  \/ /\ part = "boot" /\ BootNext
     /\ UNCHANGED <<part, singletons, sessions, caching, couch>>

Spec == Init /\ [][Next]_lifecycle /\ SessionsFairness
=============================================================================
