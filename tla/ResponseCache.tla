---------------------------- MODULE ResponseCache ----------------------------
(***************************************************************************)
(* The decorator cache (envoxy/decorators.py) around a view's method, over *)
(* RedisCache (envoxy/cache/redis.py), for requests with one path, method  *)
(* and body, that is, one key.  What the view answers depends on data that *)
(* changes: a body is the version of the data and whether it is empty.     *)
(*                                                                         *)
(* Time passes in ticks.  No request takes more than MaxLag of them from   *)
(* its look-up to its end.  What a request answers when Redis raises is an *)
(* error of the view, and changes nothing more.                            *)
(***************************************************************************)
EXTENDS Naturals

CONSTANTS
  Requests,     \* the requests, one at a time each
  OwnTtl,       \* the decorator's ttl
  DefaultTtl,   \* the backend's, from the configuration
  MaxLag,       \* bound on the ticks of one request
  MaxVersion    \* bound on the changes of the data

ASSUME CacheAssumption ==
  /\ OwnTtl \in Nat /\ DefaultTtl \in Nat \ {0}
  /\ MaxLag \in Nat /\ MaxVersion \in Nat \ {0}

NoBody  == [version |-> 0, empty |-> TRUE]
Forever == DefaultTtl + OwnTtl + 1

VARIABLES
  data,      \* version of the data the view reads
  age,       \* ticks since each version stopped being the data
  entry,     \* the body at the key in Redis, or NoBody
  ttl,       \* ticks until it expires, or Forever
  doing,     \* where each request is
  lag,       \* ticks since it began
  body,      \* the body it has computed
  neglected  \* an expire was lost and none has succeeded since

redis   == <<entry, ttl, neglected>>
origin  == <<data, age>>
caching == <<origin, redis, doing, lag, body>>

CacheInit ==
  /\ data = 1 /\ age = [v \in 1 .. MaxVersion |-> 0]
  /\ entry = NoBody /\ ttl = Forever /\ neglected = FALSE
  /\ doing = [r \in Requests |-> "idle"]
  /\ lag = [r \in Requests |-> 0]
  /\ body = [r \in Requests |-> NoBody]

Does(r, from, to) == doing[r] = from /\ doing' = [doing EXCEPT ![r] = to]

Ends(r, from) ==
  /\ Does(r, from, "idle")
  /\ lag' = [lag EXCEPT ![r] = 0] /\ body' = [body EXCEPT ![r] = NoBody]

\* An empty body is false: it is stored and counts as a miss all the same.
Hit == ~ entry.empty

\* With a hit the request is over.
Miss(r) ==
  /\ ~ Hit
  /\ Does(r, "idle", "call")
  /\ UNCHANGED <<origin, redis, lag, body>>

\* The view reads the data and answers 200.
CallView(r) ==
  /\ Does(r, "call", "set")
  /\ \E empty \in BOOLEAN :
       body' = [body EXCEPT ![r] = [version |-> data, empty |-> empty]]
  /\ UNCHANGED <<origin, redis, lag>>

\* Any other status goes to the client and not into the cache.
CallViewFails(r) ==
  /\ Ends(r, "call")
  /\ UNCHANGED <<origin, redis>>

\* The SET of Redis drops the time to live that the key had.
Set(r) ==
  /\ Does(r, "set", "expire")
  /\ entry' = body[r] /\ ttl' = Forever
  /\ UNCHANGED <<origin, neglected, lag, body>>

\* A time-out leaves open whether Redis did the command.
SetRaises(r) ==
  /\ Ends(r, "set")
  /\ \/ UNCHANGED redis
     \/ entry' = body[r] /\ ttl' = Forever /\ neglected' = TRUE
  /\ UNCHANGED origin

\* Fault: without a ttl of the decorator's own the key is left without one.
EffectiveTtlZero == IF OwnTtl = 0 THEN Forever ELSE OwnTtl

EffectiveTtl == IF OwnTtl # 0 THEN OwnTtl ELSE DefaultTtl

\* EXPIRE does nothing to a key that is gone.
Expire(r) ==
  /\ Ends(r, "expire")
  /\ ttl' = IF entry = NoBody THEN ttl ELSE EffectiveTtl
  /\ neglected' = FALSE
  /\ UNCHANGED <<origin, entry>>

ExpireRaises(r) ==
  /\ Ends(r, "expire")
  /\ neglected' = TRUE
  /\ UNCHANGED <<origin, entry, ttl>>

-----------------------------------------------------------------------------
(* The surroundings: time, Redis and the data.                             *)

Busy(r) == doing[r] # "idle"

\* Ages are counted up to just above the bound of interest.
Oldest == Forever + 2 * MaxLag

Pass ==
  /\ \A r \in Requests : Busy(r) => lag[r] < MaxLag
  /\ lag' = [r \in Requests |-> IF Busy(r) THEN lag[r] + 1 ELSE 0]
  /\ age' = [v \in 1 .. MaxVersion |->
               IF v < data /\ age[v] < Oldest THEN age[v] + 1 ELSE age[v]]
  /\ IF ttl = 1
     THEN entry' = NoBody /\ ttl' = Forever /\ neglected' = FALSE
     ELSE /\ ttl' = IF ttl = Forever THEN ttl ELSE ttl - 1
          /\ UNCHANGED <<entry, neglected>>
  /\ UNCHANGED <<data, doing, body>>

DataChanges ==
  /\ data < MaxVersion
  /\ data' = data + 1
  /\ UNCHANGED <<age, redis, doing, lag, body>>

\* A restart without persistence, or eviction.
RedisForgets ==
  /\ entry # NoBody
  /\ entry' = NoBody /\ ttl' = Forever /\ neglected' = FALSE
  /\ UNCHANGED <<origin, doing, lag, body>>

CacheNext ==
  \/ \E r \in Requests :
       \/ Miss(r) \/ CallView(r) \/ CallViewFails(r)
       \/ Set(r) \/ SetRaises(r) \/ Expire(r) \/ ExpireRaises(r)
  \/ Pass \/ DataChanges \/ RedisForgets

CacheSpec == CacheInit /\ [][CacheNext]_caching

-----------------------------------------------------------------------------
(* Properties.                                                             *)

\* set and expire are two commands of concurrent requests: as long as no
\* expire is lost, no answer from the cache is out of date by more than the
\* time to live and the time of two requests, the one that computed it and
\* another one, which had missed before it was set and expires it anew.
ServedWithin ==
  Hit /\ entry.version < data /\ ~ neglected
    => age[entry.version] < EffectiveTtl + 2 * MaxLag
=============================================================================
