--------------------------- MODULE MqttConnector ---------------------------
(***************************************************************************)
(* The MQTT connector of one server key (src/envoxy/mqtt/dispatcher.py):   *)
(* threads that publish and subscribe, paho clients with their network     *)
(* threads and callbacks, the per-server lock, and the broker.             *)
(*                                                                         *)
(* The lock is a threading.Lock: an actor that holds it and takes it again *)
(* waits for itself.  The paho client is external: connect and reconnect   *)
(* open a link, the network thread that loop_start creates (named here by  *)
(* its client) calls on_connect and on_disconnect and reconnects by itself *)
(* after a drop, and loop_stop joins it.                                   *)
(***************************************************************************)
EXTENDS Naturals, FiniteSets

CONSTANTS
  Threads,       (* application threads                                     *)
  Clients,       (* paho.Client objects; an unused one is created anew      *)
  Topics,
  SlowBroker,    (* whether a CONNACK may miss the 10 waits of 0.1 s, or    *)
                 (* the link drop before it is handled                      *)
  RefusingBroker,(* whether the broker may answer CONNECT with a refusal    *)
  Unreachable,   (* whether opening the TCP connection may fail             *)
  NoActor, NoClient, Message

ASSUME MqttAssumption ==
  /\ Clients \intersect Threads = {}
  /\ NoActor \notin Threads \union Clients
  /\ NoClient \notin Clients
  /\ Message \notin Topics
  /\ SlowBroker \in BOOLEAN /\ RefusingBroker \in BOOLEAN /\ Unreachable \in BOOLEAN

Actors == Threads \union Clients

VARIABLES
  lock,      (* holder of _instance["lock"]                                 *)
  current,   (* _instance["mqtt_client"]                                    *)
  stored,    (* topics in _instance["subscriptions"]                        *)
  connected, (* connected_flag of a client                                  *)
  bad,       (* bad_connection_flag of a client                             *)
  link,      (* a client's connection to the broker                         *)
  subs,      (* the broker's subscriptions for that connection              *)
  pc,        (* where an actor is; "off" is a client without its thread     *)
  job,       (* what it is to send: a topic to subscribe to, or Message     *)
  handled    (* topics a client's on_connect has gone through               *)

clientVars == <<connected, bad, link, subs>>
vars == <<lock, current, stored, clientVars, pc, job, handled>>

CallPC == {"isconn", "choose", "connect", "disconnect", "joining", "newclient",
           "waiting", "reconnect", "send"}
ThreadPC == CallPC \union {"idle"}
NetPC == CallPC \union {"off", "loop", "onconnect", "ondisconnect", "retry"}
LinkState == {"down", "requested", "accepted", "refused", "up", "dropped"}

Goto(a, l) == pc' = [pc EXCEPT ![a] = l]

(* Fault: on_connect returns after its first create_subscription. *)
ReturnAtOnce(a) == Goto(a, "idle")

(* The end of publish or create_subscription: a thread returns, on_connect *)
(* goes on to the next stored subscription.                                *)
Return(a) == Goto(a, IF a \in Clients THEN "onconnect" ELSE "idle")

Open(k) == link[k] \in {"requested", "accepted", "up"}

Init ==
  /\ lock = NoActor /\ current = NoClient /\ stored = {}
  /\ connected = [k \in Clients |-> FALSE]
  /\ bad = [k \in Clients |-> FALSE]
  /\ link = [k \in Clients |-> "down"]
  /\ subs = [k \in Clients |-> {}]
  /\ pc = [a \in Actors |-> IF a \in Clients THEN "off" ELSE "idle"]
  /\ job = [a \in Actors |-> Message]
  /\ handled = [k \in Clients |-> {}]

-----------------------------------------------------------------------------
(* publish and subscribe: append first, then create_subscription. *)

Publish(t) ==
  /\ pc[t] = "idle"
  /\ job' = [job EXCEPT ![t] = Message]
  /\ Goto(t, "isconn")
  /\ UNCHANGED <<lock, current, stored, clientVars, handled>>

Subscribe(t, x) ==
  /\ pc[t] = "idle"
  /\ stored' = stored \union {x}
  /\ job' = [job EXCEPT ![t] = x]
  /\ Goto(t, "isconn")
  /\ UNCHANGED <<lock, current, clientVars, handled>>

IsConnected(a) ==
  /\ pc[a] = "isconn"
  /\ lock = NoActor
  /\ Goto(a, IF current # NoClient /\ connected[current] /\ ~bad[current]
             THEN "send" ELSE "choose")
  /\ UNCHANGED <<lock, current, stored, clientVars, job, handled>>

Choose(a) ==
  /\ pc[a] = "choose"
  /\ Goto(a, IF current = NoClient THEN "connect" ELSE "reconnect")
  /\ UNCHANGED <<lock, current, stored, clientVars, job, handled>>

(* Publish or subscribe on the current client, under the lock; without a   *)
(* client it raises and the call returns False, without a link nothing is  *)
(* sent.                                                                   *)
Send(a) ==
  /\ pc[a] = "send"
  /\ lock = NoActor
  /\ \/ /\ current # NoClient /\ Open(current)
        /\ subs' = [subs EXCEPT ![current] = @ \union ({job[a]} \intersect Topics)]
     \/ /\ current # NoClient => ~Open(current)
        /\ UNCHANGED subs
  /\ Return(a)
  /\ UNCHANGED <<lock, current, stored, connected, bad, link, job, handled>>

-----------------------------------------------------------------------------
(* connect and disconnect *)

(* disconnect looks at the client before it takes the lock. *)
Connect(a) ==
  /\ pc[a] = "connect"
  /\ Goto(a, IF current = NoClient THEN "newclient" ELSE "disconnect")
  /\ UNCHANGED <<lock, current, stored, clientVars, job, handled>>

Disconnect(a) ==
  /\ pc[a] = "disconnect"
  /\ lock = NoActor
  /\ lock' = a
  /\ Goto(a, "joining")
  /\ UNCHANGED <<current, stored, clientVars, job, handled>>

(* loop_stop returns when the network thread has ended; without a client   *)
(* both calls raise and are caught.                                        *)
Joined(a) ==
  /\ pc[a] = "joining"
  /\ current # NoClient => pc[current] = "off"
  /\ current' = NoClient
  /\ lock' = NoActor
  /\ Goto(a, "newclient")
  /\ UNCHANGED <<stored, clientVars, job, handled>>

(* Fault: connect waits for the CONNACK after it released the lock. *)
NewClientUnlocked(a) ==
  /\ pc[a] = "newclient"
  /\ lock = NoActor
  /\ \E k \in Clients \ {current} :
       /\ pc[k] = "off"
       /\ current' = k
       /\ connected' = [connected EXCEPT ![k] = FALSE]
       /\ bad' = [bad EXCEPT ![k] = FALSE]
       /\ subs' = [subs EXCEPT ![k] = {}]
       /\ link' = [link EXCEPT ![k] = "requested"]
       /\ pc' = [pc EXCEPT ![a] = "waiting", ![k] = "loop"]
  /\ UNCHANGED <<lock, stored, job, handled>>

(* A new client that cannot reach the broker stays in the instance, but    *)
(* loop_start is not called for it.                                        *)
NewClient(a) ==
  /\ pc[a] = "newclient"
  /\ lock = NoActor
  /\ \E k \in Clients \ {current} :
       /\ pc[k] = "off"
       /\ current' = k
       /\ connected' = [connected EXCEPT ![k] = FALSE]
       /\ bad' = [bad EXCEPT ![k] = FALSE]
       /\ subs' = [subs EXCEPT ![k] = {}]
       /\ \/ /\ link' = [link EXCEPT ![k] = "requested"]
             /\ lock' = a
             /\ pc' = [pc EXCEPT ![a] = "waiting", ![k] = "loop"]
          \/ /\ Unreachable
             /\ link' = [link EXCEPT ![k] = "down"]
             /\ UNCHANGED lock
             /\ Return(a)
  /\ UNCHANGED <<stored, job, handled>>

(* Fault: connect keeps the lock when it returns. *)
WaitConnectedLocked(a) ==
  /\ pc[a] = "waiting"
  /\ connected[current] /\ ~bad[current]
  /\ Goto(a, "send")
  /\ UNCHANGED <<lock, current, stored, clientVars, job, handled>>

(* Still under the lock: the wait ends with the connection, *)
WaitConnected(a) ==
  /\ pc[a] = "waiting"
  /\ connected[current] /\ ~bad[current]
  /\ lock' = NoActor
  /\ Goto(a, "send")
  /\ UNCHANGED <<current, stored, clientVars, job, handled>>

(* or with a bad connection, or after 10 tries, in a call of disconnect.   *)
WaitFails(a) ==
  /\ pc[a] = "waiting"
  /\ bad[current] \/ (SlowBroker /\ ~connected[current])
  /\ Goto(a, "disconnect")
  /\ UNCHANGED <<lock, current, stored, clientVars, job, handled>>

(* reconnect declares the client connected before the broker answers; if   *)
(* the client is gone it connects, with the lock in its hands.             *)
Reconnect(a) ==
  /\ pc[a] = "reconnect"
  /\ lock = NoActor
  /\ \/ /\ current = NoClient
        /\ lock' = a
        /\ Goto(a, "connect")
        /\ UNCHANGED clientVars
     \/ /\ current # NoClient
        /\ connected' = [connected EXCEPT ![current] = TRUE]
        /\ bad' = [bad EXCEPT ![current] = FALSE]
        /\ link' = [link EXCEPT ![current] = "requested"]
        /\ subs' = [subs EXCEPT ![current] = {}]
        /\ Goto(a, "send")
        /\ UNCHANGED lock
     \/ /\ current # NoClient /\ Unreachable
        /\ link' = [link EXCEPT ![current] = "down"]
        /\ subs' = [subs EXCEPT ![current] = {}]
        /\ Return(a)
        /\ UNCHANGED <<lock, connected, bad>>
  /\ UNCHANGED <<current, stored, job, handled>>

-----------------------------------------------------------------------------
(* The network thread of client k. *)

(* Fault: on_connect recovers the subscriptions only the first time. *)
OnConnectOnce(k) ==
  /\ pc[k] = "loop"
  /\ link[k] = "accepted"
  /\ link' = [link EXCEPT ![k] = "up"]
  /\ connected' = [connected EXCEPT ![k] = TRUE]
  /\ bad' = [bad EXCEPT ![k] = FALSE]
  /\ Goto(k, "onconnect")
  /\ UNCHANGED <<lock, current, stored, subs, job, handled>>

(* on_connect with rc 0 *)
OnConnect(k) ==
  /\ pc[k] = "loop"
  /\ link[k] = "accepted"
  /\ link' = [link EXCEPT ![k] = "up"]
  /\ connected' = [connected EXCEPT ![k] = TRUE]
  /\ bad' = [bad EXCEPT ![k] = FALSE]
  /\ handled' = [handled EXCEPT ![k] = {}]
  /\ Goto(k, "onconnect")
  /\ UNCHANGED <<lock, current, stored, subs, job>>

(* The loop over the stored subscriptions. *)
Recover(k) ==
  /\ pc[k] = "onconnect"
  /\ \/ \E x \in stored \ handled[k] :
          /\ job' = [job EXCEPT ![k] = x]
          /\ handled' = [handled EXCEPT ![k] = @ \union {x}]
          /\ Goto(k, "isconn")
     \/ /\ stored \subseteq handled[k]
        /\ Goto(k, "loop")
        /\ UNCHANGED <<job, handled>>
  /\ UNCHANGED <<lock, current, stored, clientVars>>

(* on_connect with another rc; the broker closes the connection. *)
OnRefused(k) ==
  /\ pc[k] = "loop"
  /\ link[k] = "refused"
  /\ link' = [link EXCEPT ![k] = "down"]
  /\ bad' = [bad EXCEPT ![k] = TRUE]
  /\ Goto(k, "ondisconnect")
  /\ UNCHANGED <<lock, current, stored, connected, subs, job, handled>>

(* disconnect() was called on k and loop_stop waits for this thread. *)
Terminating(k) == k = current /\ \E a \in Actors : pc[a] = "joining"

(* The connection is gone, or disconnect() closes it. *)
ConnectionEnds(k) ==
  /\ pc[k] = "loop"
  /\ link[k] = "dropped" \/ (Terminating(k) /\ link[k] # "down")
  /\ link' = [link EXCEPT ![k] = "down"]
  /\ subs' = [subs EXCEPT ![k] = {}]
  /\ Goto(k, "ondisconnect")
  /\ UNCHANGED <<lock, current, stored, connected, bad, job, handled>>

OnDisconnect(k) ==
  /\ pc[k] = "ondisconnect"
  /\ lock = NoActor
  /\ connected' = [connected EXCEPT ![k] = FALSE]
  /\ Goto(k, "retry")
  /\ UNCHANGED <<lock, current, stored, bad, link, subs, job, handled>>

BetweenLinks(k) == pc[k] = "retry" \/ (pc[k] = "loop" /\ link[k] = "down")

(* paho reconnects by itself, even if an application thread already did. *)
NetRetry(k) ==
  /\ BetweenLinks(k)
  /\ ~Terminating(k)
  /\ link' = [link EXCEPT ![k] = "requested"]
  /\ subs' = [subs EXCEPT ![k] = {}]
  /\ Goto(k, "loop")
  /\ UNCHANGED <<lock, current, stored, connected, bad, job, handled>>

NetEnds(k) ==
  /\ BetweenLinks(k)
  /\ Terminating(k)
  /\ Goto(k, "off")
  /\ UNCHANGED <<lock, current, stored, clientVars, job, handled>>

-----------------------------------------------------------------------------
(* The broker. *)

Accept(k) ==
  /\ link[k] = "requested"
  /\ link' = [link EXCEPT ![k] = "accepted"]
  /\ UNCHANGED <<lock, current, stored, connected, bad, subs, pc, job, handled>>

Refuse(k) ==
  /\ RefusingBroker
  /\ link[k] = "requested"
  /\ link' = [link EXCEPT ![k] = "refused"]
  /\ subs' = [subs EXCEPT ![k] = {}]
  /\ UNCHANGED <<lock, current, stored, connected, bad, pc, job, handled>>

(* The network is lost, or the keepalive of a client without its thread.   *)
Drop(k) ==
  /\ link[k] = "up" \/ (link[k] = "accepted" /\ (SlowBroker \/ pc[k] = "off"))
  /\ link' = [link EXCEPT ![k] = "dropped"]
  /\ subs' = [subs EXCEPT ![k] = {}]
  /\ UNCHANGED <<lock, current, stored, connected, bad, pc, job, handled>>

-----------------------------------------------------------------------------
(* What an actor inside publish or create_subscription does next. *)
Step(a) ==
  \/ IsConnected(a) \/ Choose(a) \/ Send(a) \/ Connect(a) \/ Disconnect(a)
  \/ Joined(a) \/ NewClient(a) \/ WaitConnected(a) \/ WaitFails(a) \/ Reconnect(a)

NetStep(k) ==
  \/ OnConnect(k) \/ Recover(k) \/ OnRefused(k) \/ ConnectionEnds(k)
  \/ OnDisconnect(k) \/ NetRetry(k) \/ NetEnds(k)

Next ==
  \/ \E t \in Threads : Publish(t)
  \/ \E t \in Threads, x \in Topics : Subscribe(t, x)
  \/ \E a \in Actors : Step(a)
  \/ \E k \in Clients : NetStep(k) \/ Accept(k) \/ Refuse(k) \/ Drop(k)

Spec == Init /\ [][Next]_vars

(* Application and network threads run; a broker that got a CONNECT        *)
(* answers it.                                                             *)
FairSpec ==
  /\ Spec
  /\ \A a \in Actors : WF_vars(Step(a))
  /\ \A k \in Clients : WF_vars(NetStep(k)) /\ WF_vars(Accept(k))

-----------------------------------------------------------------------------
TypeOK ==
  /\ lock \in Actors \union {NoActor}
  /\ current \in Clients \union {NoClient}
  /\ stored \in SUBSET Topics
  /\ connected \in [Clients -> BOOLEAN]
  /\ bad \in [Clients -> BOOLEAN]
  /\ link \in [Clients -> LinkState]
  /\ subs \in [Clients -> SUBSET Topics]
  /\ pc \in [Actors -> ThreadPC \union NetPC]
  /\ \A t \in Threads : pc[t] \in ThreadPC
  /\ \A k \in Clients : pc[k] \in NetPC
  /\ job \in [Actors -> Topics \union {Message}]
  /\ handled \in [Clients -> SUBSET Topics]

(* Recovery is complete: while the current client's network thread waits   *)
(* on an accepted connection, every stored topic is subscribed on that     *)
(* very connection, or some call is on its way to subscribe it.  subscribe *)
(* (320-327) may append while on_connect (147-157) walks the list, while   *)
(* another thread reconnects (124-137), and while the link drops.          *)
Resubscribed ==
  current # NoClient /\ pc[current] = "loop" /\ link[current] = "up" =>
    \A x \in stored \ subs[current] : \E a \in Actors : job[a] = x /\ pc[a] \in CallPC

(* connect's loop looks at _instance["mqtt_client"] anew each time it has  *)
(* slept (224-243): meanwhile no other call takes that client away or puts *)
(* another one in its place.                                               *)
ClientStays ==
  [][\A a \in Actors : pc[a] = "waiting" =>
       current # NoClient /\ (pc'[a] = "waiting" => current' = current)]_vars

(* docs/MQTT.md:38: stored topics are subscribed again after a reconnect.  *)
(* Once the broker accepted the current client, each stored topic gets its *)
(* subscription, unless the client is told of the end of its connection or *)
(* a call opens yet another one (and it all starts over).                  *)
ResubscribesAfterReconnect ==
  \A k \in Clients, x \in Topics :
    (current = k /\ x \in stored /\ link[k] = "accepted")
      ~> \/ x \in subs[k]
         \/ pc[k] = "ondisconnect"
         \/ \E a \in Actors : pc[a] \in {"reconnect", "connect"}

(* publish and subscribe come back: the lock, the wait for the CONNACK and *)
(* the callbacks that take the lock never stop each other (85-249).        *)
CallsReturn == \A t \in Threads : (pc[t] # "idle") ~> (pc[t] = "idle")
=============================================================================
