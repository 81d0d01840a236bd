------------------------ MODULE MqttConnector_proofs ------------------------
(***************************************************************************)
(* The MQTT connector for any number of threads, clients and topics,       *)
(* whatever the broker does: no subscription is forgotten while a          *)
(* connection lasts.  Resubscribed speaks of the moments when on_connect   *)
(* is not at work; the invariant that carries it, Recovering, says in      *)
(* addition which topics on_connect has yet to come to.  Two theorems say  *)
(* which states a call does not come out of again.                         *)
(***************************************************************************)
EXTENDS MqttConnector, TLAPS

(* Some call is on its way to subscribe the topic. *)
Covered(x) == \E a \in Actors : job[a] = x /\ pc[a] \in CallPC

(* on_connect is running in the network thread of k, or one of the calls   *)
(* that it makes.                                                          *)
InCallback(k) == pc[k] \in CallPC \union {"onconnect"}

(* While the current client's connection is up, a stored topic is          *)
(* subscribed on it, or will be by a call under way, or on_connect has not *)
(* come to it yet.                                                         *)
Recovering ==
  current # NoClient /\ link[current] = "up" =>
    \A x \in stored :
      \/ x \in subs[current]
      \/ Covered(x)
      \/ InCallback(current) /\ x \notin handled[current]

-----------------------------------------------------------------------------
LEMMA InitTyped == Init => TypeOK
  BY MqttAssumption
     DEF Init, TypeOK, Actors, LinkState, ThreadPC, NetPC, CallPC

LEMMA TypeStep == TypeOK /\ [Next]_vars => TypeOK'
<1> SUFFICES ASSUME TypeOK, [Next]_vars PROVE TypeOK'
  OBVIOUS
<1> USE MqttAssumption
    DEF clientVars, Goto, Return, Actors, LinkState, ThreadPC, NetPC, CallPC
<1>1. ASSUME NEW t \in Threads, Publish(t) PROVE TypeOK'
  BY <1>1 DEF Publish, TypeOK
<1>2. ASSUME NEW t \in Threads, NEW x \in Topics, Subscribe(t, x) PROVE TypeOK'
  BY <1>2 DEF Subscribe, TypeOK
<1>3. ASSUME NEW a \in Actors, IsConnected(a) PROVE TypeOK'
  BY <1>3 DEF IsConnected, TypeOK
<1>4. ASSUME NEW a \in Actors, Choose(a) PROVE TypeOK'
  BY <1>4 DEF Choose, TypeOK
<1>5. ASSUME NEW a \in Actors, Send(a) PROVE TypeOK'
  BY <1>5 DEF Send, TypeOK
<1>6. ASSUME NEW a \in Actors, Connect(a) PROVE TypeOK'
  BY <1>6 DEF Connect, TypeOK
<1>7. ASSUME NEW a \in Actors, Disconnect(a) PROVE TypeOK'
  BY <1>7 DEF Disconnect, TypeOK
<1>8. ASSUME NEW a \in Actors, Joined(a) PROVE TypeOK'
  BY <1>8 DEF Joined, TypeOK
<1>9. ASSUME NEW a \in Actors, NewClient(a) PROVE TypeOK'
  BY <1>9 DEF NewClient, TypeOK
<1>10. ASSUME NEW a \in Actors, WaitConnected(a) PROVE TypeOK'
  BY <1>10 DEF WaitConnected, TypeOK
<1>11. ASSUME NEW a \in Actors, WaitFails(a) PROVE TypeOK'
  BY <1>11 DEF WaitFails, TypeOK
<1>12. ASSUME NEW a \in Actors, Reconnect(a) PROVE TypeOK'
  <2>1. CASE current = NoClient
    BY <1>12, <2>1 DEF Reconnect, TypeOK
  <2>2. CASE current # NoClient
    <3>1. pc' \in [Actors -> ThreadPC \union NetPC]
      BY <1>12 DEF Reconnect, TypeOK
    <3>2. /\ \A t \in Threads : pc'[t] \in ThreadPC
          /\ \A k \in Clients : pc'[k] \in NetPC
      BY <1>12 DEF Reconnect, TypeOK
    <3>3. /\ connected' \in [Clients -> BOOLEAN] /\ bad' \in [Clients -> BOOLEAN]
          /\ link' \in [Clients -> LinkState] /\ subs' \in [Clients -> SUBSET Topics]
      BY <1>12, <2>2 DEF Reconnect, TypeOK
    <3> QED
      BY <1>12, <2>2, <3>1, <3>2, <3>3 DEF Reconnect, TypeOK
  <2> QED
    BY <2>1, <2>2
<1>13. ASSUME NEW k \in Clients, OnConnect(k) PROVE TypeOK'
  BY <1>13 DEF OnConnect, TypeOK
<1>14. ASSUME NEW k \in Clients, Recover(k) PROVE TypeOK'
  BY <1>14 DEF Recover, TypeOK
<1>15. ASSUME NEW k \in Clients, OnRefused(k) PROVE TypeOK'
  BY <1>15 DEF OnRefused, TypeOK
<1>16. ASSUME NEW k \in Clients, ConnectionEnds(k) PROVE TypeOK'
  BY <1>16 DEF ConnectionEnds, TypeOK
<1>17. ASSUME NEW k \in Clients, OnDisconnect(k) PROVE TypeOK'
  BY <1>17 DEF OnDisconnect, TypeOK
<1>18. ASSUME NEW k \in Clients, NetRetry(k) PROVE TypeOK'
  BY <1>18 DEF NetRetry, TypeOK
<1>19. ASSUME NEW k \in Clients, NetEnds(k) PROVE TypeOK'
  BY <1>19 DEF NetEnds, TypeOK
<1>20. ASSUME NEW k \in Clients, Accept(k) PROVE TypeOK'
  BY <1>20 DEF Accept, TypeOK
<1>21. ASSUME NEW k \in Clients, Refuse(k) PROVE TypeOK'
  BY <1>21 DEF Refuse, TypeOK
<1>22. ASSUME NEW k \in Clients, Drop(k) PROVE TypeOK'
  BY <1>22 DEF Drop, TypeOK
<1>23. CASE UNCHANGED vars
  BY <1>23 DEF vars, TypeOK
<1> QED
  BY <1>1, <1>2, <1>3, <1>4, <1>5, <1>6, <1>7, <1>8, <1>9, <1>10, <1>11, <1>12,
     <1>13, <1>14, <1>15, <1>16, <1>17, <1>18, <1>19, <1>20, <1>21, <1>22,
     <1>23 DEF Next, Step, NetStep

-----------------------------------------------------------------------------
LEMMA RecoveringStep == TypeOK /\ Recovering /\ [Next]_vars => Recovering'
<1> SUFFICES ASSUME TypeOK, Recovering, [Next]_vars PROVE Recovering'
  OBVIOUS
<1> USE MqttAssumption
    DEF clientVars, Goto, Return, Actors, CallPC, Covered, InCallback
<1>1. ASSUME NEW t \in Threads, Publish(t) PROVE Recovering'
  BY <1>1 DEF Publish, TypeOK, Recovering
<1>2. ASSUME NEW t \in Threads, NEW x \in Topics, Subscribe(t, x)
      PROVE  Recovering'
  BY <1>2 DEF Subscribe, TypeOK, Recovering
<1>3. ASSUME NEW a \in Actors, IsConnected(a) PROVE Recovering'
  BY <1>3 DEF IsConnected, TypeOK, Recovering
<1>4. ASSUME NEW a \in Actors, Choose(a) PROVE Recovering'
  BY <1>4 DEF Choose, TypeOK, Recovering
<1>5. ASSUME NEW a \in Actors, Send(a) PROVE Recovering'
  <2>1. /\ pc[a] = "send" /\ UNCHANGED <<current, stored, link, job, handled>>
        /\ \E l \in {"onconnect", "idle"} :
             pc' = [pc EXCEPT ![a] = l] /\ (a \in Clients => l = "onconnect")
    BY <1>5 DEF Send
  <2> SUFFICES ASSUME current # NoClient, link[current] = "up", NEW x \in stored
               PROVE  \/ x \in subs'[current] \/ Covered(x)'
                      \/ InCallback(current)' /\ x \notin handled[current]
    BY <2>1 DEF Recovering
  <2>2. current \in Clients /\ x \in Topics
    BY DEF TypeOK
  <2>3. subs' = [subs EXCEPT ![current] = @ \union ({job[a]} \intersect Topics)]
    BY <1>5 DEF Send, Open
  <2>4. subs[current] \subseteq subs'[current] /\ (job[a] = x => x \in subs'[current])
    BY <2>2, <2>3 DEF TypeOK
  <2>5. Covered(x) => Covered(x)' \/ job[a] = x
    BY <2>1 DEF TypeOK
  <2>6. InCallback(current) => InCallback(current)'
    BY <2>1, <2>2 DEF TypeOK
  <2> QED
    BY <2>4, <2>5, <2>6 DEF Recovering
<1>6. ASSUME NEW a \in Actors, Connect(a) PROVE Recovering'
  BY <1>6 DEF Connect, TypeOK, Recovering
<1>7. ASSUME NEW a \in Actors, Disconnect(a) PROVE Recovering'
  BY <1>7 DEF Disconnect, TypeOK, Recovering
<1>8. ASSUME NEW a \in Actors, Joined(a) PROVE Recovering'
  BY <1>8 DEF Joined, TypeOK, Recovering
<1>9. ASSUME NEW a \in Actors, NewClient(a) PROVE Recovering'
  BY <1>9 DEF NewClient, TypeOK, Recovering
<1>10. ASSUME NEW a \in Actors, WaitConnected(a) PROVE Recovering'
  BY <1>10 DEF WaitConnected, TypeOK, Recovering
<1>11. ASSUME NEW a \in Actors, WaitFails(a) PROVE Recovering'
  BY <1>11 DEF WaitFails, TypeOK, Recovering
<1>12. ASSUME NEW a \in Actors, Reconnect(a) PROVE Recovering'
  BY <1>12 DEF Reconnect, TypeOK, Recovering
<1>13. ASSUME NEW k \in Clients, OnConnect(k) PROVE Recovering'
  BY <1>13 DEF OnConnect, TypeOK, Recovering
<1>14. ASSUME NEW k \in Clients, Recover(k) PROVE Recovering'
  BY <1>14 DEF Recover, TypeOK, Recovering
<1>15. ASSUME NEW k \in Clients, OnRefused(k) PROVE Recovering'
  BY <1>15 DEF OnRefused, TypeOK, Recovering
<1>16. ASSUME NEW k \in Clients, ConnectionEnds(k) PROVE Recovering'
  BY <1>16 DEF ConnectionEnds, TypeOK, Recovering
<1>17. ASSUME NEW k \in Clients, OnDisconnect(k) PROVE Recovering'
  BY <1>17 DEF OnDisconnect, TypeOK, Recovering
<1>18. ASSUME NEW k \in Clients, NetRetry(k) PROVE Recovering'
  <2>1. /\ pc[k] \notin CallPC \union {"onconnect"}
        /\ pc' = [pc EXCEPT ![k] = "loop"] /\ UNCHANGED <<current, stored, job, handled>>
    BY <1>18 DEF NetRetry, BetweenLinks
  <2>2. \A x \in Topics : Covered(x) => Covered(x)'
    BY <2>1 DEF TypeOK
  <2>3. \A j \in Clients : InCallback(j) => InCallback(j)'
    BY <2>1 DEF TypeOK
  <2>4. \A j \in Clients :
          link'[j] = "up" => link[j] = "up" /\ subs'[j] = subs[j]
    BY <1>18 DEF NetRetry, TypeOK
  <2> QED
    BY <2>1, <2>2, <2>3, <2>4 DEF TypeOK, Recovering
<1>19. ASSUME NEW k \in Clients, NetEnds(k) PROVE Recovering'
  <2>1. /\ pc[k] \notin CallPC \union {"onconnect"}
        /\ pc' = [pc EXCEPT ![k] = "off"] /\ UNCHANGED <<current, stored, job, handled>>
    BY <1>19 DEF NetEnds, BetweenLinks
  <2>2. \A x \in Topics : Covered(x) => Covered(x)'
    BY <2>1 DEF TypeOK
  <2>3. \A j \in Clients : InCallback(j) => InCallback(j)'
    BY <2>1 DEF TypeOK
  <2>4. UNCHANGED <<link, subs>>
    BY <1>19 DEF NetEnds, TypeOK
  <2> QED
    BY <2>1, <2>2, <2>3, <2>4 DEF TypeOK, Recovering
<1>20. ASSUME NEW k \in Clients, Accept(k) PROVE Recovering'
  BY <1>20 DEF Accept, TypeOK, Recovering
<1>21. ASSUME NEW k \in Clients, Refuse(k) PROVE Recovering'
  BY <1>21 DEF Refuse, TypeOK, Recovering
<1>22. ASSUME NEW k \in Clients, Drop(k) PROVE Recovering'
  BY <1>22 DEF Drop, TypeOK, Recovering
<1>23. CASE UNCHANGED vars
  BY <1>23 DEF vars, TypeOK, Recovering
<1> QED
  BY <1>1, <1>2, <1>3, <1>4, <1>5, <1>6, <1>7, <1>8, <1>9, <1>10, <1>11, <1>12,
     <1>13, <1>14, <1>15, <1>16, <1>17, <1>18, <1>19, <1>20, <1>21, <1>22,
     <1>23 DEF Next, Step, NetStep

LEMMA InitRecovering == Init => Recovering
  BY DEF Init, Recovering

-----------------------------------------------------------------------------
(* The lock. *)

(* The lock is held from disconnect to the end of loop_stop, from the new  *)
(* client to the end of the wait for its CONNACK, and by a call of connect *)
(* from reconnect; whoever joins or waits holds it, and a client that is   *)
(* waited for is there.                                                    *)
Held ==
  \A a \in Actors :
    /\ pc[a] \in {"joining", "waiting"} => lock = a
    /\ pc[a] = "waiting" => current # NoClient

LEMMA HeldStep == TypeOK /\ Held /\ [Next]_vars => Held'
<1> SUFFICES ASSUME TypeOK, Held, [Next]_vars PROVE Held'
  OBVIOUS
<1> USE MqttAssumption DEF clientVars, Goto, Return, Actors
<1>1. ASSUME NEW t \in Threads, Publish(t) PROVE Held'
  BY <1>1 DEF Publish, TypeOK, Held
<1>2. ASSUME NEW t \in Threads, NEW x \in Topics, Subscribe(t, x) PROVE Held'
  BY <1>2 DEF Subscribe, TypeOK, Held
<1>3. ASSUME NEW a \in Actors, IsConnected(a) PROVE Held'
  BY <1>3 DEF IsConnected, TypeOK, Held
<1>4. ASSUME NEW a \in Actors, Choose(a) PROVE Held'
  BY <1>4 DEF Choose, TypeOK, Held
<1>5. ASSUME NEW a \in Actors, Send(a) PROVE Held'
  BY <1>5 DEF Send, TypeOK, Held
<1>6. ASSUME NEW a \in Actors, Connect(a) PROVE Held'
  BY <1>6 DEF Connect, TypeOK, Held
<1>7. ASSUME NEW a \in Actors, Disconnect(a) PROVE Held'
  BY <1>7 DEF Disconnect, TypeOK, Held
<1>8. ASSUME NEW a \in Actors, Joined(a) PROVE Held'
  BY <1>8 DEF Joined, TypeOK, Held
<1>9. ASSUME NEW a \in Actors, NewClient(a) PROVE Held'
  BY <1>9 DEF NewClient, TypeOK, Held
<1>10. ASSUME NEW a \in Actors, WaitConnected(a) PROVE Held'
  BY <1>10 DEF WaitConnected, TypeOK, Held
<1>11. ASSUME NEW a \in Actors, WaitFails(a) PROVE Held'
  BY <1>11 DEF WaitFails, TypeOK, Held
<1>12. ASSUME NEW a \in Actors, Reconnect(a) PROVE Held'
  BY <1>12 DEF Reconnect, TypeOK, Held
<1>13. ASSUME NEW k \in Clients, OnConnect(k) PROVE Held'
  BY <1>13 DEF OnConnect, TypeOK, Held
<1>14. ASSUME NEW k \in Clients, Recover(k) PROVE Held'
  BY <1>14 DEF Recover, TypeOK, Held
<1>15. ASSUME NEW k \in Clients, OnRefused(k) PROVE Held'
  BY <1>15 DEF OnRefused, TypeOK, Held
<1>16. ASSUME NEW k \in Clients, ConnectionEnds(k) PROVE Held'
  BY <1>16 DEF ConnectionEnds, TypeOK, Held
<1>17. ASSUME NEW k \in Clients, OnDisconnect(k) PROVE Held'
  BY <1>17 DEF OnDisconnect, TypeOK, Held
<1>18. ASSUME NEW k \in Clients, NetRetry(k) PROVE Held'
  BY <1>18 DEF NetRetry, TypeOK, Held
<1>19. ASSUME NEW k \in Clients, NetEnds(k) PROVE Held'
  BY <1>19 DEF NetEnds, TypeOK, Held
<1>20. ASSUME NEW k \in Clients, Accept(k) PROVE Held'
  BY <1>20 DEF Accept, TypeOK, Held
<1>21. ASSUME NEW k \in Clients, Refuse(k) PROVE Held'
  BY <1>21 DEF Refuse, TypeOK, Held
<1>22. ASSUME NEW k \in Clients, Drop(k) PROVE Held'
  BY <1>22 DEF Drop, TypeOK, Held
<1>23. CASE UNCHANGED vars
  BY <1>23 DEF vars, TypeOK, Held
<1> QED
  BY <1>1, <1>2, <1>3, <1>4, <1>5, <1>6, <1>7, <1>8, <1>9, <1>10, <1>11, <1>12,
     <1>13, <1>14, <1>15, <1>16, <1>17, <1>18, <1>19, <1>20, <1>21, <1>22,
     <1>23 DEF Next, Step, NetStep

-----------------------------------------------------------------------------
IInv == TypeOK /\ Recovering /\ Held

LEMMA Inductive == Spec => []IInv
<1>1. Init => IInv
  BY InitTyped, InitRecovering DEF Init, Held, Actors, IInv
<1>2. IInv /\ [Next]_vars => IInv'
  BY TypeStep, RecoveringStep, HeldStep DEF IInv
<1> QED
  BY <1>1, <1>2, PTL DEF Spec

(* Types: the flags, links and subscriptions of the connector keep theirs, *)
(* and no actor is where its kind cannot be: a thread in a callback, a     *)
(* network thread idle.                                                    *)
THEOREM TypesHold == Spec => []TypeOK
<1>1. IInv => TypeOK
  BY DEF IInv
<1> QED
  BY <1>1, Inductive, PTL

(* on_connect's recovery is complete although subscribe appends while it   *)
(* walks the list, other threads reconnect and the link drops: once the    *)
(* network thread is back in its loop on a connection that is up, a stored *)
(* topic is subscribed on it or a call is about to do it.                  *)
THEOREM SubscriptionsRecovered == Spec => []Resubscribed
<1>1. IInv => Resubscribed
  BY DEF IInv, Recovering, InCallback, Covered, Resubscribed, CallPC
<1> QED
  BY <1>1, Inductive, PTL

(* disconnect, the new client and the wait for its CONNACK are one section *)
(* of the lock, whatever reconnect does with it: the client connect waits  *)
(* for is there until the wait is over.                                    *)
THEOREM AwaitedClientStays == Spec => ClientStays
<1> DEFINE Stays ==
      \A a \in Actors : pc[a] = "waiting" =>
        current # NoClient /\ (pc'[a] = "waiting" => current' = current)
<1>1. IInv /\ [Next]_vars => [Stays]_vars
  <2> SUFFICES ASSUME IInv, Next, NEW a \in Actors, pc[a] = "waiting"
               PROVE  /\ current # NoClient
                      /\ pc'[a] = "waiting" => current' = current
    OBVIOUS
  <2>1. TypeOK /\ lock = a /\ lock # NoActor /\ current # NoClient
    BY MqttAssumption DEF IInv, Held, Actors
  <2>2. ASSUME NEW b \in Actors, Joined(b)
        PROVE  pc'[a] = "waiting" => current' = current
    <3>1. b = a
      BY <2>1, <2>2 DEF Joined, IInv, Held
    <3> QED
      BY <2>2, <3>1 DEF Joined
  <2>3. ASSUME NEW b \in Actors PROVE ~ NewClient(b)
    BY <2>1 DEF NewClient
  <2>4. current' = current \/ \E b \in Actors : Joined(b) \/ NewClient(b)
    BY DEF Next, Step, NetStep, Publish, Subscribe, IsConnected, Choose, Send,
           Connect, Disconnect, WaitConnected, WaitFails, Reconnect, OnConnect,
           Recover, OnRefused, ConnectionEnds, OnDisconnect, NetRetry, NetEnds,
           Accept, Refuse, Drop
  <2> QED
    BY <2>1, <2>2, <2>3, <2>4
<1>2. Spec => [][Stays]_vars
  BY <1>1, Inductive, PTL DEF Spec
<1> QED
  BY <1>2 DEF ClientStays

-----------------------------------------------------------------------------
(* What never ends. *)

(* A current client without its network thread. *)
Threadless == current # NoClient /\ pc[current] = "off"

LEMMA StaysThreadless ==
  ASSUME TypeOK, [Next]_vars, Threadless, UNCHANGED current
  PROVE  pc'[current] = "off"
<1> USE MqttAssumption DEF clientVars, Goto, Return, Actors, TypeOK, Threadless
<1>1. ASSUME NEW t \in Threads, Publish(t) PROVE pc'[current] = "off"
  BY <1>1 DEF Publish
<1>2. ASSUME NEW t \in Threads, NEW x \in Topics, Subscribe(t, x) PROVE pc'[current] = "off"
  BY <1>2 DEF Subscribe
<1>3. ASSUME NEW a \in Actors, IsConnected(a) PROVE pc'[current] = "off"
  BY <1>3 DEF IsConnected
<1>4. ASSUME NEW a \in Actors, Choose(a) PROVE pc'[current] = "off"
  BY <1>4 DEF Choose
<1>5. ASSUME NEW a \in Actors, Send(a) PROVE pc'[current] = "off"
  BY <1>5 DEF Send
<1>6. ASSUME NEW a \in Actors, Connect(a) PROVE pc'[current] = "off"
  BY <1>6 DEF Connect
<1>7. ASSUME NEW a \in Actors, Disconnect(a) PROVE pc'[current] = "off"
  BY <1>7 DEF Disconnect
<1>8. ASSUME NEW a \in Actors, Joined(a) PROVE pc'[current] = "off"
  BY <1>8 DEF Joined
<1>9. ASSUME NEW a \in Actors, NewClient(a) PROVE pc'[current] = "off"
  BY <1>9 DEF NewClient
<1>10. ASSUME NEW a \in Actors, WaitConnected(a) PROVE pc'[current] = "off"
  BY <1>10 DEF WaitConnected
<1>11. ASSUME NEW a \in Actors, WaitFails(a) PROVE pc'[current] = "off"
  BY <1>11 DEF WaitFails
<1>12. ASSUME NEW a \in Actors, Reconnect(a) PROVE pc'[current] = "off"
  BY <1>12 DEF Reconnect
<1>13. ASSUME NEW k \in Clients, OnConnect(k) PROVE pc'[current] = "off"
  BY <1>13 DEF OnConnect
<1>14. ASSUME NEW k \in Clients, Recover(k) PROVE pc'[current] = "off"
  BY <1>14 DEF Recover
<1>15. ASSUME NEW k \in Clients, OnRefused(k) PROVE pc'[current] = "off"
  BY <1>15 DEF OnRefused
<1>16. ASSUME NEW k \in Clients, ConnectionEnds(k) PROVE pc'[current] = "off"
  BY <1>16 DEF ConnectionEnds
<1>17. ASSUME NEW k \in Clients, OnDisconnect(k) PROVE pc'[current] = "off"
  BY <1>17 DEF OnDisconnect
<1>18. ASSUME NEW k \in Clients, NetRetry(k) PROVE pc'[current] = "off"
  BY <1>18 DEF NetRetry, BetweenLinks
<1>19. ASSUME NEW k \in Clients, NetEnds(k) PROVE pc'[current] = "off"
  BY <1>19 DEF NetEnds, BetweenLinks
<1>20. ASSUME NEW k \in Clients, Accept(k) PROVE pc'[current] = "off"
  BY <1>20 DEF Accept
<1>21. ASSUME NEW k \in Clients, Refuse(k) PROVE pc'[current] = "off"
  BY <1>21 DEF Refuse
<1>22. ASSUME NEW k \in Clients, Drop(k) PROVE pc'[current] = "off"
  BY <1>22 DEF Drop
<1>23. CASE UNCHANGED vars
  BY <1>23 DEF vars
<1> QED
  BY <1>1, <1>2, <1>3, <1>4, <1>5, <1>6, <1>7, <1>8, <1>9, <1>10, <1>11, <1>12,
     <1>13, <1>14, <1>15, <1>16, <1>17, <1>18, <1>19, <1>20, <1>21, <1>22,
     <1>23 DEF Next, Step, NetStep

(* connect at line 208 raised, so that loop_start at line 210 was not      *)
(* reached: as long as that client stays in the instance, no call starts   *)
(* its network thread, and on_connect, which would subscribe the stored    *)
(* topics (docs/MQTT.md:38), does not run.                                 *)
THEOREM LoopNeverStarts ==
  Spec => [][current # NoClient /\ pc[current] = "off" /\ current' = current
               => pc'[current] = "off"]_vars
<1>1. IInv /\ [Next]_vars
        => [current # NoClient /\ pc[current] = "off" /\ current' = current
              => pc'[current] = "off"]_vars
  BY StaysThreadless DEF IInv, Threadless
<1> QED
  BY <1>1, Inductive, PTL DEF Spec

(* In disconnect or connect with the lock in its own hands. *)
Entangled(a) ==
  lock = a /\ pc[a] \in {"connect", "newclient", "disconnect"}

LEMMA StaysEntangled ==
  ASSUME TypeOK, Held, [Next]_vars, NEW b \in Actors, Entangled(b)
  PROVE  Entangled(b)'
<1> USE MqttAssumption DEF clientVars, Goto, Return, Actors, TypeOK, Entangled
<1>1. ASSUME NEW t \in Threads, Publish(t) PROVE Entangled(b)'
  BY <1>1 DEF Publish
<1>2. ASSUME NEW t \in Threads, NEW x \in Topics, Subscribe(t, x) PROVE Entangled(b)'
  BY <1>2 DEF Subscribe
<1>3. ASSUME NEW a \in Actors, IsConnected(a) PROVE Entangled(b)'
  BY <1>3 DEF IsConnected
<1>4. ASSUME NEW a \in Actors, Choose(a) PROVE Entangled(b)'
  BY <1>4 DEF Choose
<1>5. ASSUME NEW a \in Actors, Send(a) PROVE Entangled(b)'
  BY <1>5 DEF Send
<1>6. ASSUME NEW a \in Actors, Connect(a) PROVE Entangled(b)'
  BY <1>6 DEF Connect
<1>7. ASSUME NEW a \in Actors, Disconnect(a) PROVE Entangled(b)'
  BY <1>7 DEF Disconnect
<1>8. ASSUME NEW a \in Actors, Joined(a) PROVE Entangled(b)'
  BY <1>8 DEF Joined, Held
<1>9. ASSUME NEW a \in Actors, NewClient(a) PROVE Entangled(b)'
  BY <1>9 DEF NewClient
<1>10. ASSUME NEW a \in Actors, WaitConnected(a) PROVE Entangled(b)'
  BY <1>10 DEF WaitConnected, Held
<1>11. ASSUME NEW a \in Actors, WaitFails(a) PROVE Entangled(b)'
  BY <1>11 DEF WaitFails
<1>12. ASSUME NEW a \in Actors, Reconnect(a) PROVE Entangled(b)'
  BY <1>12 DEF Reconnect
<1>13. ASSUME NEW k \in Clients, OnConnect(k) PROVE Entangled(b)'
  BY <1>13 DEF OnConnect
<1>14. ASSUME NEW k \in Clients, Recover(k) PROVE Entangled(b)'
  BY <1>14 DEF Recover
<1>15. ASSUME NEW k \in Clients, OnRefused(k) PROVE Entangled(b)'
  BY <1>15 DEF OnRefused
<1>16. ASSUME NEW k \in Clients, ConnectionEnds(k) PROVE Entangled(b)'
  BY <1>16 DEF ConnectionEnds
<1>17. ASSUME NEW k \in Clients, OnDisconnect(k) PROVE Entangled(b)'
  BY <1>17 DEF OnDisconnect
<1>18. ASSUME NEW k \in Clients, NetRetry(k) PROVE Entangled(b)'
  BY <1>18 DEF NetRetry, BetweenLinks
<1>19. ASSUME NEW k \in Clients, NetEnds(k) PROVE Entangled(b)'
  BY <1>19 DEF NetEnds, BetweenLinks
<1>20. ASSUME NEW k \in Clients, Accept(k) PROVE Entangled(b)'
  BY <1>20 DEF Accept
<1>21. ASSUME NEW k \in Clients, Refuse(k) PROVE Entangled(b)'
  BY <1>21 DEF Refuse
<1>22. ASSUME NEW k \in Clients, Drop(k) PROVE Entangled(b)'
  BY <1>22 DEF Drop
<1>23. CASE UNCHANGED vars
  BY <1>23 DEF vars
<1> QED
  BY <1>1, <1>2, <1>3, <1>4, <1>5, <1>6, <1>7, <1>8, <1>9, <1>10, <1>11, <1>12,
     <1>13, <1>14, <1>15, <1>16, <1>17, <1>18, <1>19, <1>20, <1>21, <1>22,
     <1>23 DEF Next, Step, NetStep

(* A call that connects or disconnects with the lock in its own hands (a   *)
(* CONNACK that is refused or late, lines 241 and 246; reconnect without a *)
(* client, line 140) waits for itself for ever, and keeps the lock.        *)
THEOREM SelfDeadlock ==
  Spec => [][\A a \in Actors :
               lock = a /\ pc[a] \in {"connect", "newclient", "disconnect"} =>
                 lock' = a /\ pc'[a] \in {"connect", "newclient", "disconnect"}]_vars
<1>1. IInv /\ [Next]_vars
        => [\A a \in Actors :
               lock = a /\ pc[a] \in {"connect", "newclient", "disconnect"} =>
                 lock' = a /\ pc'[a] \in {"connect", "newclient", "disconnect"}]_vars
  BY StaysEntangled DEF IInv, Entangled
<1> QED
  BY <1>1, Inductive, PTL DEF Spec
=============================================================================
