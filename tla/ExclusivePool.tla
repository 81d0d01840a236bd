---------------------------- MODULE ExclusivePool ----------------------------
(***************************************************************************)
(* What a pool promises to the threads that share it, be it the queue of   *)
(* workers of the ZeroMQ client or the connection pools of the PostgreSQL  *)
(* connector: a thread that has none takes an item, is alone with it, and  *)
(* gives it back or drops it; nobody takes an item out of another's hands. *)
(* Where items are not renewed they all come back.                         *)
(***************************************************************************)
CONSTANTS
  Users,     \* threads
  Items,     \* what they share: workers, connections
  Renewed,   \* whether items are made and dropped while the program runs
  Nothing

VARIABLES
  free,      \* the items that wait in the pool
  holds      \* the item in each user's hands

poolState == <<free, holds>>

Init ==
  /\ free \in SUBSET Items
  /\ Renewed \/ free = Items
  /\ holds = [u \in Users |-> Nothing]

Held(i) == \E u \in Users : holds[u] = i

\* A pool that is empty may make the item it gives out.
Take(u, i) ==
  /\ holds[u] = Nothing
  /\ i \in free \/ (Renewed /\ ~ Held(i))
  /\ holds' = [holds EXCEPT ![u] = i]
  /\ free' = free \ {i}

Give(u) ==
  /\ holds[u] # Nothing
  /\ free' = free \cup {holds[u]}
  /\ holds' = [holds EXCEPT ![u] = Nothing]

\* Closed, broken or forgotten.
Drop(u) ==
  /\ Renewed
  /\ holds[u] # Nothing
  /\ holds' = [holds EXCEPT ![u] = Nothing]
  /\ UNCHANGED free

Make(i) ==
  /\ Renewed
  /\ i \notin free /\ ~ Held(i)
  /\ free' = free \cup {i}
  /\ UNCHANGED holds

Next ==
  \/ \E u \in Users : Give(u) \/ Drop(u) \/ \E i \in Items : Take(u, i)
  \/ \E i \in Items : Make(i)

Spec == Init /\ [][Next]_poolState

-----------------------------------------------------------------------------
\* No item is with two users, or with one and in the pool; and none is
\* missing if all were there at first and stay.
Exclusive ==
  /\ \A u \in Users : holds[u] # Nothing =>
       /\ holds[u] \in Items \ free
       /\ \A v \in Users \ {u} : holds[v] # holds[u]
  /\ Renewed \/ \A i \in Items \ free : Held(i)
=============================================================================
