--------------------------- MODULE PgClient_proofs ---------------------------
(***************************************************************************)
(* The PostgreSQL connector for any number of threads, servers, pools and  *)
(* connections and any max_conn: each safety invariant that its run checks *)
(* follows from one inductive invariant.  Its parts say what a call knows  *)
(* at each of its steps (Called), which pool objects there are (Dialled),  *)
(* that a connection is in one place (Apart), that one whose rollback      *)
(* raised in putconn stays with its pool (Stranded), whose work is on it   *)
(* (Worked), how the semaphores count (PermitsMatch) and who answers for   *)
(* what a pool has given out (Answered).  From it also follow that the     *)
(* pools together are an ExclusivePool, on whose server a query runs, and  *)
(* that a reload which connects waits for itself.                          *)
(***************************************************************************)
EXTENDS PgClient, FiniteSetTheorems, TLAPS

(* The steps of a call that has not taken a connection yet, of one that    *)
(* has it, and between the two halves of getconn or putconn; of a call     *)
(* that has read the pool to put its connection into, and of one that has  *)
(* not used its connection yet.                                            *)
Before  == {"idle", "connecting", "storing", "acquiring", "getting"}
Holding == {"checking", "discarding", "setting", "executing", "releasing",
            "rechecking", "putting", "dropping"}
Halfway == {"getting", "signalling", "discarded"}
Putting == {"rechecking", "putting", "dropping"}
Unused  == {"checking", "setting", "executing"}

Between(p) == {t \in Threads : pc[t] \in Halfway /\ via[t] = p}

(* A call goes on with the server it began with, whose pool objects are    *)
(* the only ones it gets from and puts into, and puts back once only.      *)
Called ==
  /\ \A a \in Actors :
       /\ pc[a] # "idle" => home[a] \in Servers /\ entry[home[a]] # "absent"
       /\ pc[a] = "storing" => via[a] \in Pools /\ dial[via[a]] = home[a]
  /\ \A t \in Threads :
       /\ pc[t] \in ThreadPC
       /\ pc[t] \in Halfway \union Putting =>
            via[t] \in Pools /\ dial[via[t]] = home[t]
       /\ pc[t] \notin {"idle", "connecting", "storing"} =>
            pool[home[t]] \in Pools
       /\ pc[t] \in Before => conn[t] = NoConn
       /\ pc[t] \in Holding =>
            /\ conn[t] \in Conns /\ conn[t] \notin stuck
            /\ \E p \in Pools : dial[p] = home[t] /\ conn[t] \in used[p]

(* Pool objects are created for a server that was configured at some time, *)
(* and one that is not created yet has given out nothing.                  *)
Dialled ==
  /\ \A s \in Servers : pool[s] # NoPool => dial[pool[s]] = s
  /\ \A p \in Pools :
       /\ dial[p] # NoServer => entry[dial[p]] # "absent"
       /\ dial[p] = NoServer => permits[p] = MaxConn /\ used[p] = {}

(* A connection idle in a pool is neither idle in another one nor counted  *)
(* as given out by any; one given out is given out by one pool.            *)
Apart ==
  \A p, q \in Pools :
    /\ idle[p] \intersect used[q] = {}
    /\ p # q => /\ idle[p] \intersect idle[q] = {}
                /\ used[p] \intersect used[q] = {}

(* A connection whose rollback raised in putconn is one that a pool still  *)
(* counts as given out.                                                    *)
Stranded == \A c \in stuck : \E p \in Pools : c \in used[p]

(* Work is uncommitted only on connections that are open, on none in a     *)
(* pool and on none that a thread has got and not used yet.                *)
Worked ==
  /\ \A c \in Conns : work[c] # NoThread => c \in open
  /\ \A p \in Pools : \A c \in idle[p] : work[c] = NoThread
  /\ \A t \in Threads : pc[t] \in Unused => work[conn[t]] = NoThread

(* What the pool of a configured server has given out is in some thread's  *)
(* hands and not only in the local variable of a call that put it back.    *)
Answered ==
  \A p \in Pools : SolePool(p) /\ entry[dial[p]] = "present" =>
    \A c \in used[p] :
      c \in lost \union stuck \/ \E t \in Threads : c \in InHand(t)

IInv ==
  /\ TypeOK /\ Called /\ Dialled /\ Apart /\ Stranded /\ ConnectionExclusive
  /\ Worked /\ PermitsMatch /\ Answered

-----------------------------------------------------------------------------
(* Types. *)

LEMMA InitTyped == Init => TypeOK
<1> SUFFICES ASSUME Init PROVE TypeOK
  OBVIOUS
<1>1. pool \in [Servers -> Pools \union {NoPool}]
  <2>1. \A s \in Pooled : \E p \in Pools : dial[p] = s
    BY DEF Init
  <2>2. \A s \in Pooled : (CHOOSE p \in Pools : dial[p] = s) \in Pools
    BY <2>1
  <2> QED
    BY <2>2 DEF Init
<1>2. permits \in [Pools -> 0 .. MaxConn] /\ tries \in [Threads -> 0 .. MaxRetries]
  BY PgAssumption DEF Init
<1>3. dial \in [Pools -> Servers \union {NoServer}]
  BY PgAssumption DEF Init
<1>4. /\ idle \in [Pools -> SUBSET Conns]
      /\ open \in SUBSET Conns
  <2>1. idle \in [Pools -> SUBSET Conns]
    BY DEF Init
  <2> QED
    BY <2>1 DEF Init
<1> QED
  BY <1>1, <1>2, <1>3, <1>4 DEF Init, TypeOK, ThreadPC, ReloadPC

LEMMA LeaveTyped ==
  ASSUME TypeOK, NEW t \in Threads, Leave(t)
  PROVE  /\ pc' \in [Actors -> ThreadPC \union ReloadPC]
         /\ op' \in [Threads -> {"query", "transaction"}]
         /\ home' \in [Actors -> Servers \union {NoServer}]
         /\ conn' \in [Threads -> Conns \union {NoConn}]
         /\ via' \in [Actors -> Pools \union {NoPool}]
         /\ tries' \in [Threads -> 0 .. MaxRetries]
  BY PgAssumption DEF TypeOK, Leave, Goto, Actors, ThreadPC, ReloadPC

LEMMA NextTryTyped ==
  ASSUME TypeOK, NEW t \in Threads, NextTry(t)
  PROVE  /\ pc' \in [Actors -> ThreadPC \union ReloadPC]
         /\ op' \in [Threads -> {"query", "transaction"}]
         /\ home' \in [Actors -> Servers \union {NoServer}]
         /\ conn' \in [Threads -> Conns \union {NoConn}]
         /\ via' \in [Actors -> Pools \union {NoPool}]
         /\ tries' \in [Threads -> 0 .. MaxRetries]
<1>1. CASE tries[t] + 1 < MaxRetries
  BY <1>1, PgAssumption
     DEF TypeOK, NextTry, Goto, Actors, ThreadPC, ReloadPC, callVars
<1>2. CASE ~ (tries[t] + 1 < MaxRetries)
  BY <1>2, LeaveTyped DEF NextTry
<1> QED
  BY <1>1, <1>2

LEMMA ReleaseTyped ==
  ASSUME TypeOK, NEW p, SemaphoreRelease(p)
  PROVE  permits' \in [Pools -> 0 .. MaxConn]
<1>1. \A n \in 0 .. MaxConn : (IF n < MaxConn THEN n + 1 ELSE n) \in 0 .. MaxConn
  BY PgAssumption
<1>2. \A q \in Pools : permits[q] \in 0 .. MaxConn
  BY DEF TypeOK
<1> QED
  BY <1>1, <1>2 DEF TypeOK, SemaphoreRelease

LEMMA PutTyped ==
  ASSUME TypeOK, NEW p, NEW c, NEW close, PutConn(p, c, close)
  PROVE  /\ idle' \in [Pools -> SUBSET Conns]
         /\ used' \in [Pools -> SUBSET Conns]
         /\ open' \in SUBSET Conns
         /\ silent' \in SUBSET Conns /\ stuck' \in SUBSET Conns
         /\ work' \in [Conns -> Threads \union {NoThread}]
         /\ UNCHANGED <<dial, permits, shut, lost>>
<1>1. idle' \in [Pools -> SUBSET Conns]
  <2>1. p \in Pools /\ c \in used[p] => c \in Conns
    BY DEF TypeOK
  <2> QED
    BY <2>1 DEF TypeOK, PutConn, PutRaises
<1>2. used' \in [Pools -> SUBSET Conns]
  BY DEF TypeOK, PutConn
<1>3. silent' \in SUBSET Conns /\ stuck' \in SUBSET Conns
  BY DEF TypeOK, PutConn
<1>4. open' \in SUBSET Conns /\ work' \in [Conns -> Threads \union {NoThread}]
  BY DEF TypeOK, PutConn
<1> QED
  BY <1>1, <1>2, <1>3, <1>4 DEF PutConn

(* getconn, with the connection it takes and where that comes from. *)
LEMMA GetConnTakes ==
  ASSUME NEW t \in Threads, GetConn(t)
  PROVE  /\ pc[t] = "getting" /\ via[t] \notin shut
         /\ pc' = [pc EXCEPT ![t] = "checking"]
         /\ \E c \in Conns :
              /\ \/ /\ c \in idle[via[t]] /\ UNCHANGED open
                    /\ idle' = [idle EXCEPT ![via[t]] = @ \ {c}]
                 \/ /\ c \in Fresh /\ UNCHANGED idle
                    /\ Cardinality(used[via[t]]) < MaxConn
                    /\ open' = open \union {c}
              /\ used' = [used EXCEPT ![via[t]] = @ \union {c}]
              /\ conn' = [conn EXCEPT ![t] = c]
         /\ UNCHANGED <<instVars, dial, permits, shut, silent, work, lost, stuck,
                        callVars, via, tries>>
  BY DEF GetConn, Goto

LEMMA TypeStep == TypeOK /\ Called /\ [Next]_vars => TypeOK'
<1> SUFFICES ASSUME TypeOK, Called, [Next]_vars PROVE TypeOK'
  OBVIOUS
<1> USE PgAssumption DEF instVars, poolVars, connVars, callVars, Goto, Actors
<1>1. ASSUME NEW t \in Threads, NEW s \in Servers,
             NEW o \in {"query", "transaction"}, Begin(t, s, o)
      PROVE  TypeOK'
  BY <1>1 DEF Begin, TypeOK, ThreadPC
<1>2. ASSUME NEW t \in Threads, AcquirePermit(t) PROVE TypeOK'
  <2>1. pool[home[t]] \in Pools
    BY <1>2 DEF AcquirePermit, Called
  <2>2. permits' \in [Pools -> 0 .. MaxConn]
    BY <1>2, <2>1 DEF AcquirePermit, TypeOK
  <2> QED
    BY <1>2, <2>1, <2>2 DEF AcquirePermit, TypeOK, ThreadPC
<1>3. ASSUME NEW t \in Threads, AcquireTimeout(t) PROVE TypeOK'
  BY <1>3, NextTryTyped DEF AcquireTimeout, TypeOK
<1>4. ASSUME NEW t \in Threads, GetConn(t) PROVE TypeOK'
  <2>1. PICK c \in Conns :
          /\ used' = [used EXCEPT ![via[t]] = @ \union {c}]
          /\ conn' = [conn EXCEPT ![t] = c]
          /\ open' = open \/ open' = open \union {c}
          /\ idle' = idle \/ idle' = [idle EXCEPT ![via[t]] = @ \ {c}]
    BY <1>4, GetConnTakes
  <2>2. used' \in [Pools -> SUBSET Conns]
    BY ZenonT(60), <2>1 DEF TypeOK
  <2>3. idle' \in [Pools -> SUBSET Conns]
    BY <2>1 DEF TypeOK
  <2>4. open' \in SUBSET Conns /\ conn' \in [Threads -> Conns \union {NoConn}]
    BY <2>1 DEF TypeOK
  <2>5. /\ pc' = [pc EXCEPT ![t] = "checking"]
        /\ UNCHANGED <<instVars, dial, permits, shut, silent, work, lost, stuck,
                       callVars, via, tries>>
    BY <1>4, GetConnTakes
  <2> QED
    BY <2>2, <2>3, <2>4, <2>5 DEF TypeOK, ThreadPC
<1>5. ASSUME NEW t \in Threads, GetConnFails(t) PROVE TypeOK'
  BY <1>5, NextTryTyped, ReleaseTyped DEF GetConnFails, TypeOK
<1>6. ASSUME NEW t \in Threads, CheckHealth(t) PROVE TypeOK'
  BY <1>6 DEF CheckHealth, TypeOK, ThreadPC
<1>7. ASSUME NEW t \in Threads, Discard(t) PROVE TypeOK'
  <2>1. pool[home[t]] \in Pools
    BY <1>7 DEF Discard, Called
  <2> QED
    BY <1>7, <2>1, PutTyped DEF Discard, TypeOK, ThreadPC
<1>8. ASSUME NEW t \in Threads, Discarded(t) PROVE TypeOK'
  BY <1>8, NextTryTyped, ReleaseTyped DEF Discarded, TypeOK
<1>9. ASSUME NEW a \in Actors, Connect(a) PROVE TypeOK'
  BY <1>9 DEF Connect, TypeOK, ThreadPC, Fresh
<1>10. ASSUME NEW a \in Actors, ConnectFails(a) PROVE TypeOK'
  BY <1>10, LeaveTyped DEF ConnectFails, TypeOK, ReloadPC
<1>11. ASSUME NEW a \in Actors, StorePool(a) PROVE TypeOK'
  BY <1>11 DEF StorePool, TypeOK, ThreadPC, ReloadPC
<1>12. ASSUME NEW t \in Threads, SetAutocommitRaises(t) PROVE TypeOK'
  <2>1. conn[t] \in Conns
    BY <1>12 DEF SetAutocommitRaises, Called, Holding
  <2> QED
    BY <1>12, <2>1, LeaveTyped DEF SetAutocommitRaises, TypeOK
<1>13. ASSUME NEW t \in Threads, Execute(t) PROVE TypeOK'
  BY <1>13 DEF Execute, TypeOK, ThreadPC
<1>14. ASSUME NEW t \in Threads, ReleaseRemoved(t) PROVE TypeOK'
  BY <1>14, LeaveTyped DEF ReleaseRemoved, TypeOK
<1>15. ASSUME NEW t \in Threads, ReleaseConn(t) PROVE TypeOK'
  <2>1. pool[home[t]] \in Pools
    BY <1>15 DEF ReleaseConn, Called
  <2> QED
    BY <1>15, <2>1 DEF ReleaseConn, TypeOK, ThreadPC
<1>16. ASSUME NEW t \in Threads, Recheck(t) PROVE TypeOK'
  BY <1>16 DEF Recheck, TypeOK, ThreadPC
<1>17. ASSUME NEW t \in Threads, Put(t) PROVE TypeOK'
  BY <1>17, PutTyped DEF Put, TypeOK, ThreadPC
<1>18. ASSUME NEW t \in Threads, Signal(t) PROVE TypeOK'
  BY <1>18, LeaveTyped, ReleaseTyped DEF Signal, TypeOK
<1>19. ASSUME NEW s \in Servers, NEW kind \in ReloadKinds, ReloadBegin(s, kind)
       PROVE  TypeOK'
  BY <1>19 DEF ReloadBegin, TypeOK, ReloadPC
<1>20. CASE ReloadClose
  BY <1>20 DEF ReloadClose, TypeOK, ReloadPC
<1>21. CASE ReloadEnd
  BY <1>21 DEF ReloadEnd, TypeOK, ReloadPC
<1>22. ASSUME NEW c \in Conns, BreakConn(c) PROVE TypeOK'
  BY <1>22 DEF BreakConn, TypeOK
<1>23. CASE UNCHANGED vars
  BY <1>23 DEF vars, TypeOK
<1> QED
  BY <1>1, <1>2, <1>3, <1>4, <1>5, <1>6, <1>7, <1>8, <1>9, <1>10, <1>11,
     <1>12, <1>13, <1>14, <1>15, <1>16, <1>17, <1>18, <1>19, <1>20, <1>21,
     <1>22, <1>23 DEF Next, Step, ReloadStep

-----------------------------------------------------------------------------
(* Calls and pool objects. *)

(* What putconn does to a connection that a call holds: the pool forgets   *)
(* having given it out, unless the rollback raises.                        *)
LEMMA PutMoves ==
  ASSUME TypeOK, NEW p \in Pools, NEW c \in Conns, c \notin stuck,
         NEW close \in BOOLEAN, PutConn(p, c, close)
  PROVE  /\ \A q \in Pools :
              /\ used'[q] = IF q = p /\ p \notin shut /\ c \notin stuck'
                           THEN used[q] \ {c} ELSE used[q]
              /\ \/ idle'[q] = idle[q]
                 \/ /\ q = p /\ c \in used[p] /\ p \notin shut /\ c \notin stuck'
                    /\ idle'[q] = idle[q] \union {c}
         /\ \A d \in Conns \ {c} : d \in open' <=> d \in open
         /\ \A d \in Conns \ {c} : work'[d] = work[d]
         /\ work'[c] = NoThread
         /\ \/ UNCHANGED stuck
            \/ stuck' = stuck \union {c} /\ c \in used[p] /\ p \notin shut
         /\ UNCHANGED <<dial, permits, shut, lost>>
<1>1. CASE PutRaises(p, c)
  <2>1. /\ p \in shut \/ c \notin used[p]
        /\ open' = open \ {c} /\ UNCHANGED <<idle, used, stuck>>
    BY <1>1 DEF PutConn, PutRaises
  <2> QED
    BY <2>1 DEF PutConn, TypeOK
<1>2. CASE ~ PutRaises(p, c) /\ stuck' = stuck \union {c}
  <2>1. c \in used[p] /\ p \notin shut /\ UNCHANGED <<open, idle, used>>
    BY <1>2 DEF PutConn, PutRaises
  <2> QED
    BY <1>2, <2>1 DEF PutConn, TypeOK
<1>3. CASE ~ PutRaises(p, c) /\ UNCHANGED stuck
  <2>1. /\ c \in used[p] /\ p \notin shut
        /\ used' = [used EXCEPT ![p] = @ \ {c}]
        /\ \/ idle' = [idle EXCEPT ![p] = @ \union {c}] /\ UNCHANGED open
           \/ open' = open \ {c} /\ UNCHANGED idle
    BY <1>3 DEF PutConn, PutRaises
  <2>2. \A q \in Pools :
          used'[q] = IF q = p THEN used[q] \ {c} ELSE used[q]
    BY <2>1 DEF TypeOK
  <2>3. \A q \in Pools :
          \/ idle'[q] = idle[q]
          \/ q = p /\ idle'[q] = idle[q] \union {c}
    BY <2>1 DEF TypeOK
  <2> QED
    BY <1>3, <2>1, <2>2, <2>3 DEF PutConn, TypeOK
<1> QED
  BY <1>1, <1>2, <1>3 DEF PutConn

LEMMA HoldersDiffer ==
  ASSUME TypeOK, Called, ConnectionExclusive,
         NEW t \in Threads, pc[t] \in Holding,
         NEW u \in Threads \ {t}, pc[u] \in Holding
  PROVE  conn[t] # conn[u]
  BY PgAssumption DEF Called, ConnectionExclusive, InHand, Holding

LEMMA PutKeepsOthers ==
  ASSUME TypeOK, Called, ConnectionExclusive,
         NEW t \in Threads, pc[t] \in Holding,
         NEW p \in Pools, NEW close \in BOOLEAN, PutConn(p, conn[t], close)
  PROVE  \A u \in Threads \ {t} : pc[u] \in Holding =>
           \A q \in Pools : conn[u] \in used[q] => conn[u] \in used'[q]
<1>1. conn[t] \in Conns /\ conn[t] \notin stuck
  BY DEF Called
<1> SUFFICES ASSUME NEW u \in Threads \ {t}, pc[u] \in Holding,
                    NEW q \in Pools, conn[u] \in used[q]
             PROVE  conn[u] \in used'[q]
  OBVIOUS
<1>2. conn[u] # conn[t]
  BY HoldersDiffer
<1>3. used[q] \ {conn[t]} \subseteq used'[q]
  <2> DEFINE c == conn[t]
  <2>1. c \in Conns /\ c \notin stuck /\ PutConn(p, c, close)
    BY <1>1
  <2> HIDE DEF c
  <2>2. \A r \in Pools :
          used'[r] = IF r = p /\ p \notin shut /\ c \notin stuck'
                     THEN used[r] \ {c} ELSE used[r]
    BY <2>1, PutMoves
  <2>3. used[q] \ {c} \subseteq used'[q]
    BY <2>2
  <2> QED
    BY <2>3 DEF c
<1> QED
  BY <1>2, <1>3

LEMMA CalledStep ==
  TypeOK /\ Called /\ Dialled /\ Apart /\ Stranded /\ ConnectionExclusive
  /\ [Next]_vars => Called'
<1> SUFFICES ASSUME TypeOK, Called, Dialled, Apart, Stranded,
                    ConnectionExclusive, [Next]_vars
             PROVE  Called'
  OBVIOUS
<1> USE PgAssumption
    DEF instVars, poolVars, connVars, callVars, Goto, Actors, Before, Holding,
        Halfway, Putting
<1>1. ASSUME NEW t \in Threads, NEW s \in Servers,
             NEW o \in {"query", "transaction"}, Begin(t, s, o)
      PROVE  Called'
  BY <1>1 DEF Begin, TypeOK, Called, Dialled, ThreadPC
<1>2. ASSUME NEW t \in Threads, AcquirePermit(t) PROVE Called'
  BY <1>2 DEF AcquirePermit, TypeOK, Called, Dialled, ThreadPC
<1>3. ASSUME NEW t \in Threads, AcquireTimeout(t) PROVE Called'
  BY <1>3 DEF AcquireTimeout, NextTry, Leave, TypeOK, Called, ThreadPC
<1>4. ASSUME NEW t \in Threads, GetConn(t) PROVE Called'
  <2>1. PICK c \in Conns :
          /\ c \in idle[via[t]] \/ c \in Fresh
          /\ used' = [used EXCEPT ![via[t]] = @ \union {c}]
          /\ conn' = [conn EXCEPT ![t] = c]
    BY <1>4, GetConnTakes
  <2>2. /\ pc[t] = "getting" /\ pc' = [pc EXCEPT ![t] = "checking"]
        /\ UNCHANGED <<instVars, dial, stuck, callVars, via>>
    BY <1>4, GetConnTakes
  <2>3. via[t] \in Pools
    BY <2>2 DEF Called
  <2>4. c \notin stuck
    BY <2>1, <2>3 DEF Stranded, Apart, Fresh
  <2> QED
    BY <2>1, <2>2, <2>4 DEF TypeOK, Called, ThreadPC
<1>5. ASSUME NEW t \in Threads, GetConnFails(t) PROVE Called'
  BY <1>5 DEF GetConnFails, NextTry, Leave, TypeOK, Called, ThreadPC
<1>6. ASSUME NEW t \in Threads, CheckHealth(t) PROVE Called'
  BY <1>6 DEF CheckHealth, TypeOK, Called, ThreadPC
<1>7. ASSUME NEW t \in Threads, Discard(t) PROVE Called'
  <2>1. /\ pc[t] = "discarding" /\ pc[t] \in Holding
        /\ PutConn(pool[home[t]], conn[t], TRUE)
        /\ pool[home[t]] \in Pools /\ home[t] \in Servers
    BY <1>7 DEF Discard, Called
  <2>2. dial[pool[home[t]]] = home[t]
    BY <2>1 DEF Dialled
  <2>3. /\ \A u \in Threads \ {t} : pc[u] \in Holding =>
             /\ \A q \in Pools : conn[u] \in used[q] => conn[u] \in used'[q]
             /\ conn[u] \notin stuck'
        /\ UNCHANGED dial
    <3>1. conn[t] \in Conns /\ conn[t] \notin stuck
      BY <2>1 DEF Called
    <3>2. stuck' \subseteq stuck \union {conn[t]} /\ UNCHANGED dial
      BY <2>1 DEF PutConn
    <3> QED
      BY <2>1, <3>1, <3>2, PutKeepsOthers, HoldersDiffer DEF Called
  <2>4. /\ pc' = [pc EXCEPT ![t] = "discarded"]
        /\ via' = [via EXCEPT ![t] = pool[home[t]]]
        /\ UNCHANGED <<entry, pool, home, conn>>
    BY <1>7 DEF Discard
  <2>5. /\ pc'[t] = "discarded" /\ via'[t] \in Pools /\ dial[via'[t]] = home[t]
        /\ \A a \in Actors \ {t} : pc'[a] = pc[a] /\ via'[a] = via[a]
    BY <2>1, <2>2, <2>4 DEF TypeOK
  <2> QED
    BY <2>1, <2>3, <2>4, <2>5 DEF Called, ThreadPC
<1>8. ASSUME NEW t \in Threads, Discarded(t) PROVE Called'
  BY SMTT(40), <1>8 DEF Discarded, NextTry, Leave, TypeOK, Called, ThreadPC
<1>9. ASSUME NEW a \in Actors, Connect(a) PROVE Called'
  BY <1>9 DEF Connect, TypeOK, Called, ThreadPC
<1>10. ASSUME NEW a \in Actors, ConnectFails(a) PROVE Called'
  BY <1>10 DEF ConnectFails, NextTry, Leave, TypeOK, Called, ThreadPC
<1>11. ASSUME NEW a \in Actors, StorePool(a) PROVE Called'
  BY <1>11 DEF StorePool, TypeOK, Called, Dialled, ThreadPC
<1>12. ASSUME NEW t \in Threads, SetAutocommitRaises(t) PROVE Called'
  BY <1>12 DEF SetAutocommitRaises, NextTry, Leave, TypeOK, Called, ThreadPC
<1>13. ASSUME NEW t \in Threads, Execute(t) PROVE Called'
  BY <1>13 DEF Execute, TypeOK, Called, ThreadPC
<1>14. ASSUME NEW t \in Threads, ReleaseRemoved(t) PROVE Called'
  BY <1>14 DEF ReleaseRemoved, NextTry, Leave, TypeOK, Called, ThreadPC
<1>15. ASSUME NEW t \in Threads, ReleaseConn(t) PROVE Called'
  BY <1>15 DEF ReleaseConn, TypeOK, Called, Dialled, ThreadPC
<1>16. ASSUME NEW t \in Threads, Recheck(t) PROVE Called'
  BY <1>16 DEF Recheck, TypeOK, Called, ThreadPC
<1>17. ASSUME NEW t \in Threads, Put(t) PROVE Called'
  <2>1. /\ pc[t] \in Putting /\ pc[t] \in Holding
        /\ PutConn(via[t], conn[t], pc[t] = "dropping")
        /\ via[t] \in Pools
    BY <1>17 DEF Put, Called
  <2>2. /\ \A u \in Threads \ {t} : pc[u] \in Holding =>
             /\ \A q \in Pools : conn[u] \in used[q] => conn[u] \in used'[q]
             /\ conn[u] \notin stuck'
        /\ UNCHANGED dial
    <3>1. (pc[t] = "dropping") \in BOOLEAN
      OBVIOUS
    <3>2. stuck' \subseteq stuck \union {conn[t]} /\ UNCHANGED dial
      BY <2>1 DEF PutConn
    <3> QED
      BY <2>1, <3>1, <3>2, PutKeepsOthers, HoldersDiffer DEF Called
  <2>3. /\ pc' = [pc EXCEPT ![t] = "signalling"]
        /\ UNCHANGED <<entry, pool, home, conn, via>>
    BY <1>17 DEF Put
  <2> QED
    BY <2>1, <2>2, <2>3 DEF TypeOK, Called, ThreadPC
<1>18. ASSUME NEW t \in Threads, Signal(t) PROVE Called'
  BY <1>18 DEF Signal, NextTry, Leave, TypeOK, Called, ThreadPC
<1>19. ASSUME NEW s \in Servers, NEW kind \in ReloadKinds,
             ReloadBegin(s, kind)
      PROVE  Called'
  BY <1>19 DEF ReloadBegin, TypeOK, Called, ThreadPC
<1>20. CASE ReloadClose
  BY <1>20 DEF ReloadClose, TypeOK, Called, ThreadPC
<1>21. CASE ReloadEnd
  BY <1>21 DEF ReloadEnd, TypeOK, Called, ThreadPC
<1>22. ASSUME NEW c \in Conns, BreakConn(c) PROVE Called'
  BY <1>22 DEF BreakConn, TypeOK, Called, ThreadPC
<1>23. CASE UNCHANGED vars
  BY <1>23 DEF vars, TypeOK, Called, ThreadPC
<1> QED
  BY <1>1, <1>2, <1>3, <1>4, <1>5, <1>6, <1>7, <1>8, <1>9, <1>10, <1>11, <1>12,
     <1>13, <1>14, <1>15, <1>16, <1>17, <1>18, <1>19, <1>20, <1>21, <1>22,
     <1>23 DEF Next, Step, ReloadStep

(* putconn of the connection a call holds, from release_conn or because it *)
(* is unhealthy: into a pool object p of the call's server.                *)
GivenBack(t, p) ==
  /\ pc[t] \in {"putting", "dropping", "discarding"}
  /\ conn[t] \in Conns /\ conn[t] \notin stuck
  /\ dial[p] = home[t]
  /\ \A q \in Pools :
       /\ used'[q] = IF q = p /\ p \notin shut /\ conn[t] \notin stuck'
                     THEN used[q] \ {conn[t]} ELSE used[q]
       /\ \/ idle'[q] = idle[q]
          \/ /\ q = p /\ conn[t] \in used[p] /\ p \notin shut
             /\ conn[t] \notin stuck'
             /\ idle'[q] = idle[q] \union {conn[t]}
  /\ \A d \in Conns \ {conn[t]} : d \in open' <=> d \in open
  /\ \A d \in Conns \ {conn[t]} : work'[d] = work[d]
  /\ work'[conn[t]] = NoThread
  /\ \/ UNCHANGED stuck
     \/ stuck' = stuck \union {conn[t]} /\ conn[t] \in used[p] /\ p \notin shut
  /\ \E l \in {"signalling", "discarded"} : pc' = [pc EXCEPT ![t] = l]
  /\ via' = [via EXCEPT ![t] = p]
  /\ UNCHANGED <<dial, permits, shut, lost, entry, pool, home, conn>>

LEMMA GivesBack ==
  ASSUME TypeOK, Called, Dialled, NEW t \in Threads, Put(t) \/ Discard(t)
  PROVE  \E p \in Pools : GivenBack(t, p)
<1> DEFINE c == conn[t]
<1>1. /\ pc[t] \in {"putting", "dropping", "discarding"}
      /\ c \in Conns /\ c \notin stuck
  BY DEF Put, Discard, Called, Holding
<1>2. PICK p \in Pools :
        /\ dial[p] = home[t]
        /\ \E close \in BOOLEAN : PutConn(p, c, close)
        /\ via' = [via EXCEPT ![t] = p]
  <2>1. CASE Put(t)
    <3>1. via[t] \in Pools /\ dial[via[t]] = home[t]
      BY <2>1 DEF Put, Called, Putting
    <3>2. via' = [via EXCEPT ![t] = via[t]]
      BY <2>1 DEF Put, TypeOK
    <3>3. PutConn(via[t], c, pc[t] = "dropping") /\ (pc[t] = "dropping") \in BOOLEAN
      BY <2>1 DEF Put
    <3> QED
      BY <3>1, <3>2, <3>3
  <2>2. CASE Discard(t)
    <3>1. pool[home[t]] \in Pools /\ home[t] \in Servers
      BY <2>2 DEF Discard, Called, Actors
    <3>2. dial[pool[home[t]]] = home[t]
      BY <3>1, PgAssumption DEF Dialled
    <3> QED
      BY <2>2, <3>1, <3>2 DEF Discard
  <2> QED
    BY <2>1, <2>2
<1>3. /\ \E l \in {"signalling", "discarded"} : pc' = [pc EXCEPT ![t] = l]
      /\ UNCHANGED <<entry, pool, home, conn>>
  BY DEF Put, Discard, Goto, instVars, callVars
<1> HIDE DEF c
<1>4. /\ \A q \in Pools :
           /\ used'[q] = IF q = p /\ p \notin shut /\ c \notin stuck'
                        THEN used[q] \ {c} ELSE used[q]
           /\ \/ idle'[q] = idle[q]
              \/ /\ q = p /\ c \in used[p] /\ p \notin shut /\ c \notin stuck'
                 /\ idle'[q] = idle[q] \union {c}
      /\ \A d \in Conns \ {c} : d \in open' <=> d \in open
      /\ \A d \in Conns \ {c} : work'[d] = work[d]
      /\ work'[c] = NoThread
      /\ \/ UNCHANGED stuck
         \/ stuck' = stuck \union {c} /\ c \in used[p] /\ p \notin shut
      /\ UNCHANGED <<dial, permits, shut, lost>>
  BY <1>1, <1>2, PutMoves
<1>5. GivenBack(t, p)
  BY <1>1, <1>2, <1>3, <1>4 DEF c, GivenBack
<1> QED
  BY <1>5

LEMMA GivenShrinks ==
  ASSUME NEW t \in Threads, NEW p \in Pools, GivenBack(t, p)
  PROVE  /\ \A q \in Pools : used'[q] \subseteq used[q]
         /\ UNCHANGED lost /\ stuck \subseteq stuck'
<1>1. \A q \in Pools : used'[q] \subseteq used[q]
  BY DEF GivenBack
<1>2. UNCHANGED lost /\ stuck \subseteq stuck'
  BY DEF GivenBack
<1> QED
  BY <1>1, <1>2

LEMMA DialledStep == TypeOK /\ Called /\ Dialled /\ [Next]_vars => Dialled'
<1> SUFFICES ASSUME TypeOK, Called, Dialled, [Next]_vars PROVE Dialled'
  OBVIOUS
<1> USE PgAssumption
    DEF instVars, poolVars, connVars, callVars, Goto, Actors, Halfway
<1>1. ASSUME NEW t \in Threads, NEW s \in Servers,
             NEW o \in {"query", "transaction"}, Begin(t, s, o)
      PROVE  Dialled'
  BY <1>1 DEF Begin, TypeOK, Called, Dialled
<1>2. ASSUME NEW t \in Threads, AcquirePermit(t) PROVE Dialled'
  BY <1>2 DEF AcquirePermit, TypeOK, Called, Dialled
<1>3. ASSUME NEW t \in Threads, AcquireTimeout(t) PROVE Dialled'
  BY <1>3 DEF AcquireTimeout, TypeOK, Called, Dialled
<1>4. ASSUME NEW t \in Threads, GetConn(t) PROVE Dialled'
  <2>1. \A p \in Pools \ {via[t]} : used'[p] = used[p]
    BY <1>4, GetConnTakes DEF TypeOK
  <2>2. dial[via[t]] # NoServer /\ UNCHANGED <<entry, pool, dial, permits>>
    BY <1>4, GetConnTakes DEF TypeOK, Called
  <2> QED
    BY <2>1, <2>2 DEF Dialled
<1>5. ASSUME NEW t \in Threads, GetConnFails(t) PROVE Dialled'
  BY <1>5 DEF GetConnFails, SemaphoreRelease, TypeOK, Called, Dialled
<1>6. ASSUME NEW t \in Threads, CheckHealth(t) PROVE Dialled'
  BY <1>6 DEF CheckHealth, TypeOK, Called, Dialled
<1>7. ASSUME NEW t \in Threads, Discard(t) PROVE Dialled'
  <2>1. PICK p \in Pools : GivenBack(t, p)
    BY <1>7, GivesBack
  <2>2. home[t] \in Servers
    BY <1>7 DEF Put, Discard, Called
  <2> QED
    BY ZenonT(60), <2>1, <2>2 DEF GivenBack, Dialled
<1>8. ASSUME NEW t \in Threads, Discarded(t) PROVE Dialled'
  BY <1>8 DEF Discarded, SemaphoreRelease, TypeOK, Called, Dialled
<1>9. ASSUME NEW a \in Actors, Connect(a) PROVE Dialled'
  BY <1>9 DEF Connect, TypeOK, Called, Dialled
<1>10. ASSUME NEW a \in Actors, ConnectFails(a) PROVE Dialled'
  BY <1>10 DEF ConnectFails, TypeOK, Called, Dialled
<1>11. ASSUME NEW a \in Actors, StorePool(a) PROVE Dialled'
  BY <1>11 DEF StorePool, TypeOK, Called, Dialled
<1>12. ASSUME NEW t \in Threads, SetAutocommitRaises(t) PROVE Dialled'
  BY <1>12 DEF SetAutocommitRaises, TypeOK, Called, Dialled
<1>13. ASSUME NEW t \in Threads, Execute(t) PROVE Dialled'
  BY <1>13 DEF Execute, TypeOK, Called, Dialled
<1>14. ASSUME NEW t \in Threads, ReleaseRemoved(t) PROVE Dialled'
  BY <1>14 DEF ReleaseRemoved, TypeOK, Called, Dialled
<1>15. ASSUME NEW t \in Threads, ReleaseConn(t) PROVE Dialled'
  BY <1>15 DEF ReleaseConn, TypeOK, Called, Dialled
<1>16. ASSUME NEW t \in Threads, Recheck(t) PROVE Dialled'
  BY <1>16 DEF Recheck, TypeOK, Called, Dialled
<1>17. ASSUME NEW t \in Threads, Put(t) PROVE Dialled'
  <2>1. PICK p \in Pools : GivenBack(t, p)
    BY <1>17, GivesBack
  <2>2. home[t] \in Servers
    BY <1>17 DEF Put, Called
  <2> QED
    BY <2>1, <2>2 DEF GivenBack, Dialled
<1>18. ASSUME NEW t \in Threads, Signal(t) PROVE Dialled'
  BY <1>18 DEF Signal, SemaphoreRelease, TypeOK, Called, Dialled
<1>19. ASSUME NEW s \in Servers, NEW kind \in ReloadKinds,
             ReloadBegin(s, kind)
      PROVE  Dialled'
  BY <1>19 DEF ReloadBegin, TypeOK, Called, Dialled
<1>20. CASE ReloadClose
  BY <1>20 DEF ReloadClose, TypeOK, Called, Dialled
<1>21. CASE ReloadEnd
  BY <1>21 DEF ReloadEnd, TypeOK, Called, Dialled
<1>22. ASSUME NEW c \in Conns, BreakConn(c) PROVE Dialled'
  BY <1>22 DEF BreakConn, TypeOK, Called, Dialled
<1>23. CASE UNCHANGED vars
  BY <1>23 DEF vars, TypeOK, Called, Dialled
<1> QED
  BY <1>1, <1>2, <1>3, <1>4, <1>5, <1>6, <1>7, <1>8, <1>9, <1>10, <1>11, <1>12,
     <1>13, <1>14, <1>15, <1>16, <1>17, <1>18, <1>19, <1>20, <1>21, <1>22,
     <1>23 DEF Next, Step, ReloadStep

-----------------------------------------------------------------------------
(* Connections and the work on them. *)

LEMMA NextTryMoves ==
  ASSUME NEW t \in Threads, NextTry(t)
  PROVE  /\ \E l \in {"acquiring", "idle"} : pc' = [pc EXCEPT ![t] = l]
         /\ conn' = [conn EXCEPT ![t] = NoConn]
         /\ via' = [via EXCEPT ![t] = NoPool]
  BY DEF NextTry, Leave, Goto

LEMMA ApartStep ==
  TypeOK /\ Called /\ Dialled /\ Apart /\ [Next]_vars => Apart'
<1> SUFFICES ASSUME TypeOK, Called, Dialled, Apart, [Next]_vars PROVE Apart'
  OBVIOUS
<1> USE DEF instVars, poolVars, connVars, callVars, Actors
<1>1. ASSUME NEW t \in Threads, NEW s \in Servers,
             NEW o \in {"query", "transaction"}, Begin(t, s, o)
      PROVE  Apart'
  BY <1>1 DEF Begin, Apart
<1>2. ASSUME NEW t \in Threads, AcquirePermit(t) PROVE Apart'
  BY <1>2 DEF AcquirePermit, Apart
<1>3. ASSUME NEW t \in Threads, AcquireTimeout(t) PROVE Apart'
  BY <1>3 DEF AcquireTimeout, Apart
<1>4. ASSUME NEW t \in Threads, GetConn(t) PROVE Apart'
  <2>1. PICK c \in Conns :
          /\ \/ c \in idle[via[t]] /\ idle' = [idle EXCEPT ![via[t]] = @ \ {c}]
             \/ c \in Fresh /\ UNCHANGED idle
          /\ used' = [used EXCEPT ![via[t]] = @ \union {c}]
    BY <1>4, GetConnTakes
  <2>2. via[t] \in Pools
    BY <1>4 DEF GetConn, Called, Halfway
  <2>3. \A p \in Pools \ {via[t]} : c \notin used[p] /\ c \notin idle[p]
    BY <2>1, <2>2 DEF Apart, Fresh
  <2>4. /\ \A p \in Pools \ {via[t]} : used'[p] = used[p] /\ idle'[p] = idle[p]
        /\ used'[via[t]] = used[via[t]] \union {c}
        /\ idle'[via[t]] \subseteq idle[via[t]] /\ c \notin idle'[via[t]]
    BY <2>1, <2>2 DEF TypeOK, Fresh
  <2> QED
    BY <2>2, <2>3, <2>4 DEF Apart
<1>5. ASSUME NEW t \in Threads, GetConnFails(t) PROVE Apart'
  BY <1>5 DEF GetConnFails, Apart
<1>6. ASSUME NEW t \in Threads, CheckHealth(t) PROVE Apart'
  BY <1>6 DEF CheckHealth, Apart
<1>7. ASSUME NEW t \in Threads, Discard(t) PROVE Apart'
  <2>1. PICK p \in Pools : GivenBack(t, p)
    BY <1>7, GivesBack
  <2>2. \A q \in Pools : used'[q] \subseteq used[q]
    BY <2>1 DEF GivenBack
  <2>3. CASE \A q \in Pools : idle'[q] = idle[q]
    BY <2>2, <2>3 DEF Apart
  <2>4. CASE conn[t] \in used[p] /\ p \notin shut /\ conn[t] \notin stuck'
    <3>1. \A q \in Pools : conn[t] \notin used'[q] /\ conn[t] \notin idle[q]
      BY <2>1, <2>4 DEF GivenBack, Apart
    <3>2. \A q \in Pools :
            idle'[q] \subseteq idle[q] \union (IF q = p THEN {conn[t]} ELSE {})
      BY <2>1 DEF GivenBack
    <3> QED
      BY <2>2, <3>1, <3>2 DEF Apart
  <2> QED
    BY <2>1, <2>3, <2>4 DEF GivenBack
<1>8. ASSUME NEW t \in Threads, Discarded(t) PROVE Apart'
  BY <1>8 DEF Discarded, Apart
<1>9. ASSUME NEW a \in Actors, Connect(a) PROVE Apart'
  <2>1. PICK p \in Pools, c \in Fresh :
          idle' = [idle EXCEPT ![p] = {c}] /\ UNCHANGED used
    BY <1>9 DEF Connect
  <2> QED
    BY <2>1 DEF Apart, Fresh, TypeOK
<1>10. ASSUME NEW a \in Actors, ConnectFails(a) PROVE Apart'
  BY <1>10 DEF ConnectFails, Apart
<1>11. ASSUME NEW a \in Actors, StorePool(a) PROVE Apart'
  BY <1>11 DEF StorePool, Apart
<1>12. ASSUME NEW t \in Threads, SetAutocommitRaises(t) PROVE Apart'
  BY <1>12 DEF SetAutocommitRaises, Apart
<1>13. ASSUME NEW t \in Threads, Execute(t) PROVE Apart'
  BY <1>13 DEF Execute, Apart
<1>14. ASSUME NEW t \in Threads, ReleaseRemoved(t) PROVE Apart'
  BY <1>14 DEF ReleaseRemoved, Apart
<1>15. ASSUME NEW t \in Threads, ReleaseConn(t) PROVE Apart'
  BY <1>15 DEF ReleaseConn, Apart
<1>16. ASSUME NEW t \in Threads, Recheck(t) PROVE Apart'
  BY <1>16 DEF Recheck, Apart
<1>17. ASSUME NEW t \in Threads, Put(t) PROVE Apart'
  <2>1. PICK p \in Pools : GivenBack(t, p)
    BY <1>17, GivesBack
  <2>2. \A q \in Pools : used'[q] \subseteq used[q]
    BY <2>1 DEF GivenBack
  <2>3. CASE \A q \in Pools : idle'[q] = idle[q]
    BY <2>2, <2>3 DEF Apart
  <2>4. CASE conn[t] \in used[p] /\ p \notin shut /\ conn[t] \notin stuck'
    <3>1. \A q \in Pools : conn[t] \notin used'[q] /\ conn[t] \notin idle[q]
      BY <2>1, <2>4 DEF GivenBack, Apart
    <3>2. \A q \in Pools :
            idle'[q] \subseteq idle[q] \union (IF q = p THEN {conn[t]} ELSE {})
      BY <2>1 DEF GivenBack
    <3> QED
      BY <2>2, <3>1, <3>2 DEF Apart
  <2> QED
    BY <2>1, <2>3, <2>4 DEF GivenBack
<1>18. ASSUME NEW t \in Threads, Signal(t) PROVE Apart'
  BY <1>18 DEF Signal, Apart
<1>19. ASSUME NEW s \in Servers, NEW kind \in ReloadKinds,
             ReloadBegin(s, kind)
      PROVE  Apart'
  BY <1>19 DEF ReloadBegin, Apart
<1>20. CASE ReloadClose
  BY <1>20 DEF ReloadClose, Apart
<1>21. CASE ReloadEnd
  BY <1>21 DEF ReloadEnd, Apart
<1>22. ASSUME NEW c \in Conns, BreakConn(c) PROVE Apart'
  BY <1>22 DEF BreakConn, Apart
<1>23. CASE UNCHANGED vars
  BY <1>23 DEF vars, Apart
<1> QED
  BY <1>1, <1>2, <1>3, <1>4, <1>5, <1>6, <1>7, <1>8, <1>9, <1>10, <1>11, <1>12,
     <1>13, <1>14, <1>15, <1>16, <1>17, <1>18, <1>19, <1>20, <1>21, <1>22,
     <1>23 DEF Next, Step, ReloadStep

LEMMA ExclusiveStep ==
  TypeOK /\ Called /\ Dialled /\ Apart /\ ConnectionExclusive /\ [Next]_vars
  => ConnectionExclusive'
<1> SUFFICES ASSUME TypeOK, Called, Dialled, Apart, ConnectionExclusive,
                    [Next]_vars
             PROVE  ConnectionExclusive'
  OBVIOUS
<1> USE PgAssumption DEF instVars, poolVars, connVars, callVars, Goto, Actors
<1>1. ASSUME NEW t \in Threads, NEW s \in Servers,
             NEW o \in {"query", "transaction"}, Begin(t, s, o)
      PROVE  ConnectionExclusive'
  BY <1>1 DEF Begin, TypeOK, ConnectionExclusive, InHand
<1>2. ASSUME NEW t \in Threads, AcquirePermit(t) PROVE ConnectionExclusive'
  BY <1>2 DEF AcquirePermit, TypeOK, ConnectionExclusive, InHand
<1>3. ASSUME NEW t \in Threads, AcquireTimeout(t) PROVE ConnectionExclusive'
  BY SMTT(60), <1>3
    DEF AcquireTimeout, NextTry, Leave, TypeOK, ConnectionExclusive, InHand
<1>4. ASSUME NEW t \in Threads, GetConn(t) PROVE ConnectionExclusive'
  <2>1. PICK c \in Conns :
          /\ \/ c \in idle[via[t]] /\ idle' = [idle EXCEPT ![via[t]] = @ \ {c}]
             \/ c \in Fresh /\ UNCHANGED idle
          /\ conn' = [conn EXCEPT ![t] = c]
    BY <1>4, GetConnTakes
  <2>2. via[t] \in Pools /\ pc[t] = "getting" /\ pc' = [pc EXCEPT ![t] = "checking"]
    BY <1>4, GetConnTakes DEF Called, Halfway
  <2>3. InHand(t)' = {c} /\ \A u \in Threads \ {t} : InHand(u)' = InHand(u)
    BY <2>1, <2>2 DEF InHand, TypeOK
  <2>4. \A u \in Threads \ {t} : c \notin InHand(u)
    BY <2>1, <2>2 DEF Fresh, InHand, ConnectionExclusive
  <2>5. \A q \in Pools : c \notin idle'[q] /\ idle'[q] \subseteq idle[q]
    BY <2>1, <2>2 DEF Apart, Fresh, TypeOK
  <2> QED
    BY <2>3, <2>4, <2>5 DEF ConnectionExclusive
<1>5. ASSUME NEW t \in Threads, GetConnFails(t) PROVE ConnectionExclusive'
  BY SMTT(60), <1>5
    DEF GetConnFails, NextTry, Leave, TypeOK, ConnectionExclusive, InHand
<1>6. ASSUME NEW t \in Threads, CheckHealth(t) PROVE ConnectionExclusive'
  BY <1>6 DEF CheckHealth, TypeOK, ConnectionExclusive, InHand
<1>7. ASSUME NEW t \in Threads, Discard(t) PROVE ConnectionExclusive'
  <2>1. PICK p \in Pools : GivenBack(t, p)
    BY <1>7, GivesBack
  <2>2. InHand(t) = {conn[t]} /\ InHand(t)' = {}
    BY <2>1 DEF GivenBack, InHand, TypeOK
  <2>3. \A u \in Threads \ {t} : InHand(u)' = InHand(u)
    BY <2>1 DEF GivenBack, InHand, TypeOK
  <2>4. \A q \in Pools : idle'[q] \subseteq idle[q] \union {conn[t]}
    BY <2>1 DEF GivenBack
  <2> QED
    BY <2>2, <2>3, <2>4 DEF ConnectionExclusive
<1>8. ASSUME NEW t \in Threads, Discarded(t) PROVE ConnectionExclusive'
  <2>1. PICK l \in {"acquiring", "idle"} :
          /\ pc' = [pc EXCEPT ![t] = l] /\ conn' = [conn EXCEPT ![t] = NoConn]
          /\ UNCHANGED idle
    BY <1>8, NextTryMoves DEF Discarded
  <2>2. InHand(t)' = {} /\ \A u \in Threads \ {t} : InHand(u)' = InHand(u)
    BY <2>1 DEF TypeOK, InHand
  <2> QED
    BY <2>1, <2>2 DEF ConnectionExclusive
<1>9. ASSUME NEW a \in Actors, Connect(a) PROVE ConnectionExclusive'
  <2>1. PICK p \in Pools, c \in Fresh : idle' = [idle EXCEPT ![p] = {c}]
    BY <1>9 DEF Connect
  <2>2. pc[a] = "connecting" /\ pc' = [pc EXCEPT ![a] = "storing"] /\ UNCHANGED conn
    BY <1>9 DEF Connect
  <2>3. \A u \in Threads : InHand(u)' = InHand(u)
    BY <2>2 DEF InHand, TypeOK
  <2>4. \A q \in Pools : idle'[q] \subseteq idle[q] \union {c}
    BY <2>1 DEF TypeOK
  <2>5. \A u \in Threads : c \notin InHand(u)
    BY DEF Fresh, InHand
  <2> QED
    BY <2>3, <2>4, <2>5 DEF ConnectionExclusive
<1>10. ASSUME NEW a \in Actors, ConnectFails(a) PROVE ConnectionExclusive'
  <2>1. CASE a \in Threads /\ Leave(a)
    <3>1. \A u \in Threads \ {a} : InHand(u)' = InHand(u)
      BY <2>1 DEF Leave, TypeOK, InHand
    <3>2. InHand(a)' = {} /\ UNCHANGED idle
      BY <1>10, <2>1 DEF ConnectFails, Leave, TypeOK, InHand
    <3> QED
      BY <3>1, <3>2 DEF ConnectionExclusive
  <2>2. CASE a = Reloader
    <3>1. UNCHANGED idle /\ \A u \in Threads : InHand(u)' = InHand(u)
      BY ZenonT(60), <1>10, <2>2 DEF ConnectFails, TypeOK, InHand
    <3> QED
      BY <3>1 DEF ConnectionExclusive
  <2> QED
    BY <1>10, <2>1, <2>2 DEF ConnectFails
<1>11. ASSUME NEW a \in Actors, StorePool(a) PROVE ConnectionExclusive'
  BY <1>11 DEF StorePool, TypeOK, ConnectionExclusive, InHand
<1>12. ASSUME NEW t \in Threads, SetAutocommitRaises(t)
      PROVE  ConnectionExclusive'
  BY <1>12 DEF SetAutocommitRaises, NextTry, Leave, TypeOK, ConnectionExclusive, InHand
<1>13. ASSUME NEW t \in Threads, Execute(t) PROVE ConnectionExclusive'
  BY <1>13 DEF Execute, TypeOK, ConnectionExclusive, InHand
<1>14. ASSUME NEW t \in Threads, ReleaseRemoved(t) PROVE ConnectionExclusive'
  BY <1>14 DEF ReleaseRemoved, NextTry, Leave, TypeOK, ConnectionExclusive, InHand
<1>15. ASSUME NEW t \in Threads, ReleaseConn(t) PROVE ConnectionExclusive'
  BY <1>15 DEF ReleaseConn, TypeOK, ConnectionExclusive, InHand
<1>16. ASSUME NEW t \in Threads, Recheck(t) PROVE ConnectionExclusive'
  BY <1>16 DEF Recheck, TypeOK, ConnectionExclusive, InHand
<1>17. ASSUME NEW t \in Threads, Put(t) PROVE ConnectionExclusive'
  <2>1. PICK p \in Pools : GivenBack(t, p)
    BY <1>17, GivesBack
  <2>2. InHand(t) = {conn[t]} /\ InHand(t)' = {}
    BY <2>1 DEF GivenBack, InHand, TypeOK
  <2>3. \A u \in Threads \ {t} : InHand(u)' = InHand(u)
    BY <2>1 DEF GivenBack, InHand, TypeOK
  <2>4. \A q \in Pools : idle'[q] \subseteq idle[q] \union {conn[t]}
    BY <2>1 DEF GivenBack
  <2> QED
    BY <2>2, <2>3, <2>4 DEF ConnectionExclusive
<1>18. ASSUME NEW t \in Threads, Signal(t) PROVE ConnectionExclusive'
  BY <1>18 DEF Signal, NextTry, Leave, TypeOK, ConnectionExclusive, InHand
<1>19. ASSUME NEW s \in Servers, NEW kind \in ReloadKinds,
             ReloadBegin(s, kind)
      PROVE  ConnectionExclusive'
  BY SMTT(60), <1>19 DEF ReloadBegin, TypeOK, ConnectionExclusive, InHand
<1>20. CASE ReloadClose
  BY <1>20 DEF ReloadClose, TypeOK, ConnectionExclusive, InHand
<1>21. CASE ReloadEnd
  BY <1>21 DEF ReloadEnd, TypeOK, ConnectionExclusive, InHand
<1>22. ASSUME NEW c \in Conns, BreakConn(c) PROVE ConnectionExclusive'
  BY <1>22 DEF BreakConn, TypeOK, ConnectionExclusive, InHand
<1>23. CASE UNCHANGED vars
  BY <1>23 DEF vars, TypeOK, ConnectionExclusive, InHand
<1> QED
  BY <1>1, <1>2, <1>3, <1>4, <1>5, <1>6, <1>7, <1>8, <1>9, <1>10, <1>11, <1>12,
     <1>13, <1>14, <1>15, <1>16, <1>17, <1>18, <1>19, <1>20, <1>21, <1>22,
     <1>23 DEF Next, Step, ReloadStep

LEMMA WorkedStep ==
  TypeOK /\ Called /\ Dialled /\ Apart /\ ConnectionExclusive /\ Worked
  /\ [Next]_vars => Worked'
<1> SUFFICES ASSUME TypeOK, Called, Dialled, Apart, ConnectionExclusive, Worked,
                    [Next]_vars
             PROVE  Worked'
  OBVIOUS
<1> USE PgAssumption
    DEF instVars, poolVars, connVars, callVars, Goto, Actors, Holding, Unused
<1>1. ASSUME NEW t \in Threads, NEW s \in Servers,
             NEW o \in {"query", "transaction"}, Begin(t, s, o)
      PROVE  Worked'
  BY <1>1 DEF Begin, TypeOK, Worked
<1>2. ASSUME NEW t \in Threads, AcquirePermit(t) PROVE Worked'
  BY <1>2 DEF AcquirePermit, TypeOK, Worked
<1>3. ASSUME NEW t \in Threads, AcquireTimeout(t) PROVE Worked'
  BY <1>3 DEF AcquireTimeout, NextTry, Leave, TypeOK, Worked
<1>4. ASSUME NEW t \in Threads, GetConn(t) PROVE Worked'
  <2>1. PICK c \in Conns :
          /\ \/ /\ c \in idle[via[t]] /\ UNCHANGED open
                /\ idle' = [idle EXCEPT ![via[t]] = @ \ {c}]
             \/ c \in Fresh /\ UNCHANGED idle /\ open' = open \union {c}
          /\ conn' = [conn EXCEPT ![t] = c]
    BY <1>4, GetConnTakes
  <2>2. /\ via[t] \in Pools /\ pc' = [pc EXCEPT ![t] = "checking"]
        /\ UNCHANGED work
    BY <1>4, GetConnTakes DEF Called, Halfway
  <2>3. work[c] = NoThread
    BY <2>1, <2>2 DEF Worked, Fresh
  <2> QED
    BY <2>1, <2>2, <2>3 DEF Worked, TypeOK
<1>5. ASSUME NEW t \in Threads, GetConnFails(t) PROVE Worked'
  BY <1>5 DEF GetConnFails, NextTry, Leave, TypeOK, Worked
<1>6. ASSUME NEW t \in Threads, CheckHealth(t) PROVE Worked'
  BY <1>6 DEF CheckHealth, TypeOK, Worked
<1>7. ASSUME NEW t \in Threads, Discard(t) PROVE Worked'
  <2>1. PICK p \in Pools : GivenBack(t, p)
    BY <1>7, GivesBack
  <2>2. \A u \in Threads \ {t} : pc[u] \in Holding => conn[u] # conn[t]
    BY <2>1, HoldersDiffer DEF GivenBack
  <2>3. \A c \in Conns : work'[c] # NoThread => c \in open'
    BY <2>1 DEF GivenBack, Worked
  <2>4. \A q \in Pools : \A c \in idle'[q] : work'[c] = NoThread
    <3> SUFFICES ASSUME NEW q \in Pools, NEW c \in idle'[q]
                 PROVE  work'[c] = NoThread
      OBVIOUS
    <3>1. c = conn[t] \/ c \in idle[q]
      <4>1. idle'[q] = idle[q] \/ idle'[q] = idle[q] \union {conn[t]}
        BY <2>1 DEF GivenBack
      <4> QED
        BY <4>1
    <3>2. c \in Conns
      BY <2>1, <3>1 DEF GivenBack, TypeOK
    <3> QED
      BY <2>1, <3>1, <3>2 DEF GivenBack, Worked
  <2>5. \A u \in Threads : pc'[u] \in Unused => work'[conn'[u]] = NoThread
    BY <2>1, <2>2 DEF GivenBack, Worked, TypeOK, Called
  <2> QED
    BY <2>3, <2>4, <2>5 DEF Worked
<1>8. ASSUME NEW t \in Threads, Discarded(t) PROVE Worked'
  BY <1>8 DEF Discarded, NextTry, Leave, TypeOK, Worked
<1>9. ASSUME NEW a \in Actors, Connect(a) PROVE Worked'
  <2>1. PICK p \in Pools, c \in Fresh :
          idle' = [idle EXCEPT ![p] = {c}] /\ open' = open \union {c}
    BY <1>9 DEF Connect
  <2>2. pc' = [pc EXCEPT ![a] = "storing"] /\ UNCHANGED <<conn, work>>
    BY <1>9 DEF Connect
  <2>3. c \in Conns /\ work[c] = NoThread
    BY DEF Worked, Fresh
  <2> QED
    BY <2>1, <2>2, <2>3 DEF Worked, TypeOK
<1>10. ASSUME NEW a \in Actors, ConnectFails(a) PROVE Worked'
  BY <1>10 DEF ConnectFails, NextTry, Leave, TypeOK, Worked
<1>11. ASSUME NEW a \in Actors, StorePool(a) PROVE Worked'
  BY <1>11 DEF StorePool, TypeOK, Worked
<1>12. ASSUME NEW t \in Threads, SetAutocommitRaises(t) PROVE Worked'
  BY <1>12 DEF SetAutocommitRaises, NextTry, Leave, TypeOK, Worked
<1>13. ASSUME NEW t \in Threads, Execute(t) PROVE Worked'
  <2>1. pc[t] \in Holding /\ conn[t] \in Conns /\ UNCHANGED <<open, idle, conn>>
    BY <1>13 DEF Execute, Called
  <2>2. \A u \in Threads \ {t} : pc[u] \in Holding => conn[u] # conn[t]
    BY <2>1, HoldersDiffer
  <2>3. \A q \in Pools : conn[t] \notin idle[q]
    BY <2>1 DEF ConnectionExclusive, InHand
  <2>4. \/ conn[t] \in open /\ work' = [work EXCEPT ![conn[t]] = t]
        \/ UNCHANGED work
    BY <1>13 DEF Execute
  <2>5. pc'[t] \notin Unused /\ \A u \in Threads \ {t} : pc'[u] = pc[u]
    BY <1>13 DEF Execute, TypeOK
  <2>6. \A q \in Pools : \A c \in idle[q] : work'[c] = NoThread
    BY <2>3, <2>4 DEF Worked, TypeOK
  <2>7. \A u \in Threads : pc'[u] \in Unused => work'[conn[u]] = NoThread
    BY <2>1, <2>2, <2>4, <2>5 DEF Worked, TypeOK, Called
  <2>8. \A c \in Conns : work'[c] # NoThread => c \in open
    BY <2>4 DEF Worked, TypeOK
  <2> QED
    BY <2>1, <2>6, <2>7, <2>8 DEF Worked
<1>14. ASSUME NEW t \in Threads, ReleaseRemoved(t) PROVE Worked'
  <2>1. /\ work' = [work EXCEPT ![conn[t]] = NoThread]
        /\ open' = open \ {conn[t]} /\ pc' = [pc EXCEPT ![t] = "idle"]
        /\ conn' = [conn EXCEPT ![t] = NoConn] /\ UNCHANGED idle
    BY <1>14 DEF ReleaseRemoved, Leave
  <2>2. \A c \in Conns : work'[c] = IF c = conn[t] THEN NoThread ELSE work[c]
    BY <2>1 DEF TypeOK
  <2> QED
    BY <2>1, <2>2 DEF Worked, TypeOK, Called
<1>15. ASSUME NEW t \in Threads, ReleaseConn(t) PROVE Worked'
  BY <1>15 DEF ReleaseConn, TypeOK, Worked
<1>16. ASSUME NEW t \in Threads, Recheck(t) PROVE Worked'
  BY <1>16 DEF Recheck, TypeOK, Worked
<1>17. ASSUME NEW t \in Threads, Put(t) PROVE Worked'
  <2>1. PICK p \in Pools : GivenBack(t, p)
    BY <1>17, GivesBack
  <2>2. \A u \in Threads \ {t} : pc[u] \in Holding => conn[u] # conn[t]
    BY <2>1, HoldersDiffer DEF GivenBack
  <2>3. \A c \in Conns : work'[c] # NoThread => c \in open'
    BY <2>1 DEF GivenBack, Worked
  <2>4. \A q \in Pools : \A c \in idle'[q] : work'[c] = NoThread
    <3> SUFFICES ASSUME NEW q \in Pools, NEW c \in idle'[q]
                 PROVE  work'[c] = NoThread
      OBVIOUS
    <3>1. c = conn[t] \/ c \in idle[q]
      <4>1. idle'[q] = idle[q] \/ idle'[q] = idle[q] \union {conn[t]}
        BY <2>1 DEF GivenBack
      <4> QED
        BY <4>1
    <3>2. c \in Conns
      BY <2>1, <3>1 DEF GivenBack, TypeOK
    <3> QED
      BY <2>1, <3>1, <3>2 DEF GivenBack, Worked
  <2>5. \A u \in Threads : pc'[u] \in Unused => work'[conn'[u]] = NoThread
    BY <2>1, <2>2 DEF GivenBack, Worked, TypeOK, Called
  <2> QED
    BY <2>3, <2>4, <2>5 DEF Worked
<1>18. ASSUME NEW t \in Threads, Signal(t) PROVE Worked'
  BY <1>18 DEF Signal, NextTry, Leave, TypeOK, Worked
<1>19. ASSUME NEW s \in Servers, NEW kind \in ReloadKinds,
             ReloadBegin(s, kind)
      PROVE  Worked'
  BY <1>19 DEF ReloadBegin, TypeOK, Worked
<1>20. CASE ReloadClose
  <2>1. PICK closed :
          /\ open' = open \ closed
          /\ work' = [c \in Conns |-> IF c \in closed THEN NoThread ELSE work[c]]
    BY <1>20 DEF ReloadClose
  <2>2. pc' = [pc EXCEPT ![Reloader] = "reloaded"] /\ UNCHANGED <<idle, conn>>
    BY <1>20 DEF ReloadClose
  <2> QED
    BY <2>1, <2>2 DEF Worked, TypeOK, Called
<1>21. CASE ReloadEnd
  BY <1>21 DEF ReloadEnd, TypeOK, Worked
<1>22. ASSUME NEW c \in Conns, BreakConn(c) PROVE Worked'
  <2>1. \A d \in Conns : work'[d] = IF d = c THEN NoThread ELSE work[d]
    BY <1>22 DEF BreakConn, TypeOK
  <2> QED
    BY <1>22, <2>1 DEF BreakConn, Worked, TypeOK, Called
<1>23. CASE UNCHANGED vars
  BY <1>23 DEF vars, TypeOK, Worked
<1> QED
  BY <1>1, <1>2, <1>3, <1>4, <1>5, <1>6, <1>7, <1>8, <1>9, <1>10, <1>11, <1>12,
     <1>13, <1>14, <1>15, <1>16, <1>17, <1>18, <1>19, <1>20, <1>21, <1>22,
     <1>23 DEF Next, Step, ReloadStep

(* What putconn could not roll back stays with the pool. *)
LEMMA StrandedStep == TypeOK /\ Called /\ Dialled /\ Stranded /\ [Next]_vars => Stranded'
<1> SUFFICES ASSUME TypeOK, Called, Dialled, Stranded, [Next]_vars PROVE Stranded'
  OBVIOUS
<1>1. ASSUME NEW t \in Threads, Put(t) \/ Discard(t) PROVE Stranded'
  <2>1. PICK p \in Pools : GivenBack(t, p)
    BY <1>1, GivesBack
  <2>2. \A c \in stuck, q \in Pools : c \in used[q] => c \in used'[q]
    BY <2>1 DEF GivenBack
  <2>3. conn[t] \in stuck' => conn[t] \in used'[p]
    BY <2>1 DEF GivenBack
  <2> QED
    BY <2>1, <2>2, <2>3 DEF GivenBack, Stranded
<1>2. ASSUME NEW t \in Threads, GetConn(t) PROVE Stranded'
  <2>1. UNCHANGED stuck /\ \E c \in Conns : used' = [used EXCEPT ![via[t]] = @ \union {c}]
    BY <1>2, GetConnTakes
  <2>2. \A q \in Pools : used[q] \subseteq used'[q]
    BY <2>1 DEF TypeOK
  <2> QED
    BY <2>1, <2>2 DEF Stranded
<1>3. CASE UNCHANGED <<used, stuck>>
  BY <1>3 DEF Stranded
<1>4. \/ \E t \in Threads : Put(t) \/ Discard(t) \/ GetConn(t)
      \/ UNCHANGED <<used, stuck>>
  BY DEF Next, Step, ReloadStep, vars, Begin, AcquirePermit, AcquireTimeout,
         GetConnFails, CheckHealth, Discarded, Connect, ConnectFails, StorePool,
         SetAutocommitRaises, Execute, ReleaseRemoved, ReleaseConn, Recheck,
         Signal, ReloadBegin, ReloadClose, ReloadEnd, BreakConn, poolVars,
         connVars
<1> QED
  BY <1>1, <1>2, <1>3, <1>4

-----------------------------------------------------------------------------
(* The semaphore's count. *)

(* A pool object keeps its server and stays closed, and a server that was  *)
(* removed is not configured again.                                        *)
LEMMA PoolsKept ==
  TypeOK /\ [Next]_vars =>
    /\ \A p \in Pools : dial[p] # NoServer => dial'[p] = dial[p]
    /\ shut \subseteq shut'
    /\ \A s \in Servers : entry'[s] = "present" => entry[s] # "removed"
<1> DEFINE Kept == /\ \A p \in Pools : dial[p] # NoServer => dial'[p] = dial[p]
                   /\ shut \subseteq shut'
                   /\ \A s \in Servers : entry'[s] = "present" => entry[s] # "removed"
<1> SUFFICES ASSUME TypeOK, [Next]_vars PROVE Kept
  OBVIOUS
<1> USE DEF instVars, poolVars, connVars, callVars, Actors
<1>1. ASSUME NEW t \in Threads, NEW s \in Servers,
             NEW o \in {"query", "transaction"}, Begin(t, s, o)
      PROVE  Kept
  BY <1>1 DEF Begin
<1>2. ASSUME NEW t \in Threads, AcquirePermit(t) PROVE Kept
  BY <1>2 DEF AcquirePermit
<1>3. ASSUME NEW t \in Threads, AcquireTimeout(t) PROVE Kept
  BY <1>3 DEF AcquireTimeout
<1>4. ASSUME NEW t \in Threads, GetConn(t) PROVE Kept
  BY <1>4 DEF GetConn
<1>5. ASSUME NEW t \in Threads, GetConnFails(t) PROVE Kept
  BY <1>5 DEF GetConnFails
<1>6. ASSUME NEW t \in Threads, CheckHealth(t) PROVE Kept
  BY <1>6 DEF CheckHealth
<1>7. ASSUME NEW t \in Threads, Discard(t) PROVE Kept
  BY <1>7 DEF Discard, PutConn
<1>8. ASSUME NEW t \in Threads, Discarded(t) PROVE Kept
  BY <1>8 DEF Discarded
<1>9. ASSUME NEW a \in Actors, Connect(a) PROVE Kept
  BY <1>9 DEF Connect, TypeOK
<1>10. ASSUME NEW a \in Actors, ConnectFails(a) PROVE Kept
  BY <1>10 DEF ConnectFails
<1>11. ASSUME NEW a \in Actors, StorePool(a) PROVE Kept
  BY <1>11 DEF StorePool
<1>12. ASSUME NEW t \in Threads, SetAutocommitRaises(t) PROVE Kept
  BY <1>12 DEF SetAutocommitRaises
<1>13. ASSUME NEW t \in Threads, Execute(t) PROVE Kept
  BY <1>13 DEF Execute
<1>14. ASSUME NEW t \in Threads, ReleaseRemoved(t) PROVE Kept
  BY <1>14 DEF ReleaseRemoved
<1>15. ASSUME NEW t \in Threads, ReleaseConn(t) PROVE Kept
  BY <1>15 DEF ReleaseConn
<1>16. ASSUME NEW t \in Threads, Recheck(t) PROVE Kept
  BY <1>16 DEF Recheck
<1>17. ASSUME NEW t \in Threads, Put(t) PROVE Kept
  BY <1>17 DEF Put, PutConn
<1>18. ASSUME NEW t \in Threads, Signal(t) PROVE Kept
  BY <1>18 DEF Signal
<1>19. ASSUME NEW s \in Servers, NEW kind \in ReloadKinds,
             ReloadBegin(s, kind)
      PROVE  Kept
  BY <1>19 DEF ReloadBegin, TypeOK
<1>20. CASE ReloadClose
  BY <1>20 DEF ReloadClose
<1>21. CASE ReloadEnd
  BY <1>21 DEF ReloadEnd
<1>22. ASSUME NEW c \in Conns, BreakConn(c) PROVE Kept
  BY <1>22 DEF BreakConn
<1>23. CASE UNCHANGED vars
  BY <1>23 DEF vars
<1> QED
  BY <1>1, <1>2, <1>3, <1>4, <1>5, <1>6, <1>7, <1>8, <1>9, <1>10, <1>11, <1>12,
     <1>13, <1>14, <1>15, <1>16, <1>17, <1>18, <1>19, <1>20, <1>21, <1>22,
     <1>23 DEF Next, Step, ReloadStep

(* So a pool that is the only one of its server either was that before the *)
(* step, or is being created by it.                                        *)
LEMMA SoleBefore ==
  ASSUME TypeOK, [Next]_vars, NEW p \in Pools, SolePool(p)'
  PROVE  \/ SolePool(p) /\ dial'[p] = dial[p]
         \/ dial[p] = NoServer
  BY PoolsKept DEF SolePool

(* What a pool has given out and does expect back. *)
Out(p) == used[p] \ stuck

Balanced(p) ==
  permits[p] + Cardinality(Out(p)) + Cardinality(Between(p)) = MaxConn

LEMMA Counted ==
  ASSUME TypeOK, NEW p \in Pools
  PROVE  /\ IsFiniteSet(Out(p)) /\ IsFiniteSet(Between(p))
         /\ Cardinality(Out(p)) \in Nat /\ Cardinality(Between(p)) \in Nat
<1>1. IsFiniteSet(Out(p))
  <2>1. Out(p) \subseteq Conns
    BY DEF TypeOK, Out
  <2> QED
    BY <2>1, FS_Subset, PgAssumption
<1>2. IsFiniteSet(Between(p))
  <2>1. Between(p) \subseteq Threads
    BY DEF Between
  <2> QED
    BY <2>1, FS_Subset, PgAssumption
<1> QED
  BY <1>1, <1>2, FS_CardinalityType

(* A thread enters the section between the two halves, or leaves it. *)
LEMMA Enters ==
  ASSUME TypeOK, NEW p \in Pools, NEW t \in Threads, t \notin Between(p),
         Between(p)' = Between(p) \union {t}
  PROVE  Cardinality(Between(p)') = Cardinality(Between(p)) + 1
  BY Counted, FS_AddElement

LEMMA Exits ==
  ASSUME TypeOK, NEW p \in Pools, NEW t \in Threads, t \in Between(p),
         Between(p)' = Between(p) \ {t}
  PROVE  /\ Cardinality(Between(p)') = Cardinality(Between(p)) - 1
         /\ Cardinality(Between(p)') \in Nat
<1>1. IsFiniteSet(Between(p))
  BY Counted
<1> DEFINE B == Between(p)
<1> HIDE DEF B
<1>2. IsFiniteSet(B) /\ t \in B
  BY <1>1 DEF B
<1>3. /\ Cardinality(B \ {t}) = Cardinality(B) - 1
      /\ Cardinality(B \ {t}) \in Nat
  BY <1>2, FS_RemoveElement, FS_CardinalityType
<1> QED
  BY <1>3 DEF B

LEMMA Withdrawn ==
  ASSUME TypeOK, NEW p \in Pools, NEW c \in Out(p)
  PROVE  Cardinality(Out(p) \ {c}) = Cardinality(Out(p)) - 1
<1>1. IsFiniteSet(Out(p))
  BY Counted
<1> DEFINE U == Out(p)
<1> HIDE DEF U
<1>2. IsFiniteSet(U) /\ c \in U
  BY <1>1 DEF U
<1>3. Cardinality(U \ {c}) = Cardinality(U) - 1
  BY <1>2, FS_RemoveElement
<1> QED
  BY <1>3 DEF U

(* putconn takes the connection out of what its pool expects back, whether *)
(* the pool forgets it or the rollback raises, and leaves the other pools. *)
LEMMA OutAfter ==
  ASSUME TypeOK, Apart, NEW t \in Threads, NEW q \in Pools, GivenBack(t, q),
         NEW p \in Pools
  PROVE  /\ p # q => Out(p)' = Out(p)
         /\ p = q /\ p \notin shut => Out(p)' = Out(p) \ {conn[t]}
<1> DEFINE c == conn[t]
<1>1. /\ c \in Conns /\ c \notin stuck
      /\ used'[p] = IF p = q /\ q \notin shut /\ c \notin stuck'
                    THEN used[p] \ {c} ELSE used[p]
      /\ \/ stuck' = stuck
         \/ stuck' = stuck \union {c} /\ c \in used[q]
  BY DEF GivenBack
<1> HIDE DEF c
<1>2. p # q => Out(p)' = Out(p)
  BY <1>1 DEF Out, Apart
<1>3. p = q /\ p \notin shut => Out(p)' = Out(p) \ {c}
  BY <1>1 DEF Out
<1> QED
  BY <1>2, <1>3 DEF c

LEMMA PermitsAreBalanced ==
  PermitsMatch <=> \A p \in Pools : SolePool(p) => Balanced(p)
  BY DEF PermitsMatch, Balanced, Between, Halfway, Out

(* A pool about to be the only one of its server is in balance: one that   *)
(* is not created yet has all its permits and nobody is between.           *)
LEMMA BalancedBefore ==
  ASSUME TypeOK, Called, Dialled, PermitsMatch, [Next]_vars,
         NEW p \in Pools, SolePool(p)'
  PROVE  Balanced(p)
<1>1. CASE SolePool(p)
  BY <1>1, PermitsAreBalanced
<1>2. CASE dial[p] = NoServer
  <2>1. permits[p] = MaxConn /\ Out(p) = {}
    BY <1>2 DEF Dialled, Out
  <2>2. Between(p) = {}
    BY <1>2, PgAssumption DEF Between, Called, Halfway, Actors
  <2> QED
    BY <2>1, <2>2, FS_EmptySet, PgAssumption DEF Balanced
<1> QED
  BY <1>1, <1>2, SoleBefore

LEMMA PermitsStep ==
  TypeOK /\ Called /\ Dialled /\ Apart /\ Stranded /\ PermitsMatch
  /\ [Next]_vars => PermitsMatch'
<1> SUFFICES ASSUME TypeOK, Called, Dialled, Apart, Stranded, PermitsMatch,
                    [Next]_vars, NEW p \in Pools, SolePool(p)'
             PROVE  Balanced(p)'
  BY DEF PermitsMatch, Balanced, Between, Halfway, Out
<1>a. Balanced(p)
  BY BalancedBefore
<1>b. /\ Cardinality(Out(p)) \in Nat /\ Cardinality(Between(p)) \in Nat
      /\ permits[p] \in Nat
  BY Counted DEF TypeOK
<1> USE PgAssumption
    DEF instVars, poolVars, connVars, callVars, Goto, Actors, Halfway
<1>1. ASSUME NEW t \in Threads, NEW s \in Servers,
             NEW o \in {"query", "transaction"}, Begin(t, s, o)
      PROVE  Balanced(p)'
  <2>1. Between(p)' = Between(p)
    BY <1>1 DEF Begin, Between, TypeOK
  <2> QED
    BY <1>1, <2>1, <1>a DEF Begin, Balanced, Out
<1>2. ASSUME NEW t \in Threads, AcquirePermit(t) PROVE Balanced(p)'
  <2>1. pc[t] = "acquiring" /\ pc' = [pc EXCEPT ![t] = "getting"]
    BY <1>2 DEF AcquirePermit
  <2>2. /\ pool[home[t]] \in Pools /\ via' = [via EXCEPT ![t] = pool[home[t]]]
        /\ permits' = [permits EXCEPT ![pool[home[t]]] = @ - 1]
        /\ UNCHANGED Out(p)
    BY <1>2 DEF AcquirePermit, Called, Out
  <2>3. CASE pool[home[t]] = p
    <3>1. t \notin Between(p) /\ Between(p)' = Between(p) \union {t}
      BY <2>1, <2>2, <2>3 DEF Between, TypeOK
    <3>2. Cardinality(Between(p)') = Cardinality(Between(p)) + 1
      BY <3>1, Enters
    <3>3. permits'[p] = permits[p] - 1
      BY <2>2, <2>3 DEF TypeOK
    <3> QED
      BY <2>2, <3>2, <3>3, <1>a, <1>b DEF Balanced
  <2>4. CASE pool[home[t]] # p
    <3>1. Between(p)' = Between(p)
      BY <2>1, <2>2, <2>4 DEF Between, TypeOK
    <3>2. permits'[p] = permits[p]
      BY <2>2, <2>4 DEF TypeOK
    <3> QED
      BY <2>2, <3>1, <3>2, <1>a DEF Balanced
  <2> QED
    BY <2>3, <2>4
<1>3. ASSUME NEW t \in Threads, AcquireTimeout(t) PROVE Balanced(p)'
  <2>1. Between(p)' = Between(p)
    BY <1>3 DEF AcquireTimeout, NextTry, Leave, Between, TypeOK
  <2> QED
    BY <1>3, <2>1, <1>a DEF AcquireTimeout, Balanced, Out
<1>4. ASSUME NEW t \in Threads, GetConn(t) PROVE Balanced(p)'
  <2>1. PICK c \in Conns :
          /\ c \in idle[via[t]] \/ c \in Fresh
          /\ used' = [used EXCEPT ![via[t]] = @ \union {c}]
    BY <1>4, GetConnTakes
  <2>2. /\ pc[t] = "getting" /\ pc' = [pc EXCEPT ![t] = "checking"]
        /\ via[t] \in Pools /\ UNCHANGED <<permits, via>>
    BY <1>4, GetConnTakes DEF Called
  <2>3. CASE via[t] = p
    <3>1. t \in Between(p) /\ Between(p)' = Between(p) \ {t}
      BY <2>2, <2>3 DEF Between, TypeOK
    <3>2. c \notin Out(p) /\ Out(p)' = Out(p) \union {c}
      <4>1. c \notin used[p] /\ c \notin stuck
        BY <2>1, <2>2, <2>3 DEF Apart, Fresh, Stranded
      <4>2. used'[p] = used[p] \union {c} /\ UNCHANGED stuck
        BY <1>4, <2>1, <2>2, <2>3, GetConnTakes DEF TypeOK
      <4> QED
        BY <4>1, <4>2 DEF Out
    <3>3. Cardinality(Between(p)') = Cardinality(Between(p)) - 1
      BY <3>1, Exits
    <3>4. Cardinality(Out(p)') = Cardinality(Out(p)) + 1
      BY <3>2, Counted, FS_AddElement
    <3> QED
      BY <2>2, <3>3, <3>4, <1>a, <1>b DEF Balanced
  <2>4. CASE via[t] # p
    <3>1. Between(p)' = Between(p)
      BY <2>2, <2>4 DEF Between, TypeOK
    <3>2. Out(p)' = Out(p)
      BY <1>4, <2>1, <2>4, GetConnTakes DEF TypeOK, Out
    <3> QED
      BY <2>2, <3>1, <3>2, <1>a DEF Balanced
  <2> QED
    BY <2>3, <2>4
<1>5. ASSUME NEW t \in Threads, GetConnFails(t) PROVE Balanced(p)'
  <2>1. PICK l \in {"acquiring", "idle"} :
          /\ pc' = [pc EXCEPT ![t] = l] /\ via' = [via EXCEPT ![t] = NoPool]
          /\ pc[t] \in Halfway /\ SemaphoreRelease(via[t]) /\ UNCHANGED Out(p)
    BY <1>5, NextTryMoves DEF GetConnFails, Leave, Out, connVars
  <2>2. CASE via[t] = p
    <3>1. t \in Between(p) /\ Between(p)' = Between(p) \ {t}
      BY <2>1, <2>2 DEF Between, TypeOK
    <3>2. /\ Cardinality(Between(p)') = Cardinality(Between(p)) - 1
          /\ Cardinality(Between(p)') \in Nat
      BY <3>1, Exits
    <3>3. permits[p] < MaxConn
      BY <3>2, <1>a, <1>b DEF Balanced
    <3>4. permits'[p] = permits[p] + 1
      BY <2>1, <2>2, <3>3 DEF SemaphoreRelease, TypeOK
    <3> QED
      BY <2>1, <3>2, <3>4, <1>a, <1>b DEF Balanced
  <2>3. CASE via[t] # p
    <3>1. permits'[p] = permits[p]
      BY <2>1, <2>3 DEF SemaphoreRelease, TypeOK
    <3>2. Between(p)' = Between(p)
      BY <2>1, <2>3 DEF Between, TypeOK
    <3> QED
      BY <2>1, <3>1, <3>2, <1>a DEF Balanced
  <2> QED
    BY <2>2, <2>3
<1>6. ASSUME NEW t \in Threads, CheckHealth(t) PROVE Balanced(p)'
  <2>1. Between(p)' = Between(p)
    BY <1>6 DEF CheckHealth, Between, TypeOK
  <2> QED
    BY <1>6, <2>1, <1>a DEF CheckHealth, Balanced, Out
<1>7. ASSUME NEW t \in Threads, Discard(t) PROVE Balanced(p)'
  <2>1. PICK q \in Pools : GivenBack(t, q)
    BY <1>7, GivesBack
  <2>2. CASE q = p
    <3>1. t \notin Between(p) /\ Between(p)' = Between(p) \union {t}
      BY <2>1, <2>2 DEF GivenBack, Between, TypeOK
    <3>2. conn[t] \in used[p] /\ p \notin shut
      <4>1. PICK r \in Pools : dial[r] = home[t] /\ conn[t] \in used[r]
        BY <2>1 DEF GivenBack, Called, Holding
      <4>2. r = p /\ p \notin shut
        BY <2>1, <2>2, <4>1 DEF GivenBack, SolePool
      <4> QED
        BY <4>1, <4>2
    <3>3. /\ conn[t] \in Out(p) /\ permits'[p] = permits[p]
          /\ Out(p)' = Out(p) \ {conn[t]}
      BY <2>1, <2>2, <3>2, OutAfter DEF GivenBack, Out
    <3>4. Cardinality(Out(p)') = Cardinality(Out(p)) - 1
      BY <3>3, Withdrawn
    <3>5. Cardinality(Between(p)') = Cardinality(Between(p)) + 1
      BY <3>1, Enters
    <3> QED
      BY <3>3, <3>4, <3>5, <1>a, <1>b DEF Balanced
  <2>3. CASE q # p
    <3>1. Between(p)' = Between(p)
      BY <2>1, <2>3 DEF GivenBack, Between, TypeOK
    <3>2. Out(p)' = Out(p)
      BY <2>1, <2>3, OutAfter
    <3>3. permits'[p] = permits[p]
      BY <2>1 DEF GivenBack
    <3> QED
      BY <3>1, <3>2, <3>3, <1>a DEF Balanced
  <2> QED
    BY <2>2, <2>3
<1>8. ASSUME NEW t \in Threads, Discarded(t) PROVE Balanced(p)'
  <2>1. PICK l \in {"acquiring", "idle"} :
          /\ pc' = [pc EXCEPT ![t] = l] /\ via' = [via EXCEPT ![t] = NoPool]
          /\ pc[t] \in Halfway /\ SemaphoreRelease(via[t]) /\ UNCHANGED Out(p)
    BY <1>8, NextTryMoves DEF Discarded, Leave, Out, connVars
  <2>2. CASE via[t] = p
    <3>1. t \in Between(p) /\ Between(p)' = Between(p) \ {t}
      BY <2>1, <2>2 DEF Between, TypeOK
    <3>2. /\ Cardinality(Between(p)') = Cardinality(Between(p)) - 1
          /\ Cardinality(Between(p)') \in Nat
      BY <3>1, Exits
    <3>3. permits[p] < MaxConn
      BY <3>2, <1>a, <1>b DEF Balanced
    <3>4. permits'[p] = permits[p] + 1
      BY <2>1, <2>2, <3>3 DEF SemaphoreRelease, TypeOK
    <3> QED
      BY <2>1, <3>2, <3>4, <1>a, <1>b DEF Balanced
  <2>3. CASE via[t] # p
    <3>1. permits'[p] = permits[p]
      BY <2>1, <2>3 DEF SemaphoreRelease, TypeOK
    <3>2. Between(p)' = Between(p)
      BY <2>1, <2>3 DEF Between, TypeOK
    <3> QED
      BY <2>1, <3>1, <3>2, <1>a DEF Balanced
  <2> QED
    BY <2>2, <2>3
<1>9. ASSUME NEW a \in Actors, Connect(a) PROVE Balanced(p)'
  <2>1. Between(p)' = Between(p)
    BY <1>9 DEF Connect, Between, TypeOK
  <2> QED
    BY <1>9, <2>1, <1>a DEF Connect, Balanced, Out
<1>10. ASSUME NEW a \in Actors, ConnectFails(a) PROVE Balanced(p)'
  <2>1. Between(p)' = Between(p)
    BY <1>10 DEF ConnectFails, NextTry, Leave, Between, TypeOK
  <2> QED
    BY <1>10, <2>1, <1>a DEF ConnectFails, Balanced, Out
<1>11. ASSUME NEW a \in Actors, StorePool(a) PROVE Balanced(p)'
  <2>1. Between(p)' = Between(p)
    BY <1>11 DEF StorePool, Between, TypeOK
  <2> QED
    BY <1>11, <2>1, <1>a DEF StorePool, Balanced, Out
<1>12. ASSUME NEW t \in Threads, SetAutocommitRaises(t) PROVE Balanced(p)'
  <2>1. Between(p)' = Between(p)
    BY <1>12 DEF SetAutocommitRaises, NextTry, Leave, Between, TypeOK
  <2> QED
    BY <1>12, <2>1, <1>a DEF SetAutocommitRaises, Balanced, Out
<1>13. ASSUME NEW t \in Threads, Execute(t) PROVE Balanced(p)'
  <2>1. Between(p)' = Between(p)
    BY <1>13 DEF Execute, Between, TypeOK
  <2> QED
    BY <1>13, <2>1, <1>a DEF Execute, Balanced, Out
<1>14. ASSUME NEW t \in Threads, ReleaseRemoved(t) PROVE Balanced(p)'
  <2>1. Between(p)' = Between(p)
    BY <1>14 DEF ReleaseRemoved, NextTry, Leave, Between, TypeOK
  <2> QED
    BY <1>14, <2>1, <1>a DEF ReleaseRemoved, Balanced, Out
<1>15. ASSUME NEW t \in Threads, ReleaseConn(t) PROVE Balanced(p)'
  <2>1. Between(p)' = Between(p)
    BY <1>15 DEF ReleaseConn, Between, TypeOK
  <2> QED
    BY <1>15, <2>1, <1>a DEF ReleaseConn, Balanced, Out
<1>16. ASSUME NEW t \in Threads, Recheck(t) PROVE Balanced(p)'
  <2>1. Between(p)' = Between(p)
    BY <1>16 DEF Recheck, Between, TypeOK
  <2> QED
    BY <1>16, <2>1, <1>a DEF Recheck, Balanced, Out
<1>17. ASSUME NEW t \in Threads, Put(t) PROVE Balanced(p)'
  <2>1. PICK q \in Pools : GivenBack(t, q)
    BY <1>17, GivesBack
  <2>2. CASE q = p
    <3>1. t \notin Between(p) /\ Between(p)' = Between(p) \union {t}
      BY <2>1, <2>2 DEF GivenBack, Between, TypeOK
    <3>2. conn[t] \in used[p] /\ p \notin shut
      <4>1. PICK r \in Pools : dial[r] = home[t] /\ conn[t] \in used[r]
        BY <2>1 DEF GivenBack, Called, Holding
      <4>2. r = p /\ p \notin shut
        BY <2>1, <2>2, <4>1 DEF GivenBack, SolePool
      <4> QED
        BY <4>1, <4>2
    <3>3. /\ conn[t] \in Out(p) /\ permits'[p] = permits[p]
          /\ Out(p)' = Out(p) \ {conn[t]}
      BY <2>1, <2>2, <3>2, OutAfter DEF GivenBack, Out
    <3>4. Cardinality(Out(p)') = Cardinality(Out(p)) - 1
      BY <3>3, Withdrawn
    <3>5. Cardinality(Between(p)') = Cardinality(Between(p)) + 1
      BY <3>1, Enters
    <3> QED
      BY <3>3, <3>4, <3>5, <1>a, <1>b DEF Balanced
  <2>3. CASE q # p
    <3>1. Between(p)' = Between(p)
      BY <2>1, <2>3 DEF GivenBack, Between, TypeOK
    <3>2. Out(p)' = Out(p)
      BY <2>1, <2>3, OutAfter
    <3>3. permits'[p] = permits[p]
      BY <2>1 DEF GivenBack
    <3> QED
      BY <3>1, <3>2, <3>3, <1>a DEF Balanced
  <2> QED
    BY <2>2, <2>3
<1>18. ASSUME NEW t \in Threads, Signal(t) PROVE Balanced(p)'
  <2>1. PICK l \in {"acquiring", "idle"} :
          /\ pc' = [pc EXCEPT ![t] = l] /\ via' = [via EXCEPT ![t] = NoPool]
          /\ pc[t] \in Halfway /\ SemaphoreRelease(via[t]) /\ UNCHANGED Out(p)
    BY <1>18, NextTryMoves DEF Signal, Leave, Out, connVars
  <2>2. CASE via[t] = p
    <3>1. t \in Between(p) /\ Between(p)' = Between(p) \ {t}
      BY <2>1, <2>2 DEF Between, TypeOK
    <3>2. /\ Cardinality(Between(p)') = Cardinality(Between(p)) - 1
          /\ Cardinality(Between(p)') \in Nat
      BY <3>1, Exits
    <3>3. permits[p] < MaxConn
      BY <3>2, <1>a, <1>b DEF Balanced
    <3>4. permits'[p] = permits[p] + 1
      BY <2>1, <2>2, <3>3 DEF SemaphoreRelease, TypeOK
    <3> QED
      BY <2>1, <3>2, <3>4, <1>a, <1>b DEF Balanced
  <2>3. CASE via[t] # p
    <3>1. permits'[p] = permits[p]
      BY <2>1, <2>3 DEF SemaphoreRelease, TypeOK
    <3>2. Between(p)' = Between(p)
      BY <2>1, <2>3 DEF Between, TypeOK
    <3> QED
      BY <2>1, <3>1, <3>2, <1>a DEF Balanced
  <2> QED
    BY <2>2, <2>3
<1>19. ASSUME NEW s \in Servers, NEW kind \in ReloadKinds,
             ReloadBegin(s, kind)
      PROVE  Balanced(p)'
  <2>1. Between(p)' = Between(p)
    BY <1>19 DEF ReloadBegin, Between, TypeOK
  <2> QED
    BY <1>19, <2>1, <1>a DEF ReloadBegin, Balanced, Out
<1>20. CASE ReloadClose
  <2>1. Between(p)' = Between(p)
    BY <1>20 DEF ReloadClose, Between, TypeOK
  <2> QED
    BY <1>20, <2>1, <1>a DEF ReloadClose, Balanced, Out
<1>21. CASE ReloadEnd
  <2>1. Between(p)' = Between(p)
    BY <1>21 DEF ReloadEnd, Between, TypeOK
  <2> QED
    BY <1>21, <2>1, <1>a DEF ReloadEnd, Balanced, Out
<1>22. ASSUME NEW c \in Conns, BreakConn(c) PROVE Balanced(p)'
  <2>1. Between(p)' = Between(p)
    BY <1>22 DEF BreakConn, Between, TypeOK
  <2> QED
    BY <1>22, <2>1, <1>a DEF BreakConn, Balanced, Out
<1>23. CASE UNCHANGED vars
  <2>1. Between(p)' = Between(p)
    BY <1>23 DEF vars, Between, TypeOK
  <2> QED
    BY <1>23, <2>1, <1>a DEF vars, Balanced, Out
<1> QED
  BY <1>1, <1>2, <1>3, <1>4, <1>5, <1>6, <1>7, <1>8, <1>9, <1>10, <1>11, <1>12,
     <1>13, <1>14, <1>15, <1>16, <1>17, <1>18, <1>19, <1>20, <1>21, <1>22,
     <1>23 DEF Next, Step, ReloadStep

-----------------------------------------------------------------------------
(* Who answers for a connection. *)

(* The pool a call took its connection from is the only one that counts it *)
(* as given out, so it is its server's only pool if there is just one.     *)
LEMMA TakenFromHome ==
  ASSUME TypeOK, Called, Apart, NEW t \in Threads, pc[t] \in Holding,
         NEW p \in Pools, conn[t] \in used[p]
  PROVE  dial[p] = home[t]
  BY DEF Called, Apart

LEMMA AnsweredBefore ==
  ASSUME TypeOK, Dialled, Answered, [Next]_vars,
         NEW p \in Pools, SolePool(p)', entry'[dial'[p]] = "present",
         NEW c \in used[p]
  PROVE  c \in lost \union stuck \/ \E t \in Threads : c \in InHand(t)
<1>1. CASE dial[p] = NoServer
  BY <1>1 DEF Dialled
<1>2. CASE dial[p] # NoServer
  <2>1. SolePool(p) /\ dial'[p] = dial[p]
    BY <1>2, SoleBefore
  <2>2. dial[p] \in Servers /\ entry[dial[p]] \in {"present", "removed"}
    BY <1>2 DEF TypeOK, Dialled
  <2>3. entry[dial[p]] = "present"
    BY <2>1, <2>2, PoolsKept
  <2> QED
    BY <2>1, <2>3 DEF Answered
<1> QED
  BY <1>1, <1>2

LEMMA AnsweredStep ==
  TypeOK /\ Called /\ Dialled /\ Apart /\ Answered /\ [Next]_vars => Answered'
<1> DEFINE Answers(c) == c \in (lost \union stuck)' \/ \E t \in Threads : c \in InHand(t)'
<1> SUFFICES ASSUME TypeOK, Called, Dialled, Apart, Answered, [Next]_vars,
                    NEW p \in Pools, SolePool(p)', entry'[dial'[p]] = "present",
                    NEW d \in used'[p]
             PROVE  Answers(d)
  BY DEF Answered
<1>a. d \in used[p] => d \in lost \union stuck \/ \E u \in Threads : d \in InHand(u)
  BY AnsweredBefore
<1> USE PgAssumption
    DEF instVars, poolVars, connVars, callVars, Goto, Actors
<1>1. ASSUME NEW t \in Threads, NEW s \in Servers,
             NEW o \in {"query", "transaction"}, Begin(t, s, o)
      PROVE  Answers(d)
  <2>1. d \in used[p] /\ UNCHANGED <<lost, stuck>>
    BY <1>1 DEF Begin
  <2>2. \A u \in Threads : d \in InHand(u) => d \in InHand(u)'
    BY <1>1 DEF Begin, InHand, TypeOK
  <2> QED
    BY <2>1, <2>2, <1>a
<1>2. ASSUME NEW t \in Threads, AcquirePermit(t) PROVE Answers(d)
  <2>1. d \in used[p] /\ UNCHANGED <<lost, stuck>>
    BY <1>2 DEF AcquirePermit
  <2>2. \A u \in Threads : d \in InHand(u) => d \in InHand(u)'
    BY <1>2 DEF AcquirePermit, InHand, TypeOK
  <2> QED
    BY <2>1, <2>2, <1>a
<1>3. ASSUME NEW t \in Threads, AcquireTimeout(t) PROVE Answers(d)
  <2>1. d \in used[p] /\ UNCHANGED <<lost, stuck>>
    BY <1>3 DEF AcquireTimeout
  <2>2. InHand(t) = {}
    BY <1>3 DEF AcquireTimeout, InHand, Called, Before
  <2>3. PICK l \in {"acquiring", "idle"} :
          pc' = [pc EXCEPT ![t] = l] /\ conn' = [conn EXCEPT ![t] = NoConn]
    BY <1>3, NextTryMoves DEF AcquireTimeout
  <2>4. \A u \in Threads \ {t} : InHand(u)' = InHand(u)
    BY <2>3 DEF InHand, TypeOK
  <2> QED
    BY <2>1, <2>2, <2>4, <1>a
<1>4. ASSUME NEW t \in Threads, GetConn(t) PROVE Answers(d)
  <2>1. PICK c \in Conns :
          /\ used' = [used EXCEPT ![via[t]] = @ \union {c}]
          /\ conn' = [conn EXCEPT ![t] = c]
    BY <1>4, GetConnTakes
  <2>2. pc[t] = "getting" /\ pc' = [pc EXCEPT ![t] = "checking"] /\ UNCHANGED <<lost, stuck>>
    BY <1>4, GetConnTakes
  <2>3. InHand(t) = {} /\ InHand(t)' = {c}
    BY <2>1, <2>2 DEF InHand, Called, Before, TypeOK
  <2>4. \A u \in Threads \ {t} : InHand(u)' = InHand(u)
    BY <2>1, <2>2 DEF InHand, TypeOK
  <2>5. d = c \/ d \in used[p]
    BY <2>1 DEF TypeOK
  <2> QED
    BY <2>2, <2>3, <2>4, <2>5, <1>a
<1>5. ASSUME NEW t \in Threads, GetConnFails(t) PROVE Answers(d)
  <2>1. d \in used[p] /\ UNCHANGED <<lost, stuck>>
    BY <1>5 DEF GetConnFails
  <2>2. InHand(t) = {}
    BY <1>5 DEF GetConnFails, InHand, Called, Before
  <2>3. PICK l \in {"acquiring", "idle"} :
          pc' = [pc EXCEPT ![t] = l] /\ conn' = [conn EXCEPT ![t] = NoConn]
    BY <1>5, NextTryMoves DEF GetConnFails
  <2>4. \A u \in Threads \ {t} : InHand(u)' = InHand(u)
    BY <2>3 DEF InHand, TypeOK
  <2> QED
    BY <2>1, <2>2, <2>4, <1>a
<1>6. ASSUME NEW t \in Threads, CheckHealth(t) PROVE Answers(d)
  <2>1. d \in used[p] /\ UNCHANGED <<lost, stuck>>
    BY <1>6 DEF CheckHealth
  <2>2. \A u \in Threads : d \in InHand(u) => d \in InHand(u)'
    BY <1>6 DEF CheckHealth, InHand, TypeOK
  <2> QED
    BY <2>1, <2>2, <1>a
<1>7. ASSUME NEW t \in Threads, Discard(t) PROVE Answers(d)
  <2>1. PICK q \in Pools : GivenBack(t, q)
    BY <1>7, GivesBack
  <2>2. d \in used[p] /\ UNCHANGED lost /\ stuck \subseteq stuck'
    BY <2>1, GivenShrinks
  <2>3. \A u \in Threads \ {t} : InHand(u)' = InHand(u)
    BY <2>1 DEF GivenBack, InHand, TypeOK
  <2>4. d = conn[t] => d \in stuck'
    <3> SUFFICES ASSUME d = conn[t], d \notin stuck' PROVE FALSE
      OBVIOUS
    <3>1. dial[p] = home[t]
      BY <2>1, <2>2, TakenFromHome DEF GivenBack, Holding
    <3>2. q = p /\ p \notin shut
      BY <2>1, <3>1 DEF GivenBack, SolePool
    <3> QED
      BY ZenonT(60), <2>1, <3>2 DEF GivenBack
  <2>5. \A u \in Threads : d \in InHand(u) => u # t \/ d \in stuck'
    BY <2>4 DEF InHand
  <2> QED
    BY <2>2, <2>3, <2>5, <1>a
<1>8. ASSUME NEW t \in Threads, Discarded(t) PROVE Answers(d)
  <2>1. d \in used[p] /\ UNCHANGED <<lost, stuck>>
    BY <1>8 DEF Discarded
  <2>2. PICK l \in {"acquiring", "idle"} :
          pc' = [pc EXCEPT ![t] = l] /\ conn' = [conn EXCEPT ![t] = NoConn]
    BY <1>8, NextTryMoves DEF Discarded, Leave
  <2>3. InHand(t) = {} /\ \A u \in Threads \ {t} : InHand(u)' = InHand(u)
    BY <1>8, <2>2 DEF Discarded, InHand, TypeOK
  <2> QED
    BY <2>1, <2>3, <1>a
<1>9. ASSUME NEW a \in Actors, Connect(a) PROVE Answers(d)
  <2>1. d \in used[p] /\ UNCHANGED <<lost, stuck>>
    BY <1>9 DEF Connect
  <2>2. \A u \in Threads : d \in InHand(u) => d \in InHand(u)'
    BY <1>9 DEF Connect, InHand, TypeOK
  <2> QED
    BY <2>1, <2>2, <1>a
<1>10. ASSUME NEW a \in Actors, ConnectFails(a) PROVE Answers(d)
  <2>1. d \in used[p] /\ UNCHANGED <<lost, stuck>>
    BY <1>10 DEF ConnectFails
  <2>2. CASE a \in Threads /\ Leave(a)
    <3>1. InHand(a) = {}
      BY <1>10, <2>2 DEF ConnectFails, InHand, Called, Before
    <3>2. \A u \in Threads \ {a} : InHand(u)' = InHand(u)
      BY <2>2 DEF Leave, InHand, TypeOK
    <3> QED
      BY <2>1, <3>1, <3>2, <1>a
  <2>3. CASE a = Reloader
    <3>1. \A u \in Threads : InHand(u)' = InHand(u)
      BY <1>10, <2>3 DEF ConnectFails, InHand, TypeOK
    <3> QED
      BY <2>1, <3>1, <1>a
  <2> QED
    BY <1>10, <2>2, <2>3 DEF ConnectFails
<1>11. ASSUME NEW a \in Actors, StorePool(a) PROVE Answers(d)
  <2>1. d \in used[p] /\ UNCHANGED <<lost, stuck>>
    BY <1>11 DEF StorePool
  <2>2. \A u \in Threads : d \in InHand(u) => d \in InHand(u)'
    BY <1>11 DEF StorePool, InHand, TypeOK
  <2> QED
    BY <2>1, <2>2, <1>a
<1>12. ASSUME NEW t \in Threads, SetAutocommitRaises(t) PROVE Answers(d)
  <2>1. d \in used[p] /\ lost' = lost \union {conn[t]} /\ UNCHANGED stuck
    BY <1>12 DEF SetAutocommitRaises
  <2>2. \A u \in Threads \ {t} : InHand(u)' = InHand(u)
    BY <1>12 DEF SetAutocommitRaises, Leave, InHand, TypeOK
  <2>3. InHand(t) \subseteq {conn[t]}
    BY DEF InHand
  <2> QED
    BY <2>1, <2>2, <2>3, <1>a
<1>13. ASSUME NEW t \in Threads, Execute(t) PROVE Answers(d)
  <2>1. d \in used[p] /\ UNCHANGED <<lost, stuck>>
    BY <1>13 DEF Execute
  <2>2. \A u \in Threads : d \in InHand(u) => d \in InHand(u)'
    BY <1>13 DEF Execute, InHand, TypeOK
  <2> QED
    BY <2>1, <2>2, <1>a
<1>14. ASSUME NEW t \in Threads, ReleaseRemoved(t) PROVE Answers(d)
  <2>1. d \in used[p] /\ UNCHANGED <<lost, stuck, entry, dial>> /\ pc[t] = "releasing"
    BY <1>14 DEF ReleaseRemoved
  <2>2. \A u \in Threads \ {t} : InHand(u)' = InHand(u)
    BY <1>14 DEF ReleaseRemoved, Leave, InHand, TypeOK
  <2>3. d # conn[t]
    <3> SUFFICES ASSUME d = conn[t] PROVE FALSE
      OBVIOUS
    <3>1. dial[p] = home[t]
      BY <2>1, TakenFromHome DEF Holding
    <3> QED
      BY <1>14, <2>1, <3>1 DEF ReleaseRemoved
  <2>4. \A u \in Threads : d \in InHand(u) => u # t
    BY <2>3 DEF InHand
  <2> QED
    BY <2>1, <2>2, <2>4, <1>a
<1>15. ASSUME NEW t \in Threads, ReleaseConn(t) PROVE Answers(d)
  <2>1. d \in used[p] /\ UNCHANGED <<lost, stuck>>
    BY <1>15 DEF ReleaseConn
  <2>2. \A u \in Threads : d \in InHand(u) => d \in InHand(u)'
    BY <1>15 DEF ReleaseConn, InHand, TypeOK
  <2> QED
    BY <2>1, <2>2, <1>a
<1>16. ASSUME NEW t \in Threads, Recheck(t) PROVE Answers(d)
  <2>1. d \in used[p] /\ UNCHANGED <<lost, stuck>>
    BY <1>16 DEF Recheck
  <2>2. \A u \in Threads : d \in InHand(u) => d \in InHand(u)'
    BY <1>16 DEF Recheck, InHand, TypeOK
  <2> QED
    BY <2>1, <2>2, <1>a
<1>17. ASSUME NEW t \in Threads, Put(t) PROVE Answers(d)
  <2>1. PICK q \in Pools : GivenBack(t, q)
    BY <1>17, GivesBack
  <2>2. d \in used[p] /\ UNCHANGED lost /\ stuck \subseteq stuck'
    BY <2>1, GivenShrinks
  <2>3. \A u \in Threads \ {t} : InHand(u)' = InHand(u)
    BY <2>1 DEF GivenBack, InHand, TypeOK
  <2>4. d = conn[t] => d \in stuck'
    <3> SUFFICES ASSUME d = conn[t], d \notin stuck' PROVE FALSE
      OBVIOUS
    <3>1. dial[p] = home[t]
      BY <2>1, <2>2, TakenFromHome DEF GivenBack, Holding
    <3>2. q = p /\ p \notin shut
      BY <2>1, <3>1 DEF GivenBack, SolePool
    <3> QED
      BY <2>1, <3>2 DEF GivenBack
  <2>5. \A u \in Threads : d \in InHand(u) => u # t \/ d \in stuck'
    BY <2>4 DEF InHand
  <2> QED
    BY <2>2, <2>3, <2>5, <1>a
<1>18. ASSUME NEW t \in Threads, Signal(t) PROVE Answers(d)
  <2>1. d \in used[p] /\ UNCHANGED <<lost, stuck>>
    BY <1>18 DEF Signal
  <2>2. PICK l \in {"acquiring", "idle"} :
          pc' = [pc EXCEPT ![t] = l] /\ conn' = [conn EXCEPT ![t] = NoConn]
    BY <1>18, NextTryMoves DEF Signal, Leave
  <2>3. InHand(t) = {} /\ \A u \in Threads \ {t} : InHand(u)' = InHand(u)
    BY <1>18, <2>2 DEF Signal, InHand, TypeOK
  <2> QED
    BY <2>1, <2>3, <1>a
<1>19. ASSUME NEW s \in Servers, NEW kind \in ReloadKinds,
             ReloadBegin(s, kind)
      PROVE  Answers(d)
  <2>1. d \in used[p] /\ UNCHANGED <<lost, stuck>>
    BY <1>19 DEF ReloadBegin
  <2>2. \A u \in Threads : d \in InHand(u) => d \in InHand(u)'
    BY <1>19 DEF ReloadBegin, InHand, TypeOK
  <2> QED
    BY <2>1, <2>2, <1>a
<1>20. CASE ReloadClose
  <2>1. d \in used[p] /\ UNCHANGED <<lost, stuck>>
    BY <1>20 DEF ReloadClose
  <2>2. \A u \in Threads : d \in InHand(u) => d \in InHand(u)'
    BY <1>20 DEF ReloadClose, InHand, TypeOK
  <2> QED
    BY <2>1, <2>2, <1>a
<1>21. CASE ReloadEnd
  <2>1. d \in used[p] /\ UNCHANGED <<lost, stuck>>
    BY <1>21 DEF ReloadEnd
  <2>2. \A u \in Threads : d \in InHand(u) => d \in InHand(u)'
    BY <1>21 DEF ReloadEnd, InHand, TypeOK
  <2> QED
    BY <2>1, <2>2, <1>a
<1>22. ASSUME NEW c \in Conns, BreakConn(c) PROVE Answers(d)
  <2>1. d \in used[p] /\ UNCHANGED <<lost, stuck>>
    BY <1>22 DEF BreakConn
  <2>2. \A u \in Threads : d \in InHand(u) => d \in InHand(u)'
    BY <1>22 DEF BreakConn, InHand, TypeOK
  <2> QED
    BY <2>1, <2>2, <1>a
<1>23. CASE UNCHANGED vars
  <2>1. d \in used[p] /\ UNCHANGED <<lost, stuck>>
    BY <1>23 DEF vars
  <2>2. \A u \in Threads : d \in InHand(u) => d \in InHand(u)'
    BY <1>23 DEF vars, InHand, TypeOK
  <2> QED
    BY <2>1, <2>2, <1>a
<1> QED
  BY <1>1, <1>2, <1>3, <1>4, <1>5, <1>6, <1>7, <1>8, <1>9, <1>10, <1>11, <1>12,
     <1>13, <1>14, <1>15, <1>16, <1>17, <1>18, <1>19, <1>20, <1>21, <1>22,
     <1>23 DEF Next, Step, ReloadStep

-----------------------------------------------------------------------------
(* The invariant. *)

LEMMA InitOK == Init => IInv
<1> SUFFICES ASSUME Init PROVE IInv
  OBVIOUS
<1>1. TypeOK
  BY InitTyped
<1>2. Called
  BY PgAssumption DEF Init, Called, Actors, Before, Holding, Halfway, Putting,
                         ThreadPC
<1>3. Dialled
  <2>1. \A s \in Servers : pool[s] # NoPool => dial[pool[s]] = s
    <3> SUFFICES ASSUME NEW s \in Servers, pool[s] # NoPool
                 PROVE  dial[pool[s]] = s
      OBVIOUS
    <3>1. s \in Pooled /\ pool[s] = CHOOSE p \in Pools : dial[p] = s
      BY DEF Init
    <3>2. \E p \in Pools : dial[p] = s
      BY <3>1 DEF Init
    <3> QED
      BY <3>1, <3>2
  <2>2. \A p \in Pools : dial[p] # NoServer => entry[dial[p]] = "present"
    BY PgAssumption DEF Init
  <2>3. \A p \in Pools : permits[p] = MaxConn /\ used[p] = {}
    BY DEF Init
  <2> QED
    BY <2>1, <2>2, <2>3 DEF Dialled
<1>4. Apart
  BY DEF Init, Apart
<1>5. ConnectionExclusive
  BY DEF Init, ConnectionExclusive, InHand
<1>6. Worked
  <2>1. /\ \A c \in Conns : work[c] = NoThread
        /\ \A p \in Pools : idle[p] \subseteq Conns
        /\ \A t \in Threads : pc[t] \notin Unused
    BY <1>1, PgAssumption DEF Init, TypeOK, Actors, Unused
  <2> QED
    BY <2>1 DEF Worked
<1>7. PermitsMatch
  <2>1. \A p \in Pools : permits[p] = MaxConn /\ Out(p) = {} /\ Between(p) = {}
    BY DEF Init, Between, Halfway, Actors, Out
  <2>2. ASSUME NEW p \in Pools PROVE Balanced(p)
    <3>1. Cardinality(Out(p)) = 0 /\ Cardinality(Between(p)) = 0
      BY <2>1, FS_EmptySet
    <3>2. permits[p] = MaxConn /\ MaxConn \in Nat
      BY <2>1, PgAssumption
    <3> QED
      BY <3>1, <3>2 DEF Balanced
  <2> QED
    BY <2>2, PermitsAreBalanced
<1>8. Answered
  BY DEF Init, Answered
<1>9. Stranded
  BY DEF Init, Stranded
<1> QED
  BY <1>1, <1>2, <1>3, <1>4, <1>5, <1>6, <1>7, <1>8, <1>9 DEF IInv

LEMMA NextOK == IInv /\ [Next]_vars => IInv'
  BY TypeStep, CalledStep, DialledStep, ApartStep, StrandedStep, ExclusiveStep,
     WorkedStep, PermitsStep, AnsweredStep DEF IInv

LEMMA Inductive == Spec => []IInv
  BY InitOK, NextOK, PTL DEF Spec

(* Types: every variable of the connector keeps its type, permits between  *)
(* 0 and max_conn with them (the BoundedSemaphore of client.py).           *)
THEOREM TypesHold == Spec => []TypeOK
<1>1. IInv => TypeOK
  BY DEF IInv
<1> QED
  BY <1>1, Inductive, PTL

(* _get_conn and release_conn never let two threads hold one connection,   *)
(* nor leave one in a pool that a thread still uses, however many threads  *)
(* race with lazy connects and with reload_config's replaced pools.        *)
THEOREM ConnectionsAreExclusive == Spec => []ConnectionExclusive
<1>1. IInv => ConnectionExclusive
  BY DEF IInv
<1> QED
  BY <1>1, Inductive, PTL

(* A connection waits in a pool without uncommitted work, and a query      *)
(* starts on one without anybody's: what putconn cannot roll back it does  *)
(* not pass on either.                                                     *)
THEOREM WorkIsOwn == Spec => []NoForeignWork
<1>1. IInv => NoForeignWork
  BY DEF IInv, Worked, NoForeignWork, Unused
<1> QED
  BY <1>1, Inductive, PTL

(* The semaphore of a pool that is the only one its server has had counts  *)
(* what the pool has given out, except between the two halves of getconn   *)
(* and putconn, and except for connections whose rollback raised inside    *)
(* putconn: of those the permit is back and the pool still counts them.    *)
THEOREM PermitsCount == Spec => []PermitsMatch
<1>1. IInv => PermitsMatch
  BY DEF IInv
<1> QED
  BY <1>1, Inductive, PTL

(* A thread that acquired a permit of such a pool finds an idle connection *)
(* in it or room for a new one, so that getconn does not raise             *)
(* "exhausted", unless a rollback inside putconn has raised.               *)
THEOREM PermitSuffices == Spec => []NeverExhausted
<1>1. IInv => NeverExhausted
  <2> SUFFICES ASSUME IInv, NEW t \in Threads, pc[t] = "getting",
                      SolePool(via[t]), used[via[t]] \intersect stuck = {}
               PROVE  Cardinality(used[via[t]]) < MaxConn
    BY DEF NeverExhausted
  <2> DEFINE p == via[t]
  <2>1. TypeOK /\ p \in Pools
    BY DEF IInv, Called, Halfway
  <2>2. Balanced(p)
    BY <2>1, PermitsAreBalanced DEF IInv
  <2>3. t \in Between(p)
    BY DEF Between, Halfway
  <2>4. Out(p) = used[p]
    BY DEF Out
  <2> HIDE DEF p
  <2>5. IsFiniteSet(Between(p)) /\ Cardinality(Out(p)) \in Nat
    BY <2>1, Counted
  <2>6. Cardinality(Between(p)) \in Nat \ {0}
    BY <2>3, <2>5, FS_EmptySet, FS_CardinalityType
  <2>7. permits[p] \in Nat
    BY <2>1 DEF TypeOK
  <2>8. Cardinality(Out(p)) < MaxConn
    BY <2>2, <2>5, <2>6, <2>7, PgAssumption DEF Balanced
  <2> QED
    BY <2>4, <2>8 DEF p
<1> QED
  BY <1>1, Inductive, PTL

(* What the pool of a configured server has given out is in the hands of   *)
(* some call, which will put it back, but for what the assignment of       *)
(* conn.autocommit dropped and for what putconn could not roll back.       *)
THEOREM NothingLost == Spec => []NoConnectionLost
<1>1. IInv => NoConnectionLost
  <2>1. \A t \in Threads : InHand(t) \subseteq {conn[t]}
    BY DEF InHand
  <2> QED
    BY <2>1 DEF IInv, Answered, NoConnectionLost
<1> QED
  BY <1>1, Inductive, PTL

-----------------------------------------------------------------------------
(* All pools together are an exclusive pool. *)

(* A pool object that was not created yet has no connections. *)
Undialled == \A p \in Pools : dial[p] = NoServer => idle[p] = {}

LEMMA UndialledStep ==
  TypeOK /\ Called /\ Dialled /\ Undialled /\ [Next]_vars => Undialled'
<1> SUFFICES ASSUME TypeOK, Called, Dialled, Undialled, [Next]_vars
             PROVE  Undialled'
  OBVIOUS
<1> USE DEF instVars, poolVars, connVars, callVars, Actors, Undialled
<1>1. ASSUME NEW t \in Threads, NEW s \in Servers,
             NEW o \in {"query", "transaction"}, Begin(t, s, o)
      PROVE  Undialled'
  BY <1>1 DEF Begin
<1>2. ASSUME NEW t \in Threads, AcquirePermit(t) PROVE Undialled'
  BY <1>2 DEF AcquirePermit
<1>3. ASSUME NEW t \in Threads, AcquireTimeout(t) PROVE Undialled'
  BY <1>3 DEF AcquireTimeout
<1>4. ASSUME NEW t \in Threads, GetConn(t) PROVE Undialled'
  <2>1. /\ \/ UNCHANGED idle
           \/ \E c \in Conns : idle' = [idle EXCEPT ![via[t]] = @ \ {c}]
        /\ UNCHANGED dial
    BY <1>4, GetConnTakes
  <2> QED
    BY <2>1 DEF TypeOK
<1>5. ASSUME NEW t \in Threads, GetConnFails(t) PROVE Undialled'
  BY <1>5 DEF GetConnFails
<1>6. ASSUME NEW t \in Threads, CheckHealth(t) PROVE Undialled'
  BY <1>6 DEF CheckHealth
<1>7. ASSUME NEW t \in Threads, Discard(t) PROVE Undialled'
  <2>1. PICK p \in Pools : GivenBack(t, p)
    BY <1>7, GivesBack
  <2>2. \A q \in Pools : dial[q] = NoServer => idle'[q] = idle[q]
    BY <2>1 DEF GivenBack, Dialled
  <2> QED
    BY <2>1, <2>2 DEF GivenBack
<1>8. ASSUME NEW t \in Threads, Discarded(t) PROVE Undialled'
  BY <1>8 DEF Discarded
<1>9. ASSUME NEW a \in Actors, Connect(a) PROVE Undialled'
  <2>1. PICK p \in Pools, c \in Fresh :
          /\ dial' = [dial EXCEPT ![p] = home[a]]
          /\ idle' = [idle EXCEPT ![p] = {c}]
    BY <1>9 DEF Connect
  <2>2. home[a] \in Servers
    BY <1>9 DEF Connect, Called
  <2> QED
    BY <2>1, <2>2, PgAssumption DEF TypeOK
<1>10. ASSUME NEW a \in Actors, ConnectFails(a) PROVE Undialled'
  BY <1>10 DEF ConnectFails
<1>11. ASSUME NEW a \in Actors, StorePool(a) PROVE Undialled'
  BY <1>11 DEF StorePool
<1>12. ASSUME NEW t \in Threads, SetAutocommitRaises(t) PROVE Undialled'
  BY <1>12 DEF SetAutocommitRaises
<1>13. ASSUME NEW t \in Threads, Execute(t) PROVE Undialled'
  BY <1>13 DEF Execute
<1>14. ASSUME NEW t \in Threads, ReleaseRemoved(t) PROVE Undialled'
  BY <1>14 DEF ReleaseRemoved
<1>15. ASSUME NEW t \in Threads, ReleaseConn(t) PROVE Undialled'
  BY <1>15 DEF ReleaseConn
<1>16. ASSUME NEW t \in Threads, Recheck(t) PROVE Undialled'
  BY <1>16 DEF Recheck
<1>17. ASSUME NEW t \in Threads, Put(t) PROVE Undialled'
  <2>1. PICK p \in Pools : GivenBack(t, p)
    BY <1>17, GivesBack
  <2>2. \A q \in Pools : dial[q] = NoServer => idle'[q] = idle[q]
    BY <2>1 DEF GivenBack, Dialled
  <2> QED
    BY <2>1, <2>2 DEF GivenBack
<1>18. ASSUME NEW t \in Threads, Signal(t) PROVE Undialled'
  BY <1>18 DEF Signal
<1>19. ASSUME NEW s \in Servers, NEW kind \in ReloadKinds,
             ReloadBegin(s, kind)
      PROVE  Undialled'
  BY <1>19 DEF ReloadBegin
<1>20. CASE ReloadClose
  BY <1>20 DEF ReloadClose
<1>21. CASE ReloadEnd
  BY <1>21 DEF ReloadEnd
<1>22. ASSUME NEW c \in Conns, BreakConn(c) PROVE Undialled'
  BY <1>22 DEF BreakConn
<1>23. CASE UNCHANGED vars
  BY <1>23 DEF vars
<1> QED
  BY <1>1, <1>2, <1>3, <1>4, <1>5, <1>6, <1>7, <1>8, <1>9, <1>10, <1>11, <1>12,
     <1>13, <1>14, <1>15, <1>16, <1>17, <1>18, <1>19, <1>20, <1>21, <1>22,
     <1>23 DEF Next, Step, ReloadStep

(* What a thread has in the eyes of the pool, and what waits in it. *)
Has(t)  == IF pc[t] \in {"signalling", "discarded"} THEN NoConn ELSE conn[t]
Waiting == UNION {idle[p] : p \in Pools}

(* Neither connections nor threads come or go. *)
LEMMA PoolUntouched ==
  ASSUME UNCHANGED idle, \A t \in Threads : Has(t)' = Has(t)
  PROVE  UNCHANGED Pool!poolState
  BY DEF Pool!poolState, Has

(* A thread closes or forgets its connection, *)
LEMMA ConnectionDropped ==
  ASSUME NEW t \in Threads, Has(t) # NoConn, Has(t)' = NoConn,
         \A u \in Threads \ {t} : Has(u)' = Has(u), UNCHANGED idle
  PROVE  Pool!Drop(t)
  BY DEF Pool!Drop, Has

(* or a pool keeps it. *)
LEMMA ConnectionGiven ==
  ASSUME TypeOK, Called, NEW t \in Threads, NEW p \in Pools, GivenBack(t, p)
  PROVE  Pool!Give(t) \/ Pool!Drop(t)
<1>1. Has(t) = conn[t] /\ conn[t] # NoConn
  BY PgAssumption DEF GivenBack, Has
<1>2. Has(t)' = NoConn /\ \A u \in Threads \ {t} : Has(u)' = Has(u)
  BY DEF GivenBack, Has, TypeOK, Actors
<1>3. CASE \A q \in Pools : idle'[q] = idle[q]
  <2>1. Waiting' = Waiting
    BY <1>3 DEF Waiting
  <2> QED
    BY <1>1, <1>2, <2>1 DEF Pool!Drop, Has, Waiting
<1>4. CASE idle'[p] = idle[p] \union {conn[t]}
  <2>1. Waiting' = Waiting \union {conn[t]}
    <3>1. \A q \in Pools \ {p} : idle'[q] = idle[q]
      BY DEF GivenBack
    <3> DEFINE c == conn[t]
    <3>2. idle'[p] = idle[p] \union {c}
      BY <1>4
    <3> HIDE DEF c
    <3>3. Waiting' = Waiting \union {c}
      BY <3>1, <3>2 DEF Waiting
    <3> QED
      BY <3>3 DEF c
  <2> QED
    BY <1>1, <1>2, <2>1 DEF Pool!Give, Has, Waiting
<1> QED
  BY <1>3, <1>4 DEF GivenBack

(* getconn takes an idle connection, which is idle nowhere else, or a new  *)
(* one.                                                                    *)
LEMMA ConnectionTaken ==
  ASSUME TypeOK, Called, Apart, NEW t \in Threads, GetConn(t)
  PROVE  \E c \in Conns : Pool!Take(t, c)
<1>1. pc[t] = "getting" /\ via[t] \in Pools /\ conn[t] = NoConn
  BY DEF GetConn, Called, Halfway, Before
<1>2. PICK c \in Conns :
        /\ \/ c \in idle[via[t]] /\ idle' = [idle EXCEPT ![via[t]] = @ \ {c}]
           \/ c \in Fresh /\ UNCHANGED idle
        /\ conn' = [conn EXCEPT ![t] = c]
        /\ pc' = [pc EXCEPT ![t] = "checking"]
  BY GetConnTakes
<1>3. Has(t) = NoConn /\ Has(t)' = c /\ \A u \in Threads \ {t} : Has(u)' = Has(u)
  BY <1>1, <1>2 DEF Has, TypeOK, Actors
<1>4. c \in Waiting \/ \A u \in Threads : Has(u) # c
  BY <1>1, <1>2, PgAssumption DEF Waiting, Fresh, Has
<1>5. Waiting' = Waiting \ {c}
  <2>1. CASE c \in idle[via[t]] /\ idle' = [idle EXCEPT ![via[t]] = @ \ {c}]
    <3>1. /\ idle'[via[t]] = idle[via[t]] \ {c}
          /\ \A q \in Pools \ {via[t]} : idle'[q] = idle[q] /\ c \notin idle[q]
      BY <1>1, <2>1 DEF Apart, TypeOK
    <3> QED
      BY <1>1, <3>1 DEF Waiting
  <2>2. CASE c \in Fresh /\ UNCHANGED idle
    BY <2>2 DEF Fresh, Waiting
  <2> QED
    BY <1>2, <2>1, <2>2
<1>6. Pool!Take(t, c)
  BY <1>3, <1>4, <1>5 DEF Pool!Take, Pool!Held, Has, Waiting
<1> QED
  BY <1>6

(* A new pool object waits with its MIN_CONN connections. *)
LEMMA ConnectionMade ==
  ASSUME TypeOK, Undialled, NEW a \in Actors, Connect(a)
  PROVE  \E c \in Conns : Pool!Make(c)
<1>1. PICK p \in Pools, c \in Fresh :
        /\ dial[p] = NoServer
        /\ idle' = [idle EXCEPT ![p] = {c}]
  BY DEF Connect
<1>2. UNCHANGED conn /\ pc' = [pc EXCEPT ![a] = "storing"] /\ pc[a] = "connecting"
  BY DEF Connect, Goto
<1>3. c \in Conns /\ c \notin Waiting /\ \A t \in Threads : Has(t) # c
  BY <1>1, PgAssumption DEF Fresh, Waiting, Has
<1>4. \A t \in Threads : Has(t)' = Has(t)
  BY <1>2 DEF Has, TypeOK, Actors
<1>5. Waiting' = Waiting \union {c}
  <2>1. idle[p] = {} /\ idle'[p] = {c} /\ \A q \in Pools \ {p} : idle'[q] = idle[q]
    BY <1>1 DEF Undialled, TypeOK
  <2> QED
    BY <2>1 DEF Waiting
<1>6. Pool!Make(c)
  BY <1>3, <1>4, <1>5 DEF Pool!Make, Pool!Held, Has, Waiting
<1> QED
  BY <1>3, <1>6

LEMMA PoolInit == Init => Pool!Init
<1> SUFFICES ASSUME Init PROVE Pool!Init
  OBVIOUS
<1>1. Waiting \subseteq Conns
  BY DEF Init, Waiting
<1>2. \A t \in Threads : Has(t) = NoConn
  BY DEF Init, Has
<1> QED
  BY <1>1, <1>2 DEF Pool!Init, Waiting, Has

LEMMA PoolStep ==
  TypeOK /\ Called /\ Dialled /\ Apart /\ Undialled /\ [Next]_vars
    => [Pool!Next]_(Pool!poolState)
<1> SUFFICES ASSUME TypeOK, Called, Dialled, Apart, Undialled, [Next]_vars
             PROVE  [Pool!Next]_(Pool!poolState)
  OBVIOUS
<1> DEFINE Steps == Pool!Next \/ UNCHANGED Pool!poolState
<1> USE PgAssumption DEF instVars, poolVars, connVars, callVars, Goto, Actors
<1>1. ASSUME NEW t \in Threads, NEW s \in Servers,
             NEW o \in {"query", "transaction"}, Begin(t, s, o)
      PROVE  Steps
  BY <1>1, PoolUntouched DEF Begin, Has, TypeOK
<1>2. ASSUME NEW t \in Threads, AcquirePermit(t) PROVE Steps
  BY <1>2, PoolUntouched DEF AcquirePermit, Has, TypeOK
<1>3. ASSUME NEW t \in Threads, AcquireTimeout(t) PROVE Steps
  <2>1. PICK l \in {"acquiring", "idle"} :
          pc' = [pc EXCEPT ![t] = l] /\ conn' = [conn EXCEPT ![t] = NoConn]
    BY <1>3, NextTryMoves DEF AcquireTimeout, Leave
  <2>2. Has(t) = NoConn
    BY <1>3 DEF AcquireTimeout, Called, Before, Has
  <2>3. UNCHANGED idle /\ \A u \in Threads : Has(u)' = Has(u)
    BY <1>3, <2>1, <2>2 DEF AcquireTimeout, Has, TypeOK
  <2> QED
    BY <2>3, PoolUntouched
<1>4. ASSUME NEW t \in Threads, GetConn(t) PROVE Steps
  <2>1. \E c \in Conns : Pool!Take(t, c)
    BY <1>4, ConnectionTaken
  <2> QED
    BY <2>1 DEF Pool!Next
<1>5. ASSUME NEW t \in Threads, GetConnFails(t) PROVE Steps
  <2>1. PICK l \in {"acquiring", "idle"} :
          pc' = [pc EXCEPT ![t] = l] /\ conn' = [conn EXCEPT ![t] = NoConn]
    BY <1>5, NextTryMoves DEF GetConnFails, Leave
  <2>2. Has(t) = NoConn
    BY <1>5 DEF GetConnFails, Called, Before, Has
  <2>3. UNCHANGED idle /\ \A u \in Threads : Has(u)' = Has(u)
    BY <1>5, <2>1, <2>2 DEF GetConnFails, Has, TypeOK
  <2> QED
    BY <2>3, PoolUntouched
<1>6. ASSUME NEW t \in Threads, CheckHealth(t) PROVE Steps
  BY <1>6, PoolUntouched DEF CheckHealth, Has, TypeOK
<1>7. ASSUME NEW t \in Threads, Discard(t) PROVE Steps
  <2>1. PICK p \in Pools : GivenBack(t, p)
    BY <1>7, GivesBack
  <2>2. Pool!Give(t) \/ Pool!Drop(t)
    BY <2>1, ConnectionGiven
  <2> QED
    BY <2>2 DEF Pool!Next
<1>8. ASSUME NEW t \in Threads, Discarded(t) PROVE Steps
  <2>1. PICK l \in {"acquiring", "idle"} :
          pc' = [pc EXCEPT ![t] = l] /\ conn' = [conn EXCEPT ![t] = NoConn]
    BY <1>8, NextTryMoves DEF Discarded, Leave
  <2>2. Has(t) = NoConn
    BY <1>8 DEF Discarded, Called, Before, Has
  <2>3. UNCHANGED idle /\ \A u \in Threads : Has(u)' = Has(u)
    BY <1>8, <2>1, <2>2 DEF Discarded, Has, TypeOK
  <2> QED
    BY <2>3, PoolUntouched
<1>9. ASSUME NEW a \in Actors, Connect(a) PROVE Steps
  <2>1. \E c \in Conns : Pool!Make(c)
    BY <1>9, ConnectionMade
  <2> QED
    BY <2>1 DEF Pool!Next
<1>10. ASSUME NEW a \in Actors, ConnectFails(a) PROVE Steps
  <2>1. CASE a \in Threads /\ Leave(a)
    <3>1. Has(a) = NoConn
      BY <1>10, <2>1 DEF ConnectFails, Called, Before, Has
    <3>2. UNCHANGED idle /\ \A u \in Threads : Has(u)' = Has(u)
      BY <1>10, <2>1, <3>1 DEF ConnectFails, Leave, Has, TypeOK
    <3> QED
      BY <3>2, PoolUntouched
  <2>2. CASE a = Reloader
    <3>1. UNCHANGED idle /\ \A u \in Threads : Has(u)' = Has(u)
      BY <1>10, <2>2 DEF ConnectFails, Has, TypeOK
    <3> QED
      BY <3>1, PoolUntouched
  <2> QED
    BY <1>10, <2>1, <2>2 DEF ConnectFails
<1>11. ASSUME NEW a \in Actors, StorePool(a) PROVE Steps
  BY <1>11, PoolUntouched DEF StorePool, Has, TypeOK
<1>12. ASSUME NEW t \in Threads, SetAutocommitRaises(t) PROVE Steps
  <2>1. Has(t) # NoConn
    BY <1>12 DEF SetAutocommitRaises, Called, Holding, Has
  <2>2. /\ Has(t)' = NoConn /\ UNCHANGED idle
        /\ \A u \in Threads \ {t} : Has(u)' = Has(u)
    BY <1>12 DEF SetAutocommitRaises, Leave, Has, TypeOK
  <2>3. Pool!Drop(t)
    BY <2>1, <2>2, ConnectionDropped
  <2> QED
    BY <2>3 DEF Pool!Next
<1>13. ASSUME NEW t \in Threads, Execute(t) PROVE Steps
  BY <1>13, PoolUntouched DEF Execute, Has, TypeOK
<1>14. ASSUME NEW t \in Threads, ReleaseRemoved(t) PROVE Steps
  <2>1. Has(t) # NoConn
    BY <1>14 DEF ReleaseRemoved, Called, Holding, Has
  <2>2. /\ Has(t)' = NoConn /\ UNCHANGED idle
        /\ \A u \in Threads \ {t} : Has(u)' = Has(u)
    BY <1>14 DEF ReleaseRemoved, Leave, Has, TypeOK
  <2>3. Pool!Drop(t)
    BY <2>1, <2>2, ConnectionDropped
  <2> QED
    BY <2>3 DEF Pool!Next
<1>15. ASSUME NEW t \in Threads, ReleaseConn(t) PROVE Steps
  BY <1>15, PoolUntouched DEF ReleaseConn, Has, TypeOK
<1>16. ASSUME NEW t \in Threads, Recheck(t) PROVE Steps
  BY <1>16, PoolUntouched DEF Recheck, Has, TypeOK
<1>17. ASSUME NEW t \in Threads, Put(t) PROVE Steps
  <2>1. PICK p \in Pools : GivenBack(t, p)
    BY <1>17, GivesBack
  <2>2. Pool!Give(t) \/ Pool!Drop(t)
    BY <2>1, ConnectionGiven
  <2> QED
    BY <2>2 DEF Pool!Next
<1>18. ASSUME NEW t \in Threads, Signal(t) PROVE Steps
  <2>1. PICK l \in {"acquiring", "idle"} :
          pc' = [pc EXCEPT ![t] = l] /\ conn' = [conn EXCEPT ![t] = NoConn]
    BY <1>18, NextTryMoves DEF Signal, Leave
  <2>2. Has(t) = NoConn
    BY <1>18 DEF Signal, Called, Before, Has
  <2>3. UNCHANGED idle /\ \A u \in Threads : Has(u)' = Has(u)
    BY <1>18, <2>1, <2>2 DEF Signal, Has, TypeOK
  <2> QED
    BY <2>3, PoolUntouched
<1>19. ASSUME NEW s \in Servers, NEW kind \in ReloadKinds,
             ReloadBegin(s, kind)
      PROVE  Steps
  BY <1>19, PoolUntouched DEF ReloadBegin, Has, TypeOK
<1>20. CASE ReloadClose
  BY <1>20, PoolUntouched DEF ReloadClose, Has, TypeOK
<1>21. CASE ReloadEnd
  BY <1>21, PoolUntouched DEF ReloadEnd, Has, TypeOK
<1>22. ASSUME NEW c \in Conns, BreakConn(c) PROVE Steps
  BY <1>22, PoolUntouched DEF BreakConn, Has, TypeOK
<1>23. CASE UNCHANGED vars
  BY <1>23, PoolUntouched DEF vars, Has, TypeOK
<1> QED
  BY <1>1, <1>2, <1>3, <1>4, <1>5, <1>6, <1>7, <1>8, <1>9, <1>10, <1>11, <1>12,
     <1>13, <1>14, <1>15, <1>16, <1>17, <1>18, <1>19, <1>20, <1>21, <1>22,
     <1>23 DEF Next, Step, ReloadStep

(* Whatever pool a connection is put into, and however lazy connects,      *)
(* reloads and broken connections come between, the connector implements   *)
(* the exclusive pool of connections: getconn takes a waiting connection   *)
(* or a new one, putconn gives it back or drops it, connect makes one, and *)
(* nothing else touches what a thread has.                                 *)
THEOREM ConnectionsAreAPool == Spec => ConnectionsPooled
<1>1. Init => Undialled
  BY DEF Init, Undialled
<1>2. IInv /\ Undialled /\ [Next]_vars => Undialled'
  BY UndialledStep DEF IInv
<1>3. IInv /\ Undialled /\ [Next]_vars => [Pool!Next]_(Pool!poolState)
  BY PoolStep DEF IInv
<1> QED
  BY <1>1, <1>2, <1>3, PoolInit, Inductive, PTL
     DEF Spec, ConnectionsPooled, Pool!Spec

-----------------------------------------------------------------------------
(* Queries and their servers. *)

(* A query runs on a connection of the server it was given, through every  *)
(* reload, replaced pool and retry (db/dispatcher.py:164).                 *)
THEOREM QueriesRunAtHome ==
  Spec => [](\A t \in Threads, p \in Pools :
               pc[t] = "executing" /\ conn[t] \in used[p] => dial[p] = home[t])
<1>1. IInv => \A t \in Threads, p \in Pools :
         pc[t] = "executing" /\ conn[t] \in used[p] => dial[p] = home[t]
  BY DEF IInv, Apart, Called, Holding
<1> QED
  BY <1>1, Inductive, PTL

-----------------------------------------------------------------------------
(* reload_config and the lock of the pool it stores. *)

Locking == pc[Reloader] # "idle" => locked

LEMMA LockKept ==
  ASSUME TypeOK, Locking, [Next]_vars
  PROVE  /\ Locking'
         /\ pc[Reloader] = "storing" =>
              \A a \in Actors : pc[a] = "storing" => pc'[a] = "storing"
<1> DEFINE Hangs ==
      /\ Locking'
      /\ pc[Reloader] = "storing" =>
           \A a \in Actors : pc[a] = "storing" => pc'[a] = "storing"
<1> USE PgAssumption
    DEF instVars, poolVars, connVars, callVars, Goto, Actors, Locking
<1>1. ASSUME NEW t \in Threads, NEW s \in Servers,
             NEW o \in {"query", "transaction"}, Begin(t, s, o)
      PROVE  Hangs
  BY <1>1 DEF Begin, Leave, TypeOK
<1>2. ASSUME NEW t \in Threads, AcquirePermit(t) PROVE Hangs
  BY <1>2 DEF AcquirePermit, Leave, TypeOK
<1>3. ASSUME NEW t \in Threads, AcquireTimeout(t) PROVE Hangs
  BY <1>3, NextTryMoves DEF AcquireTimeout, TypeOK
<1>4. ASSUME NEW t \in Threads, GetConn(t) PROVE Hangs
  <2>1. /\ pc' = [pc EXCEPT ![t] = "checking"] /\ pc[t] = "getting"
        /\ UNCHANGED <<instVars>>
    BY <1>4, GetConnTakes
  <2> QED
    BY <2>1 DEF TypeOK
<1>5. ASSUME NEW t \in Threads, GetConnFails(t) PROVE Hangs
  BY <1>5, NextTryMoves DEF GetConnFails, TypeOK
<1>6. ASSUME NEW t \in Threads, CheckHealth(t) PROVE Hangs
  BY <1>6 DEF CheckHealth, Leave, TypeOK
<1>7. ASSUME NEW t \in Threads, Discard(t) PROVE Hangs
  BY <1>7 DEF Discard, Leave, TypeOK
<1>8. ASSUME NEW t \in Threads, Discarded(t) PROVE Hangs
  BY <1>8, NextTryMoves DEF Discarded, TypeOK
<1>9. ASSUME NEW a \in Actors, Connect(a) PROVE Hangs
  BY <1>9 DEF Connect, Leave, TypeOK
<1>10. ASSUME NEW a \in Actors, ConnectFails(a) PROVE Hangs
  BY <1>10 DEF ConnectFails, Leave, TypeOK
<1>11. ASSUME NEW a \in Actors, StorePool(a) PROVE Hangs
  BY <1>11 DEF StorePool, Leave, TypeOK
<1>12. ASSUME NEW t \in Threads, SetAutocommitRaises(t) PROVE Hangs
  BY <1>12 DEF SetAutocommitRaises, Leave, TypeOK
<1>13. ASSUME NEW t \in Threads, Execute(t) PROVE Hangs
  BY <1>13 DEF Execute, Leave, TypeOK
<1>14. ASSUME NEW t \in Threads, ReleaseRemoved(t) PROVE Hangs
  BY <1>14 DEF ReleaseRemoved, Leave, TypeOK
<1>15. ASSUME NEW t \in Threads, ReleaseConn(t) PROVE Hangs
  BY <1>15 DEF ReleaseConn, Leave, TypeOK
<1>16. ASSUME NEW t \in Threads, Recheck(t) PROVE Hangs
  BY <1>16 DEF Recheck, Leave, TypeOK
<1>17. ASSUME NEW t \in Threads, Put(t) PROVE Hangs
  BY <1>17 DEF Put, Leave, TypeOK
<1>18. ASSUME NEW t \in Threads, Signal(t) PROVE Hangs
  BY <1>18 DEF Signal, Leave, TypeOK
<1>19. ASSUME NEW s \in Servers, NEW kind \in ReloadKinds,
             ReloadBegin(s, kind)
      PROVE  Hangs
  BY <1>19 DEF ReloadBegin, Leave, TypeOK
<1>20. CASE ReloadClose
  BY <1>20 DEF ReloadClose, Leave, TypeOK
<1>21. CASE ReloadEnd
  BY <1>21 DEF ReloadEnd, Leave, TypeOK
<1>22. ASSUME NEW c \in Conns, BreakConn(c) PROVE Hangs
  BY <1>22 DEF BreakConn, Leave, TypeOK
<1>23. CASE UNCHANGED vars
  BY <1>23 DEF vars, Leave, TypeOK
<1> QED
  BY <1>1, <1>2, <1>3, <1>4, <1>5, <1>6, <1>7, <1>8, <1>9, <1>10, <1>11, <1>12,
     <1>13, <1>14, <1>15, <1>16, <1>17, <1>18, <1>19, <1>20, <1>21, <1>22,
     <1>23 DEF Next, Step, ReloadStep

(* Once reload_config has connected a new or changed server and waits for  *)
(* the lock of client.py:298, which it holds itself, it waits for ever,    *)
(* and with it every call that is about to store a pool of its own.        *)
THEOREM ReloadHangs ==
  Spec => [][pc[Reloader] = "storing" =>
               \A a \in Actors : pc[a] = "storing" => pc'[a] = "storing"]_vars
<1>1. Init => Locking
  BY DEF Init, Locking, Actors
<1>2. IInv /\ Locking /\ [Next]_vars
        => /\ Locking'
           /\ [pc[Reloader] = "storing" =>
                 \A a \in Actors : pc[a] = "storing" => pc'[a] = "storing"]_vars
  BY LockKept DEF IInv
<1> QED
  BY <1>1, <1>2, Inductive, PTL DEF Spec
=============================================================================
