------------------------------ MODULE PgClient ------------------------------
(***************************************************************************)
(* The PostgreSQL connector (src/envoxy/postgresql/client.py): the         *)
(* semaphore-guarded connection pool, the singleton Client with its        *)
(* per-server instances, queries, transactions, lazy connects and          *)
(* reload_config.                                                          *)
(*                                                                         *)
(* psycopg2's ThreadedConnectionPool is external: it is modelled by what   *)
(* getconn, putconn and closeall do to the sets of idle and used           *)
(* connections.  Each of them runs under the pool's own lock, so each is   *)
(* one step; the semaphore is taken and released in steps of its own.      *)
(* What the server does to a connection the client sees only when it uses  *)
(* it, so a connection that is broken may still pass for a sound one.      *)
(***************************************************************************)
EXTENDS Naturals, FiniteSets

CONSTANTS
  Threads,        (* threads that query and run transactions                *)
  Reloader,       (* the thread that calls reload_config                    *)
  Servers,        (* server keys                                            *)
  Configured,     (* those in the configuration at start                    *)
  Pooled,         (* those whose first connect succeeded                    *)
  Pools, Conns,   (* pool and connection objects                            *)
  MaxConn,        (* max_conn                                               *)
  MaxRetries,     (* max_retries of _get_conn                               *)
  ReloadKinds,    (* what a reload does: "remove", "change" or "add" a key  *)
  NoPool, NoConn, NoServer, NoThread

ASSUME PgAssumption ==
  /\ IsFiniteSet(Pools) /\ IsFiniteSet(Conns) /\ IsFiniteSet(Threads)
  /\ Reloader \notin Threads
  /\ Pooled \subseteq Configured /\ Configured \subseteq Servers
  /\ MaxConn \in Nat \ {0} /\ MaxRetries \in Nat \ {0}
  /\ ReloadKinds \subseteq {"remove", "change", "add"}
  /\ NoPool \notin Pools /\ NoConn \notin Conns
  /\ NoServer \notin Servers /\ NoThread \notin Threads

MinConn == 1
Actors == Threads \union {Reloader}

VARIABLES
  entry,    (* whether a server key is in _instances                        *)
  pool,     (* the instance's "conn_pool"                                   *)
  locked,   (* whether reload_config holds Client._lock                     *)
  dial,     (* the server a pool object connects to, NoServer if none yet   *)
  permits,  (* the value of a pool's BoundedSemaphore                       *)
  idle,     (* connections waiting in a pool                                *)
  used,     (* connections a pool has given out                             *)
  shut,     (* pools on which closeall was called                           *)
  open,     (* connections that still work                                  *)
  silent,   (* connections the server dropped and the client has not noticed*)
  work,     (* the thread with uncommitted work on a connection             *)
  lost,     (* history: connections dropped when setting autocommit raised  *)
  stuck,    (* history: connections still out because putconn's rollback    *)
            (* raised                                                       *)
  pc,       (* where an actor is                                            *)
  op,       (* the call a thread is in: "query" or "transaction"            *)
  home,     (* server_key of the call that took the connection              *)
  conn,     (* the call's local connection                                  *)
  via,      (* the pool object the actor is creating, getting from or       *)
            (* putting into                                                 *)
  tries     (* failed attempts of _get_conn                                 *)

instVars == <<entry, pool, locked>>
poolVars == <<dial, permits, idle, used, shut>>
connVars == <<open, silent, work, lost, stuck>>
callVars == <<op, home>>
vars == <<instVars, poolVars, connVars, callVars, pc, conn, via, tries>>

ThreadPC == {"idle", "connecting", "storing", "acquiring", "getting", "checking",
             "discarding", "discarded", "setting", "executing", "releasing",
             "rechecking", "putting", "dropping", "signalling"}
ReloadPC == {"idle", "connecting", "storing", "closing", "reloaded"}

Goto(a, l) == pc' = [pc EXCEPT ![a] = l]

(* Connection objects nobody refers to: connecting creates one of these. *)
Fresh == {c \in Conns : /\ c \notin open \union silent
                        /\ \A p \in Pools : c \notin idle[p] \union used[p]
                        /\ \A t \in Threads : conn[t] # c}

-----------------------------------------------------------------------------
(* __init__: every configured server has an entry; those that connected    *)
(* have a pool with MIN_CONN connections in it.                            *)
Init ==
  /\ entry = [s \in Servers |-> IF s \in Configured THEN "present" ELSE "absent"]
  /\ dial \in [Pools -> Pooled \union {NoServer}]
  /\ \A s \in Pooled : \E p \in Pools : {q \in Pools : dial[q] = s} = {p}
  /\ pool = [s \in Servers |->
               IF s \in Pooled THEN CHOOSE p \in Pools : dial[p] = s ELSE NoPool]
  /\ idle \in [Pools -> {{}} \union {{c} : c \in Conns}]
  /\ \A p, q \in Pools : /\ idle[p] # {} <=> dial[p] # NoServer
                         /\ p # q => idle[p] \intersect idle[q] = {}
  /\ open = UNION {idle[p] : p \in Pools}
  /\ permits = [p \in Pools |-> MaxConn]
  /\ used = [p \in Pools |-> {}]
  /\ shut = {} /\ locked = FALSE
  /\ silent = {} /\ lost = {} /\ stuck = {}
  /\ work = [c \in Conns |-> NoThread]
  /\ pc = [a \in Actors |-> "idle"]
  /\ op = [t \in Threads |-> "query"]
  /\ home = [a \in Actors |-> NoServer]
  /\ conn = [t \in Threads |-> NoConn]
  /\ via = [a \in Actors |-> NoPool]
  /\ tries = [t \in Threads |-> 0]

-----------------------------------------------------------------------------
(* The pool. *)

(* Fault: a plain Semaphore in place of the bounded one. *)
SemaphoreReleaseUnbounded(p) == permits' = [permits EXCEPT ![p] = @ + 1]

(* BoundedSemaphore.release; the ValueError of an excessive one is caught. *)
SemaphoreRelease(p) ==
  permits' = [permits EXCEPT ![p] = IF @ < MaxConn THEN @ + 1 ELSE @]

(* ThreadedConnectionPool.putconn.  A pool that is closed or did not give  *)
(* the connection out raises PoolError.  One that holds fewer than         *)
(* MIN_CONN takes the connection in, unless it is to be closed: the        *)
(* transaction the health check began is rolled back first, and that       *)
(* raises if the server has dropped the connection meanwhile, before the   *)
(* pool forgets having given it out.  Whatever putconn raises, the caller  *)
(* closes the connection.                                                  *)
PutRaises(p, c) == p \in shut \/ c \notin used[p]
TakesIn(p, close) == ~close /\ Cardinality(idle[p]) < MinConn

(* Fault: the pool keeps the connection without a rollback. *)
PutConnDirty(p, c, close) ==
  /\ silent' = silent \ {c}
  /\ \/ /\ PutRaises(p, c)
        /\ open' = open \ {c}
        /\ UNCHANGED <<idle, used>>
     \/ /\ ~PutRaises(p, c)
        /\ used' = [used EXCEPT ![p] = @ \ {c}]
        /\ IF TakesIn(p, close) /\ c \in open
           THEN idle' = [idle EXCEPT ![p] = @ \union {c}] /\ UNCHANGED open
           ELSE open' = open \ {c} /\ UNCHANGED idle
  /\ UNCHANGED <<dial, permits, shut, work, lost, stuck>>

PutConn(p, c, close) ==
  /\ work' = [work EXCEPT ![c] = NoThread]
  /\ silent' = silent \ {c}
  /\ \/ /\ PutRaises(p, c)
        /\ open' = open \ {c}
        /\ UNCHANGED <<idle, used, stuck>>
     \/ /\ ~PutRaises(p, c)
        /\ TakesIn(p, close) /\ c \in silent
        /\ stuck' = stuck \union {c}
        /\ UNCHANGED <<open, idle, used>>
     \/ /\ ~PutRaises(p, c)
        /\ TakesIn(p, close) /\ c \in open
        /\ idle' = [idle EXCEPT ![p] = @ \union {c}]
        /\ used' = [used EXCEPT ![p] = @ \ {c}]
        /\ UNCHANGED <<open, stuck>>
     \/ /\ ~PutRaises(p, c)
        /\ ~TakesIn(p, close) \/ c \notin open \union silent
        /\ open' = open \ {c}
        /\ used' = [used EXCEPT ![p] = @ \ {c}]
        /\ UNCHANGED <<idle, stuck>>
  /\ UNCHANGED <<dial, permits, shut, lost>>

-----------------------------------------------------------------------------
(* _get_conn, for query() and for transaction(). *)

Begin(t, s, o) ==
  /\ pc[t] = "idle"
  /\ entry[s] = "present"
  /\ op' = [op EXCEPT ![t] = o]
  /\ home' = [home EXCEPT ![t] = s]
  /\ Goto(t, IF pool[s] = NoPool THEN "connecting" ELSE "acquiring")
  /\ UNCHANGED <<instVars, poolVars, connVars, conn, via, tries>>

(* The call is over and its locals are gone. *)
Leave(t) ==
  /\ Goto(t, "idle")
  /\ conn' = [conn EXCEPT ![t] = NoConn]
  /\ via' = [via EXCEPT ![t] = NoPool]
  /\ tries' = [tries EXCEPT ![t] = 0]
  /\ home' = [home EXCEPT ![t] = NoServer]
  /\ UNCHANGED op

(* The end of an attempt that found no healthy connection. *)
NextTry(t) ==
  IF tries[t] + 1 < MaxRetries
  THEN /\ Goto(t, "acquiring")
       /\ tries' = [tries EXCEPT ![t] = @ + 1]
       /\ conn' = [conn EXCEPT ![t] = NoConn]
       /\ via' = [via EXCEPT ![t] = NoPool]
       /\ UNCHANGED callVars
  ELSE Leave(t)

AcquirePermit(t) ==
  LET p == pool[home[t]] IN
  /\ pc[t] = "acquiring"
  /\ permits[p] > 0
  /\ permits' = [permits EXCEPT ![p] = @ - 1]
  /\ via' = [via EXCEPT ![t] = p]
  /\ Goto(t, "getting")
  /\ UNCHANGED <<instVars, dial, idle, used, shut, connVars, callVars, conn,
                 tries>>

AcquireTimeout(t) ==
  /\ pc[t] = "acquiring"
  /\ permits[pool[home[t]]] = 0
  /\ NextTry(t)
  /\ UNCHANGED <<instVars, poolVars, connVars>>

GetConn(t) ==
  LET p == via[t] IN
  /\ pc[t] = "getting"
  /\ p \notin shut
  /\ \E c \in Conns :
       /\ \/ /\ c \in idle[p]
             /\ idle' = [idle EXCEPT ![p] = @ \ {c}]
             /\ UNCHANGED open
          \/ /\ idle[p] = {}
             /\ Cardinality(used[p]) < MaxConn
             /\ c \in Fresh
             /\ open' = open \union {c}
             /\ UNCHANGED idle
       /\ used' = [used EXCEPT ![p] = @ \union {c}]
       /\ conn' = [conn EXCEPT ![t] = c]
  /\ Goto(t, "checking")
  /\ UNCHANGED <<instVars, dial, permits, shut, silent, work, lost, stuck, callVars,
                 via, tries>>

(* Fault: getconn without its except clause keeps the permit. *)
GetConnFailsKeeping(t) ==
  /\ pc[t] = "getting"
  /\ via[t] \in shut \/ idle[via[t]] = {}
  /\ NextTry(t)
  /\ UNCHANGED <<instVars, poolVars, connVars>>

(* The pool is closed or exhausted, or the database refuses a connection:  *)
(* the permit goes back.                                                   *)
GetConnFails(t) ==
  /\ pc[t] = "getting"
  /\ via[t] \in shut \/ idle[via[t]] = {}
  /\ SemaphoreRelease(via[t])
  /\ NextTry(t)
  /\ UNCHANGED <<instVars, dial, idle, used, shut, connVars>>

(* SELECT 1 succeeds or finds out that the connection is broken; where it  *)
(* succeeds it leaves the connection in a transaction.                     *)
CheckHealth(t) ==
  /\ pc[t] = "checking"
  /\ silent' = silent \ {conn[t]}
  /\ Goto(t, CASE conn[t] \notin open -> "discarding"
               [] conn[t] \in open /\ op[t] = "query" -> "executing"
               [] OTHER -> "setting")
  /\ UNCHANGED <<instVars, poolVars, open, work, lost, stuck, callVars, conn, via,
                 tries>>

(* Fault: an unhealthy connection is closed and not put back. *)
DiscardOnlyClosing(t) ==
  /\ pc[t] = "discarding"
  /\ via' = [via EXCEPT ![t] = pool[home[t]]]
  /\ Goto(t, "discarded")
  /\ UNCHANGED <<instVars, poolVars, connVars, callVars, conn, tries>>

(* putconn(close=True) of an unhealthy connection, then its release. *)
Discard(t) ==
  /\ pc[t] = "discarding"
  /\ PutConn(pool[home[t]], conn[t], TRUE)
  /\ via' = [via EXCEPT ![t] = pool[home[t]]]
  /\ Goto(t, "discarded")
  /\ UNCHANGED <<instVars, callVars, conn, tries>>

Discarded(t) ==
  /\ pc[t] = "discarded"
  /\ SemaphoreRelease(via[t])
  /\ NextTry(t)
  /\ UNCHANGED <<instVars, dial, idle, used, shut, connVars>>

-----------------------------------------------------------------------------
(* connect, called by a thread whose server has no pool yet and by         *)
(* reload_config.                                                          *)
Connect(a) ==
  /\ pc[a] = "connecting"
  /\ \E p \in Pools, c \in Fresh :
       /\ dial[p] = NoServer
       /\ dial' = [dial EXCEPT ![p] = home[a]]
       /\ idle' = [idle EXCEPT ![p] = {c}]
       /\ open' = open \union {c}
       /\ via' = [via EXCEPT ![a] = p]
  /\ Goto(a, "storing")
  /\ UNCHANGED <<instVars, permits, used, shut, silent, work, lost, stuck, callVars,
                 conn, tries>>

ConnectFails(a) ==
  /\ pc[a] = "connecting"
  /\ \/ a \in Threads /\ Leave(a)
     \/ /\ a = Reloader
        /\ Goto(a, "reloaded")
        /\ UNCHANGED <<callVars, conn, via, tries>>
  /\ UNCHANGED <<instVars, poolVars, connVars>>

(* "with self._lock" around the assignment of the new pool: nobody gets it *)
(* while reload_config holds the lock, not even reload_config.             *)
StorePool(a) ==
  /\ pc[a] = "storing"
  /\ ~locked
  /\ pool' = [pool EXCEPT ![home[a]] = via[a]]
  /\ Goto(a, IF a = Reloader THEN "reloaded" ELSE "acquiring")
  /\ via' = [via EXCEPT ![a] = NoPool]
  /\ UNCHANGED <<entry, locked, poolVars, connVars, callVars, conn, tries>>

-----------------------------------------------------------------------------
(* transaction and query. *)

(* conn.autocommit = False (370): psycopg2 refuses it inside the           *)
(* transaction that the health check began, and on a closed connection.    *)
(* The assignment stands before the try whose finally releases, and before *)
(* the body, so no transaction ever gets to its queries.                   *)
SetAutocommitRaises(t) ==
  /\ pc[t] = "setting"
  /\ lost' = lost \union {conn[t]}
  /\ Leave(t)
  /\ UNCHANGED <<instVars, poolVars, open, silent, work, stuck>>

(* Fault: the connection goes back to the pool after each page. *)
ExecuteReleasing(t) ==
  /\ pc[t] = "executing"
  /\ PutConn(via[t], conn[t], FALSE)
  /\ pc' \in {pc, [pc EXCEPT ![t] = "releasing"]}
  /\ UNCHANGED <<instVars, callVars, conn, via, tries>>

(* The statements of a query run, find the connection broken, or raise     *)
(* before they do anything; the finally clause releases the connection.    *)
Execute(t) ==
  /\ pc[t] = "executing"
  /\ \/ /\ conn[t] \in open
        /\ work' = [work EXCEPT ![conn[t]] = t]
        /\ UNCHANGED silent
     \/ silent' = silent \ {conn[t]} /\ UNCHANGED work
     \/ UNCHANGED <<work, silent>>
  /\ Goto(t, "releasing")
  /\ UNCHANGED <<instVars, poolVars, open, lost, stuck, callVars, conn, via, tries>>

-----------------------------------------------------------------------------
(* release_conn *)

(* The server was removed: the connection is only closed. *)
ReleaseRemoved(t) ==
  /\ pc[t] = "releasing"
  /\ entry[home[t]] # "present"
  /\ open' = open \ {conn[t]}
  /\ silent' = silent \ {conn[t]}
  /\ work' = [work EXCEPT ![conn[t]] = NoThread]
  /\ Leave(t)
  /\ UNCHANGED <<instVars, poolVars, lost, stuck>>

(* Fault: the semaphore is released before the connection is put back. *)
ReleaseConnEarly(t) ==
  /\ pc[t] = "releasing"
  /\ entry[home[t]] = "present"
  /\ via' = [via EXCEPT ![t] = pool[home[t]]]
  /\ SemaphoreRelease(pool[home[t]])
  /\ Goto(t, "putting")
  /\ UNCHANGED <<instVars, dial, idle, used, shut, connVars, callVars, conn,
                 tries>>

(* The instance's pool of this moment is read, and whether its             *)
(* configuration wants a health check.                                     *)
ReleaseConn(t) ==
  /\ pc[t] = "releasing"
  /\ entry[home[t]] = "present"
  /\ via' = [via EXCEPT ![t] = pool[home[t]]]
  /\ \E l \in {"rechecking", "putting"} : Goto(t, l)
  /\ UNCHANGED <<instVars, poolVars, connVars, callVars, conn, tries>>

(* The health check: SELECT 1 fails on a broken connection, and also where *)
(* a statement of the query failed, whose transaction is still open.       *)
Recheck(t) ==
  /\ pc[t] = "rechecking"
  /\ \/ conn[t] \in open /\ Goto(t, "putting") /\ UNCHANGED silent
     \/ Goto(t, "dropping") /\ silent' = silent \ {conn[t]}
  /\ UNCHANGED <<instVars, poolVars, open, work, lost, stuck, callVars, conn, via,
                 tries>>

(* putconn: the connection first, *)
Put(t) ==
  /\ pc[t] \in {"putting", "dropping"}
  /\ PutConn(via[t], conn[t], pc[t] = "dropping")
  /\ Goto(t, "signalling")
  /\ UNCHANGED <<instVars, callVars, conn, via, tries>>

(* then the semaphore, whether or not the pool took the connection.        *)
Signal(t) ==
  /\ pc[t] = "signalling"
  /\ SemaphoreRelease(via[t])
  /\ Leave(t)
  /\ UNCHANGED <<instVars, dial, idle, used, shut, connVars>>

-----------------------------------------------------------------------------
(* reload_config with a configuration that differs in one server key; a    *)
(* removed key is not added again.                                         *)

ReloadBegin(s, kind) ==
  /\ pc[Reloader] = "idle"
  /\ ~locked
  /\ kind \in ReloadKinds
  /\ locked' = TRUE
  /\ home' = [home EXCEPT ![Reloader] = s]
  /\ \/ /\ kind = "remove" /\ entry[s] = "present"
        /\ entry' = [entry EXCEPT ![s] = "removed"]
        /\ Goto(Reloader, "closing")
     \/ /\ kind = "change" /\ entry[s] = "present"
        /\ Goto(Reloader, "connecting")
        /\ UNCHANGED entry
     \/ /\ kind = "add" /\ entry[s] = "absent"
        /\ entry' = [entry EXCEPT ![s] = "present"]
        /\ Goto(Reloader, "connecting")
  /\ UNCHANGED <<pool, poolVars, connVars, op, conn, via, tries>>

(* closeall closes the idle and the used connections. *)
ReloadClose ==
  LET p == pool[home[Reloader]]
      closed == IF p = NoPool THEN {} ELSE idle[p] \union used[p]
  IN
  /\ pc[Reloader] = "closing"
  /\ shut' = shut \union ({p} \intersect Pools)
  /\ open' = open \ closed
  /\ silent' = silent \ closed
  /\ work' = [c \in Conns |-> IF c \in closed THEN NoThread ELSE work[c]]
  /\ Goto(Reloader, "reloaded")
  /\ UNCHANGED <<instVars, dial, permits, idle, used, lost, stuck, callVars, conn,
                 via, tries>>

ReloadEnd ==
  /\ pc[Reloader] = "reloaded"
  /\ locked' = FALSE
  /\ home' = [home EXCEPT ![Reloader] = NoServer]
  /\ Goto(Reloader, "idle")
  /\ UNCHANGED <<entry, pool, poolVars, connVars, op, conn, via, tries>>

-----------------------------------------------------------------------------
(* The database drops a connection; the client does not hear of it. *)
BreakConn(c) ==
  /\ c \in open
  /\ open' = open \ {c}
  /\ silent' = silent \union {c}
  /\ work' = [work EXCEPT ![c] = NoThread]
  /\ UNCHANGED <<instVars, poolVars, lost, stuck, callVars, pc, conn, via, tries>>

(* What a thread does once it is in a call. *)
Step(t) ==
  \/ AcquirePermit(t) \/ AcquireTimeout(t) \/ GetConn(t) \/ GetConnFails(t)
  \/ CheckHealth(t) \/ Discard(t) \/ Discarded(t)
  \/ Connect(t) \/ ConnectFails(t) \/ StorePool(t)
  \/ SetAutocommitRaises(t) \/ Execute(t)
  \/ ReleaseRemoved(t) \/ ReleaseConn(t) \/ Recheck(t) \/ Put(t) \/ Signal(t)

ReloadStep ==
  \/ Connect(Reloader) \/ ConnectFails(Reloader) \/ StorePool(Reloader)
  \/ ReloadClose \/ ReloadEnd

Next ==
  \/ \E t \in Threads, s \in Servers, o \in {"query", "transaction"} : Begin(t, s, o)
  \/ \E t \in Threads : Step(t)
  \/ \E s \in Servers, kind \in ReloadKinds : ReloadBegin(s, kind)
  \/ ReloadStep
  \/ \E c \in Conns : BreakConn(c)

Spec == Init /\ [][Next]_vars

(* Every thread, the reloading one too, keeps running. *)
FairSpec ==
  Spec /\ WF_vars(ReloadStep) /\ \A t \in Threads : WF_vars(Step(t))

-----------------------------------------------------------------------------
(* Properties. *)

TypeOK ==
  /\ entry \in [Servers -> {"absent", "present", "removed"}]
  /\ pool \in [Servers -> Pools \union {NoPool}]
  /\ locked \in BOOLEAN
  /\ dial \in [Pools -> Servers \union {NoServer}]
  /\ permits \in [Pools -> 0..MaxConn]
  /\ idle \in [Pools -> SUBSET Conns]
  /\ used \in [Pools -> SUBSET Conns]
  /\ shut \in SUBSET Pools
  /\ open \in SUBSET Conns
  /\ work \in [Conns -> Threads \union {NoThread}]
  /\ silent \in SUBSET Conns
  /\ lost \in SUBSET Conns
  /\ stuck \in SUBSET Conns
  /\ pc \in [Actors -> ThreadPC \union ReloadPC]
  /\ op \in [Threads -> {"query", "transaction"}]
  /\ home \in [Actors -> Servers \union {NoServer}]
  /\ conn \in [Threads -> Conns \union {NoConn}]
  /\ via \in [Actors -> Pools \union {NoPool}]
  /\ tries \in [Threads -> 0..MaxRetries]

(* Through lazy connects that race, pools that are replaced or closed and  *)
(* connections returned to the wrong pool, no connection is in the hands   *)
(* of two threads, or of a thread and idle in a pool.                      *)
InHand(t) == IF pc[t] \in {"signalling", "discarded"} THEN {} ELSE {conn[t]} \ {NoConn}

ConnectionExclusive ==
  \A t \in Threads :
    /\ \A u \in Threads \ {t} : InHand(t) \intersect InHand(u) = {}
    /\ \A p \in Pools : InHand(t) \intersect idle[p] = {}

Pool == INSTANCE ExclusivePool WITH
  Users <- Threads, Items <- Conns, Renewed <- TRUE, Nothing <- NoConn,
  free  <- UNION {idle[p] : p \in Pools},
  holds <- [t \in Threads |->
              IF pc[t] \in {"signalling", "discarded"} THEN NoConn ELSE conn[t]]

(* Whatever lazy connects that race, replaced and closed pools and broken  *)
(* connections do, all pools together (client.py:22-83) are one pool of    *)
(* connections: a thread that gets one is alone with it until it puts it   *)
(* back or drops it, into whichever pool, and idle ones only wait.         *)
ConnectionsPooled == Pool!Spec

(* A connection enters the pool without uncommitted work on it, and a      *)
(* query starts on one without anybody's, also its own thread's.           *)
NoForeignWork ==
  /\ \A p \in Pools : \A c \in idle[p] : work[c] = NoThread
  /\ \A t \in Threads : pc[t] = "executing" => work[conn[t]] = NoThread

(* A pool that is open and the only one its server has had. *)
SolePool(p) ==
  dial[p] # NoServer /\ p \notin shut /\ \A q \in Pools \ {p} : dial[q] # dial[p]

(* The two halves of putconn and of getconn keep the semaphore in step     *)
(* with the pool: free permits, given out connections and threads between  *)
(* the two halves add up to max_conn.  A connection whose rollback raised  *)
(* in putconn is not among them: the pool still counts it as given out,    *)
(* but its permit is back.                                                 *)
PermitsMatch ==
  \A p \in Pools : SolePool(p) =>
    permits[p] + Cardinality(used[p] \ stuck)
      + Cardinality({t \in Threads : /\ pc[t] \in {"getting", "signalling", "discarded"}
                                     /\ via[t] = p}) = MaxConn

(* The purpose of the semaphore: a thread that got a permit never meets an *)
(* exhausted pool, unless the rollback of a putconn has raised.            *)
NeverExhausted ==
  \A t \in Threads :
    pc[t] = "getting" /\ SolePool(via[t]) =>
      \/ idle[via[t]] # {}
      \/ Cardinality(used[via[t]]) < MaxConn
      \/ used[via[t]] \intersect stuck # {}

(* A connection the pool of a configured server counts as given out is in  *)
(* some thread's hands; there are two ways to lose one: the assignment of  *)
(* line 370, and a rollback that raises inside putconn (349).              *)
NoConnectionLost ==
  \A p \in Pools : SolePool(p) /\ entry[dial[p]] = "present" =>
    \A c \in used[p] : c \in lost \union stuck \/ \E t \in Threads : conn[t] = c

(* client.py:199-201: reload_config reloads "safely" and "will update      *)
(* existing server entries and add new ones": it gets there.               *)
ReloadReturns == (pc[Reloader] # "idle") ~> (pc[Reloader] = "idle")

(* docs/POSTGRES.md:16: "If you need a transactional context for multiple  *)
(* reads or maintenance", with pgsqlc.transaction("main"): a connection    *)
(* that works gets into its transaction, and none is dropped on the way.   *)
TransactionsStart == lost \intersect open = {}
=============================================================================
