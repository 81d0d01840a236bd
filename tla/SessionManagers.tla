--------------------------- MODULE SessionManagers ---------------------------
(***************************************************************************)
(* The SQLAlchemy sessions of the ORM layer: the managers that             *)
(* envoxy/db/orm/session.py keeps in _MANAGERS without a lock, and         *)
(* session_scope and transactional of EnvoxySessionManager                 *)
(* (envoxy/postgresql/sqlalchemy/session.py).                              *)
(*                                                                         *)
(* Managers are numbered in the order of their creation; 0 is none.        *)
(* Engine.dispose leaves the connections that are in use alone, so it does *)
(* not touch a running session.                                            *)
(***************************************************************************)
EXTENDS Naturals

CONSTANTS
  Callers,       \* threads
  Keys,          \* server keys
  Configured,    \* those that psql_servers configures
  MaxManagers    \* bound on the managers created

ASSUME SessionsAssumption ==
  Configured \subseteq Keys /\ MaxManagers \in Nat

VARIABLES
  managers,   \* _MANAGERS
  made,       \* managers created so far
  retired,    \* managers that a dispose_manager has disposed and returned
  step,       \* where each caller is
  key,        \* the key it called with
  manager,    \* its _mgr, which a function it decorates keeps, or 0
  fate,       \* the server's view of its transaction
  heard       \* what it heard at last: nothing, ok or raised

managing == <<managers, made, retired>>
working  == <<fate, heard>>
sessions == <<managing, step, key, manager, working>>

SessionsInit ==
  /\ managers = [k \in Keys |-> 0] /\ made = 0 /\ retired = {}
  /\ step = [c \in Callers |-> "idle"]
  /\ key \in [Callers -> Keys]
  /\ manager = [c \in Callers |-> 0]
  /\ fate = [c \in Callers |-> "none"]
  /\ heard = [c \in Callers |-> "nothing"]

Moves(c, from, to) == step[c] = from /\ step' = [step EXCEPT ![c] = to]

-----------------------------------------------------------------------------
(* get_manager                                                             *)

GetManager(c) ==
  /\ \E k \in Keys :
       /\ key' = [key EXCEPT ![c] = k]
       /\ Moves(c, "idle", IF managers[k] # 0 THEN "cached" ELSE "config")
  /\ manager' = [manager EXCEPT ![c] = 0]
  /\ UNCHANGED <<managing, working>>

\* It reads the dictionary once more: a KeyError when dispose_manager has been
\* there in between.
ReadCached(c) ==
  /\ Moves(c, "cached", IF managers[key[c]] # 0 THEN "scope" ELSE "idle")
  /\ manager' = [manager EXCEPT ![c] = managers[key[c]]]
  /\ UNCHANGED <<managing, key, working>>

\* DatabaseException for a key without a configuration; a pre-built URL or
\* the parts of one make no difference here.
ReadConfig(c) ==
  /\ Moves(c, "config", IF key[c] \in Configured THEN "create" ELSE "idle")
  /\ UNCHANGED <<managing, key, manager, working>>

CreateManager(c) ==
  /\ Moves(c, "create", "store")
  /\ made < MaxManagers
  /\ made' = made + 1 /\ manager' = [manager EXCEPT ![c] = made + 1]
  /\ UNCHANGED <<managers, retired, key, working>>

\* int() of a setting or create_engine raises.
CreateRaises(c) ==
  /\ Moves(c, "create", "idle")
  /\ UNCHANGED <<managing, key, manager, working>>

StoreManager(c) ==
  /\ Moves(c, "store", "scope")
  /\ managers' = [managers EXCEPT ![key[c]] = manager[c]]
  /\ UNCHANGED <<made, retired, key, manager, working>>

\* sa_manager, and decorating a function with transactional, end here.
KeepManager(c) ==
  /\ Moves(c, "scope", "idle")
  /\ UNCHANGED <<managing, key, manager, working>>

-----------------------------------------------------------------------------
(* dispose_manager, and dispose_all for the one key it is at               *)

Dispose(c) ==
  /\ \E k \in Keys :
       /\ managers[k] # 0
       /\ key' = [key EXCEPT ![c] = k]
       /\ manager' = [manager EXCEPT ![c] = managers[k]]
  /\ Moves(c, "idle", "delete")
  /\ UNCHANGED <<managing, working>>

\* Fault: the engine is disposed and the manager stays for later calls.
DeleteNothing(c) ==
  /\ Moves(c, "delete", "idle")
  /\ retired' = retired \cup {manager[c]}
  /\ manager' = [manager EXCEPT ![c] = 0]
  /\ UNCHANGED <<managers, made, key, working>>

\* It deletes what the dictionary holds by now, if anything.
DeleteManager(c) ==
  /\ Moves(c, "delete", "idle")
  /\ managers' = [managers EXCEPT ![key[c]] = 0]
  /\ retired' = retired \cup {manager[c]}
  /\ manager' = [manager EXCEPT ![c] = 0]
  /\ UNCHANGED <<made, key, working>>

-----------------------------------------------------------------------------
(* EnvoxySessionManager.session_scope and transactional                    *)

\* session_scope right after get_manager, or one more call of a function
\* that was decorated with the manager.
OpenSession(c) ==
  /\ manager[c] # 0
  /\ \E from \in {"scope", "idle"} : Moves(c, from, "body")
  /\ fate' = [fate EXCEPT ![c] = "open"]
  /\ heard' = [heard EXCEPT ![c] = "nothing"]
  /\ UNCHANGED <<managing, key, manager>>

\* The block, with the transactional functions it passes its session to.
BodyEnds(c) ==
  /\ Moves(c, "body", "commit")
  /\ UNCHANGED <<managing, key, manager, working>>

\* An Exception goes through rollback; a BaseException that is none, such as
\* GeneratorExit, to the finally clause at once.
BodyRaises(c) ==
  /\ \E next \in {"rollback", "close"} : Moves(c, "body", next)
  /\ heard' = [heard EXCEPT ![c] = "raised"]
  /\ UNCHANGED <<managing, key, manager, fate>>

Commit(c) ==
  /\ Moves(c, "commit", "close")
  /\ fate' = [fate EXCEPT ![c] = "kept"]
  /\ heard' = [heard EXCEPT ![c] = "ok"]
  /\ UNCHANGED <<managing, key, manager>>

\* The server refused, was not reached, or its answer was lost.
CommitRaises(c) ==
  /\ Moves(c, "commit", "rollback")
  /\ \E f \in {"open", "kept", "dropped"} : fate' = [fate EXCEPT ![c] = f]
  /\ heard' = [heard EXCEPT ![c] = "raised"]
  /\ UNCHANGED <<managing, key, manager>>

Dropped(c) == [fate EXCEPT ![c] = IF @ = "open" THEN "dropped" ELSE @]

\* Fault: the exception is logged and not raised again.
RollbackSilent(c) ==
  /\ Moves(c, "rollback", "close")
  /\ fate' \in {fate, Dropped(c)}
  /\ heard' = [heard EXCEPT ![c] = "ok"]
  /\ UNCHANGED <<managing, key, manager>>

\* It may raise as well, which leaves the transaction to close.
Rollback(c) ==
  /\ Moves(c, "rollback", "close")
  /\ fate' \in {fate, Dropped(c)}
  /\ UNCHANGED <<managing, key, manager, heard>>

\* session.close gives the connection back, which ends what is still open.
Close(c) ==
  /\ Moves(c, "close", "leave")
  /\ fate' = Dropped(c)
  /\ UNCHANGED <<managing, key, manager, heard>>

Leave(c) ==
  /\ Moves(c, "leave", "idle")
  /\ UNCHANGED <<managing, key, manager, working>>

EndsSession(c) ==
  \/ BodyEnds(c) \/ BodyRaises(c) \/ Commit(c) \/ CommitRaises(c)
  \/ Rollback(c) \/ Close(c) \/ Leave(c)

SessionsNext ==
  \E c \in Callers :
    \/ GetManager(c) \/ ReadCached(c) \/ ReadConfig(c) \/ CreateManager(c)
    \/ CreateRaises(c) \/ StoreManager(c) \/ KeepManager(c)
    \/ Dispose(c) \/ DeleteManager(c)
    \/ OpenSession(c) \/ EndsSession(c)

\* Blocks end and the server or its socket answers; nothing makes a caller
\* ask for a manager.
SessionsFairness == \A c \in Callers : WF_sessions(EndsSession(c))

SessionsSpec == SessionsInit /\ [][SessionsNext]_sessions /\ SessionsFairness

-----------------------------------------------------------------------------
(* Properties.                                                             *)

InSession(c) ==
  step[c] \in {"body", "commit", "rollback", "close", "leave"}

Unit == INSTANCE UnitOfWork WITH
  status <- [c \in Callers |-> IF InSession(c) THEN fate[c] ELSE "none"],
  heard  <- [c \in Callers |-> IF InSession(c) THEN "nothing" ELSE heard[c]]

\* session_scope is a unit of work: however block, commit and rollback end,
\* what the server did is over before the caller hears of it, a caller who
\* hears no exception has had its rows kept, and every block is heard of.
UnitsOfWork == Unit!Spec

\* A manager whose dispose_manager has returned is not in _MANAGERS and does
\* not come back, whatever other calls store and delete meanwhile.  This is
\* about the dictionary only.  A caller that read the manager before it was
\* disposed, as every function decorated before did, still opens sessions of
\* its engine, and a call of get_manager that read the configuration before it
\* was changed may still store a new manager made from the old one.
RetiredGone ==
  \A k \in Keys :
    /\ managers[k] \notin retired
    /\ \A c \in Callers :
         step[c] = "store" /\ key[c] = k => manager[c] \notin retired
=============================================================================
