----------------------- MODULE SessionManagers_proofs -----------------------
(***************************************************************************)
(* For every number of callers, server keys and managers: the dictionary   *)
(* does not get a disposed manager back (RetiredGone), and session_scope   *)
(* takes only steps that a unit of work may take.  Both come from one      *)
(* inductive invariant, whose parts say who may hold a manager (Held) and  *)
(* how far a transaction is (Progress).                                    *)
(***************************************************************************)
EXTENDS SessionManagers, TLAPS

Steps == {"idle", "cached", "config", "create", "store", "scope", "delete",
          "body", "commit", "rollback", "close", "leave"}

Typed ==
  /\ made \in Nat /\ retired \subseteq Nat
  /\ managers \in [Keys -> Nat] /\ key \in [Callers -> Keys]
  /\ manager \in [Callers -> Nat]
  /\ step \in [Callers -> Steps]
  /\ fate \in [Callers -> {"none", "open", "kept", "dropped"}]
  /\ heard \in [Callers -> {"nothing", "ok", "raised"}]

\* Numbers are given out in order.
Counted ==
  /\ \A k \in Keys : managers[k] <= made
  /\ \A c \in Callers : manager[c] <= made
  /\ \A m \in retired : m # 0 /\ m <= made

\* A manager that is still to be stored is nobody else's.
Fresh(c) ==
  step[c] = "store" =>
    /\ manager[c] # 0 /\ manager[c] \notin retired
    /\ \A k \in Keys : managers[k] # manager[c]
    /\ \A d \in Callers \ {c} :
         step[d] \in {"store", "delete"} => manager[d] # manager[c]

\* One that is being disposed is, if anywhere, where it will be deleted.
Victim(c) ==
  step[c] = "delete" =>
    manager[c] # 0 /\ \A k \in Keys : managers[k] = manager[c] => k = key[c]

Held ==
  /\ \A k, l \in Keys : managers[k] = managers[l] /\ managers[k] # 0 => k = l
  /\ \A k \in Keys : managers[k] \notin retired
  /\ \A c \in Callers : Fresh(c) /\ Victim(c)

Ended(c) == heard[c] = "raised" \/ (heard[c] = "ok" /\ fate[c] = "kept")

Progress(c) ==
  /\ step[c] \in {"body", "commit"} => fate[c] = "open"
  /\ step[c] = "rollback" => fate[c] # "none" /\ heard[c] = "raised"
  /\ step[c] = "close" => fate[c] # "none" /\ Ended(c)
  /\ step[c] = "leave" => fate[c] \in {"kept", "dropped"} /\ Ended(c)

IInv == Typed /\ Counted /\ Held /\ \A c \in Callers : Progress(c)

-----------------------------------------------------------------------------
LEMMA InitOK == SessionsInit => IInv
  BY DEF SessionsInit, IInv, Typed, Steps, Counted, Held, Fresh, Victim, Progress

(* Steps that leave the managers and every hold on them alone. *)
LEMMA HoldsKept ==
  ASSUME Typed, Counted, Held, NEW c \in Callers,
         NEW from \in Steps, NEW to \in Steps, Moves(c, from, to),
         to \notin {"store", "delete"}, UNCHANGED <<managing, key, manager>>
  PROVE  Counted' /\ Held'
  BY DEF Typed, Counted, Held, Fresh, Victim, Moves, managing

(* Steps of a caller outside a session, as far as transactions go. *)
LEMMA ProgressKept ==
  ASSUME Typed, \A d \in Callers : Progress(d), NEW c \in Callers,
         NEW from \in Steps, NEW to \in Steps, Moves(c, from, to),
         to \notin {"body", "commit", "rollback", "close", "leave"},
         UNCHANGED working
  PROVE  \A d \in Callers : Progress(d)'
  BY DEF Typed, Progress, Ended, Moves, working

-----------------------------------------------------------------------------
(* get_manager and dispose_manager. *)

LEMMA GetManagerOK == ASSUME IInv, NEW c \in Callers, GetManager(c) PROVE IInv'
<1> USE DEF IInv, Steps
<1> PICK k \in Keys :
      /\ key' = [key EXCEPT ![c] = k]
      /\ Moves(c, "idle", IF managers[k] # 0 THEN "cached" ELSE "config")
  BY DEF GetManager
<1>1. PICK to \in {"cached", "config"} : Moves(c, "idle", to)
  OBVIOUS
<1>2. manager' = [manager EXCEPT ![c] = 0] /\ UNCHANGED <<managing, working>>
  BY DEF GetManager
<1>3. Typed'
  BY <1>1, <1>2 DEF Typed, Moves, managing, working
<1>4. Counted'
  BY <1>1, <1>2 DEF Typed, Counted, Moves, managing
<1>5. Held'
  BY <1>1, <1>2 DEF Typed, Held, Fresh, Victim, Moves, managing
<1>6. \A d \in Callers : Progress(d)'
  BY <1>1, <1>2, ProgressKept
<1> QED
  BY <1>3, <1>4, <1>5, <1>6

LEMMA ReadCachedOK == ASSUME IInv, NEW c \in Callers, ReadCached(c) PROVE IInv'
<1> USE DEF IInv, Steps
<1>1. PICK to \in {"scope", "idle"} : Moves(c, "cached", to)
  BY DEF ReadCached
<1>2. /\ manager' = [manager EXCEPT ![c] = managers[key[c]]]
      /\ UNCHANGED <<managing, key, working>>
  BY DEF ReadCached
<1>3. Typed'
  BY <1>1, <1>2 DEF Typed, Moves, managing, working
<1>4. Counted'
  BY <1>1, <1>2 DEF Typed, Counted, Moves, managing
<1>5. Held'
  BY <1>1, <1>2 DEF Typed, Held, Fresh, Victim, Moves, managing
<1>6. \A d \in Callers : Progress(d)'
  BY <1>1, <1>2, ProgressKept
<1> QED
  BY <1>3, <1>4, <1>5, <1>6

LEMMA CreateManagerOK ==
  ASSUME IInv, NEW c \in Callers, CreateManager(c) PROVE IInv'
<1> USE DEF IInv, Steps
<1>1. /\ Moves(c, "create", "store") /\ made' = made + 1
      /\ manager' = [manager EXCEPT ![c] = made + 1]
      /\ UNCHANGED <<managers, retired, key, working>>
  BY DEF CreateManager
<1>2. Typed'
  BY <1>1 DEF Typed, Moves, working
<1>3. Counted'
  BY <1>1 DEF Typed, Counted
<1>4. /\ \A k \in Keys : managers[k] # made + 1
      /\ \A d \in Callers : manager[d] # made + 1
      /\ made + 1 \notin retired /\ made + 1 # 0
  BY DEF Typed, Counted
<1>5. Held'
  BY <1>1, <1>4 DEF Typed, Held, Fresh, Victim, Moves
<1>6. \A d \in Callers : Progress(d)'
  BY <1>1, ProgressKept
<1> QED
  BY <1>2, <1>3, <1>5, <1>6

LEMMA StoreManagerOK ==
  ASSUME IInv, NEW c \in Callers, StoreManager(c) PROVE IInv'
<1> USE DEF IInv, Steps
<1>1. /\ Moves(c, "store", "scope")
      /\ managers' = [managers EXCEPT ![key[c]] = manager[c]]
      /\ UNCHANGED <<made, retired, key, manager, working>>
  BY DEF StoreManager
<1>2. Typed'
  BY <1>1 DEF Typed, Moves, working
<1>3. Counted'
  BY <1>1 DEF Typed, Counted
<1>4. Held'
  BY <1>1 DEF Typed, Held, Fresh, Victim, Moves
<1>5. \A d \in Callers : Progress(d)'
  BY <1>1, ProgressKept
<1> QED
  BY <1>2, <1>3, <1>4, <1>5

LEMMA DisposeOK == ASSUME IInv, NEW c \in Callers, Dispose(c) PROVE IInv'
<1> USE DEF IInv, Steps
<1> PICK k \in Keys :
      /\ managers[k] # 0 /\ key' = [key EXCEPT ![c] = k]
      /\ manager' = [manager EXCEPT ![c] = managers[k]]
  BY DEF Dispose
<1>1. Moves(c, "idle", "delete") /\ UNCHANGED <<managing, working>>
  BY DEF Dispose
<1>2. Typed'
  BY <1>1 DEF Typed, Moves, managing, working
<1>3. Counted'
  BY <1>1 DEF Typed, Counted, managing
<1>4. Held'
  BY <1>1 DEF Typed, Held, Fresh, Victim, Moves, managing
<1>5. \A d \in Callers : Progress(d)'
  BY <1>1, ProgressKept
<1> QED
  BY <1>2, <1>3, <1>4, <1>5

LEMMA DeleteManagerOK ==
  ASSUME IInv, NEW c \in Callers, DeleteManager(c) PROVE IInv'
<1> USE DEF IInv, Steps
<1>1. /\ Moves(c, "delete", "idle")
      /\ managers' = [managers EXCEPT ![key[c]] = 0]
      /\ retired' = retired \cup {manager[c]}
      /\ manager' = [manager EXCEPT ![c] = 0]
      /\ UNCHANGED <<made, key, working>>
  BY DEF DeleteManager
<1>2. Typed'
  BY <1>1 DEF Typed, Moves, working
<1>3. manager[c] # 0 /\ manager[c] <= made
  BY <1>1 DEF Counted, Held, Victim, Moves
<1>4. Counted'
  BY <1>1, <1>3 DEF Typed, Counted
<1>5. Held'
  BY <1>1, <1>3 DEF Typed, Counted, Held, Fresh, Victim, Moves
<1>6. \A d \in Callers : Progress(d)'
  BY <1>1, ProgressKept
<1> QED
  BY <1>2, <1>4, <1>5, <1>6

-----------------------------------------------------------------------------
(* The steps that leave the managers alone. *)

LEMMA OutsideOK ==
  ASSUME IInv, NEW c \in Callers,
         ReadConfig(c) \/ CreateRaises(c) \/ KeepManager(c)
  PROVE  IInv'
<1> USE DEF IInv, Steps
<1>1. UNCHANGED <<managing, key, manager, working>>
  BY DEF ReadConfig, CreateRaises, KeepManager
<1>2. PICK from \in Steps, to \in {"create", "idle"} : Moves(c, from, to)
  BY DEF ReadConfig, CreateRaises, KeepManager
<1>3. Typed'
  BY <1>1, <1>2 DEF Typed, Moves, managing, working
<1>4. Counted' /\ Held'
  BY <1>1, <1>2, HoldsKept
<1>5. \A d \in Callers : Progress(d)'
  BY <1>1, <1>2, ProgressKept
<1> QED
  BY <1>3, <1>4, <1>5

LEMMA SessionOK ==
  ASSUME IInv, NEW c \in Callers, OpenSession(c) \/ EndsSession(c)
  PROVE  IInv'
<1> USE DEF IInv, Steps
<1>1. UNCHANGED <<managing, key, manager>>
  BY DEF OpenSession, EndsSession, BodyEnds, BodyRaises, Commit, CommitRaises,
         Rollback, Close, Leave
<1>2. PICK from \in Steps, to \in Steps \ {"store", "delete"} :
        Moves(c, from, to)
  BY DEF OpenSession, EndsSession, BodyEnds, BodyRaises, Commit, CommitRaises,
         Rollback, Close, Leave
<1>3. Counted' /\ Held'
  BY <1>1, <1>2, HoldsKept
<1>4. /\ fate' \in [Callers -> {"none", "open", "kept", "dropped"}]
      /\ heard' \in [Callers -> {"nothing", "ok", "raised"}]
  BY DEF Typed, OpenSession, EndsSession, BodyEnds, BodyRaises, Commit,
         CommitRaises, Rollback, Close, Leave, Dropped, working
<1>5. Typed'
  BY <1>1, <1>2, <1>4 DEF Typed, Moves, managing
<1>6. \A d \in Callers : Progress(d)'
  <2>1. CASE OpenSession(c)
    BY <2>1 DEF Typed, OpenSession, Progress, Ended, Moves
  <2>2. CASE BodyEnds(c)
    BY <2>2 DEF Typed, BodyEnds, Progress, Ended, Moves, working
  <2>3. CASE BodyRaises(c)
    BY <2>3 DEF Typed, BodyRaises, Progress, Ended, Moves
  <2>4. CASE Commit(c)
    BY <2>4 DEF Typed, Commit, Progress, Ended, Moves
  <2>5. CASE CommitRaises(c)
    BY <2>5 DEF Typed, CommitRaises, Progress, Ended, Moves
  <2>6. CASE Rollback(c)
    BY <2>6 DEF Typed, Rollback, Dropped, Progress, Ended, Moves
  <2>7. CASE Close(c)
    BY <2>7 DEF Typed, Close, Dropped, Progress, Ended, Moves
  <2>8. CASE Leave(c)
    BY <2>8, ProgressKept DEF Leave
  <2> QED
    BY <2>1, <2>2, <2>3, <2>4, <2>5, <2>6, <2>7, <2>8 DEF EndsSession
<1> QED
  BY <1>3, <1>5, <1>6

LEMMA StutterOK == ASSUME IInv, UNCHANGED sessions PROVE IInv'
  BY DEF IInv, Typed, Counted, Held, Fresh, Victim, Progress, Ended, sessions,
         managing, working

LEMMA NextOK == ASSUME IInv, SessionsNext PROVE IInv'
  BY GetManagerOK, ReadCachedOK, CreateManagerOK, StoreManagerOK, DisposeOK,
     DeleteManagerOK, OutsideOK, SessionOK DEF SessionsNext

LEMMA Invariant == SessionsSpec => []IInv
<1>1. IInv /\ [SessionsNext]_sessions => IInv'
  BY NextOK, StutterOK
<1> QED
  BY InitOK, <1>1, PTL DEF SessionsSpec

-----------------------------------------------------------------------------
\* A manager whose dispose_manager has returned is neither in _MANAGERS nor
\* on its way there, however calls of get_manager and dispose_manager
\* interleave (session.py 36-72 and 97-116).  Callers that read it before may
\* go on using it.
THEOREM DisposedStayGone == SessionsSpec => []RetiredGone
<1>1. IInv => RetiredGone
  BY DEF IInv, Held, Fresh, RetiredGone
<1> QED
  BY Invariant, <1>1, PTL

-----------------------------------------------------------------------------
(* The refinement.  Status and Heard are what Unit puts for the variables  *)
(* of UnitOfWork.                                                          *)

Status == [c \in Callers |-> IF InSession(c) THEN fate[c] ELSE "none"]
Heard  == [c \in Callers |-> IF InSession(c) THEN "nothing" ELSE heard[c]]

LEMMA UnitInit == SessionsInit => Unit!Init
  BY DEF SessionsInit, Unit!Init, InSession

LEMMA BeginIs ==
  ASSUME NEW c \in Callers, Status[c] = "none",
         Status' = [Status EXCEPT ![c] = "open"],
         Heard' = [Heard EXCEPT ![c] = "nothing"]
  PROVE  Unit!Next
<1>1. Unit!Begin(c)
  BY DEF Unit!Begin, Status, Heard
<1> QED
  BY <1>1 DEF Unit!Next

LEMMA EndIs ==
  ASSUME NEW c \in Callers, Status[c] = "open", NEW f \in {"kept", "dropped"},
         Status' = [Status EXCEPT ![c] = f], Heard' = Heard
  PROVE  Unit!Next
<1>1. Unit!End(c)
  BY DEF Unit!End, Status, Heard
<1> QED
  BY <1>1 DEF Unit!Next

LEMMA HearIs ==
  ASSUME NEW c \in Callers, NEW h \in {"ok", "raised"},
         Status[c] \in {"kept", "dropped"}, h = "ok" => Status[c] = "kept",
         Status' = [Status EXCEPT ![c] = "none"],
         Heard' = [Heard EXCEPT ![c] = h]
  PROVE  Unit!Next
<1>1. Unit!Hear(c)
  BY DEF Unit!Hear, Status, Heard
<1> QED
  BY <1>1 DEF Unit!Next

LEMMA StutterIs ==
  ASSUME Status' = Status, Heard' = Heard PROVE UNCHANGED Unit!unit
  BY DEF Unit!unit, Status, Heard

\* A caller that does not enter or leave a session, and whose transaction
\* stays as it is, does not move its unit.
LEMMA UnitKept ==
  ASSUME Typed, NEW c \in Callers, NEW from \in Steps, NEW to \in Steps,
         Moves(c, from, to), UNCHANGED working,
         from \in {"body", "commit", "rollback", "close", "leave"}
           <=> to \in {"body", "commit", "rollback", "close", "leave"}
  PROVE  UNCHANGED Unit!unit
<1>1. Status' = Status /\ Heard' = Heard
  BY DEF Typed, Moves, working, Status, Heard, InSession
<1> QED
  BY <1>1, StutterIs

LEMMA SessionSimulates ==
  ASSUME IInv, NEW c \in Callers, OpenSession(c) \/ EndsSession(c)
  PROVE  Unit!Next \/ UNCHANGED Unit!unit
<1> USE DEF IInv, Steps
<1>1. CASE OpenSession(c)
  <2>1. PICK from \in {"scope", "idle"} : Moves(c, from, "body")
    BY <1>1 DEF OpenSession
  <2>2. /\ fate' = [fate EXCEPT ![c] = "open"]
        /\ heard' = [heard EXCEPT ![c] = "nothing"]
    BY <1>1 DEF OpenSession
  <2>3. Status[c] = "none"
    BY <2>1 DEF Moves, Status, InSession
  <2>4. /\ Status' = [Status EXCEPT ![c] = "open"]
        /\ Heard' = [Heard EXCEPT ![c] = "nothing"]
    BY <2>1, <2>2 DEF Typed, Moves, Status, Heard, InSession
  <2> QED
    BY <2>3, <2>4, BeginIs
<1>2. CASE BodyEnds(c)
  BY <1>2, UnitKept DEF BodyEnds
<1>3. CASE BodyRaises(c)
  <2>1. PICK to \in {"rollback", "close"} : Moves(c, "body", to)
    BY <1>3 DEF BodyRaises
  <2>2. fate' = fate /\ heard' = [heard EXCEPT ![c] = "raised"]
    BY <1>3 DEF BodyRaises
  <2>3. Status' = Status /\ Heard' = Heard
    BY <2>1, <2>2 DEF Typed, Moves, Status, Heard, InSession
  <2> QED
    BY <2>3, StutterIs
<1>4. CASE Commit(c)
  <2>1. /\ Moves(c, "commit", "close") /\ fate' = [fate EXCEPT ![c] = "kept"]
        /\ heard' = [heard EXCEPT ![c] = "ok"]
    BY <1>4 DEF Commit
  <2>2. Status[c] = "open"
    BY <2>1 DEF Moves, Status, InSession, Progress
  <2>3. Status' = [Status EXCEPT ![c] = "kept"] /\ Heard' = Heard
    BY <2>1 DEF Typed, Moves, Status, Heard, InSession
  <2> QED
    BY <2>2, <2>3, EndIs
<1>5. CASE CommitRaises(c)
  <2>1. PICK f \in {"open", "kept", "dropped"} : fate' = [fate EXCEPT ![c] = f]
    BY <1>5 DEF CommitRaises
  <2>2. /\ Moves(c, "commit", "rollback")
        /\ heard' = [heard EXCEPT ![c] = "raised"]
    BY <1>5 DEF CommitRaises
  <2>3. Status[c] = "open"
    BY <2>2 DEF Moves, Status, InSession, Progress
  <2>4. Status' = [Status EXCEPT ![c] = f] /\ Heard' = Heard
    BY <2>1, <2>2 DEF Typed, Moves, Status, Heard, InSession
  <2>5. CASE f = "open"
    <3>1. Status' = Status
      BY <2>3, <2>4, <2>5 DEF Status
    <3> QED
      BY <2>4, <3>1, StutterIs
  <2>6. CASE f # "open"
    BY <2>1, <2>3, <2>4, <2>6, EndIs
  <2> QED
    BY <2>5, <2>6
<1>6. ASSUME NEW from \in {"rollback", "close"}, NEW to \in {"close", "leave"},
             Moves(c, from, to), fate' = Dropped(c), heard' = heard
      PROVE  Unit!Next \/ UNCHANGED Unit!unit
  <2>1. Heard' = Heard
    BY <1>6 DEF Typed, Moves, Heard, InSession
  <2>2. CASE fate[c] = "open"
    <3>1. Status[c] = "open" /\ Status' = [Status EXCEPT ![c] = "dropped"]
      BY <1>6, <2>2 DEF Typed, Moves, Dropped, Status, InSession
    <3> QED
      BY <2>1, <3>1, EndIs
  <2>3. CASE fate[c] # "open"
    <3>1. Status' = Status
      BY <1>6, <2>3 DEF Typed, Moves, Dropped, Status, InSession
    <3> QED
      BY <2>1, <3>1, StutterIs
  <2> QED
    BY <2>2, <2>3
<1>7. CASE Rollback(c)
  <2>1. CASE fate' = fate
    BY <1>7, <2>1, UnitKept DEF Rollback, working
  <2>2. CASE fate' = Dropped(c)
    BY <1>6, <1>7, <2>2 DEF Rollback
  <2> QED
    BY <1>7, <2>1, <2>2 DEF Rollback
<1>8. CASE Close(c)
  BY <1>6, <1>8 DEF Close
<1>9. CASE Leave(c)
  <2>1. Moves(c, "leave", "idle") /\ fate' = fate /\ heard' = heard
    BY <1>9 DEF Leave, working
  <2>2. /\ Status[c] = fate[c] /\ fate[c] \in {"kept", "dropped"}
        /\ heard[c] \in {"ok", "raised"} /\ (heard[c] = "ok" => fate[c] = "kept")
    BY <2>1 DEF Moves, Status, InSession, Progress, Ended
  <2>3. /\ Status' = [Status EXCEPT ![c] = "none"]
        /\ Heard' = [Heard EXCEPT ![c] = heard[c]]
    BY <2>1 DEF Typed, Moves, Status, Heard, InSession
  <2> QED
    BY <2>2, <2>3, HearIs
<1> QED
  BY <1>1, <1>2, <1>3, <1>4, <1>5, <1>7, <1>8, <1>9 DEF EndsSession

LEMMA Simulates ==
  ASSUME IInv, [SessionsNext]_sessions
  PROVE  [Unit!Next]_(Unit!unit)
<1> USE DEF IInv, Steps
<1>1. CASE UNCHANGED sessions
  <2>1. Status' = Status /\ Heard' = Heard
    BY <1>1 DEF sessions, working, Status, Heard, InSession
  <2> QED
    BY <2>1, StutterIs
<1>2. ASSUME NEW c \in Callers,
             \/ GetManager(c) \/ ReadCached(c) \/ ReadConfig(c)
             \/ CreateManager(c) \/ CreateRaises(c) \/ StoreManager(c)
             \/ KeepManager(c) \/ Dispose(c) \/ DeleteManager(c)
      PROVE  UNCHANGED Unit!unit
  <2>1. UNCHANGED working
    BY <1>2 DEF GetManager, ReadCached, ReadConfig, CreateManager, CreateRaises,
                StoreManager, KeepManager, Dispose, DeleteManager
  <2>2. PICK from, to \in
               Steps \ {"body", "commit", "rollback", "close", "leave"} :
          Moves(c, from, to)
    BY <1>2 DEF GetManager, ReadCached, ReadConfig, CreateManager, CreateRaises,
                StoreManager, KeepManager, Dispose, DeleteManager
  <2> QED
    BY <2>1, <2>2, UnitKept
<1> QED
  BY <1>1, <1>2, SessionSimulates DEF SessionsNext

\* Whatever callers, keys and managers there are, session_scope only does
\* what UnitOfWork allows: a transaction begins, ends once, and is over before
\* the caller hears, who hears no exception only of rows that were kept
\* (postgresql/sqlalchemy/session.py 80-96).
THEOREM ScopeIsUnit == SessionsSpec => Unit!Init /\ [][Unit!Next]_(Unit!unit)
<1>1. IInv /\ [SessionsNext]_sessions => [Unit!Next]_(Unit!unit)
  BY Simulates
<1> QED
  BY Invariant, UnitInit, <1>1, PTL DEF SessionsSpec
=============================================================================
