----------------------------- MODULE Singletons -----------------------------
(***************************************************************************)
(* Singleton and SingletonPerThread (envoxy/utils/singleton.py): a class   *)
(* of the one or the other kind, of which the connectors, the ZeroMQ       *)
(* client and the MQTT connector are of the first.  The attributes of the  *)
(* class are read and written without a lock, except what stands under     *)
(* _instance_lock; that lock is itself an attribute any thread may create. *)
(*                                                                         *)
(* Objects are numbered in the order of their creation; 0 is None.         *)
(***************************************************************************)
EXTENDS Naturals, FiniteSets

CONSTANT Threads

ASSUME ThreadsAssumption == IsFiniteSet(Threads) /\ Threads # {}

VARIABLES
  base,        \* the base of the class
  at,          \* where each thread is in instance()
  lock,        \* cls._instance_lock
  locks,       \* locks created so far
  mine,        \* the lock each thread has read from the class, or 0
  held,        \* the locks that are held
  instance,    \* cls._instance
  built,       \* constructors that returned so far
  building,    \* what the constructor gave each thread, or 0
  local,       \* SingletonPerThread: cls._thread_local
  locals,      \* containers created so far
  seen,        \* the container each thread has read from the class, or 0
  own          \* the containers in which each thread has an instance

shared    == <<lock, locks, mine, held, instance, built, building>>
perThread == <<local, locals, seen, own>>
singletons == <<base, at, shared, perThread>>

\* An earlier call may have failed in its constructor: then the lock is there.
SingletonsInit ==
  /\ base \in {"Singleton", "SingletonPerThread"}
  /\ at = [t \in Threads |-> "idle"]
  /\ lock \in {0, 1} /\ locks = lock /\ held = {}
  /\ mine = [t \in Threads |-> 0]
  /\ instance = 0 /\ built = 0 /\ building = [t \in Threads |-> 0]
  /\ local = 0 /\ locals = 0 /\ seen = [t \in Threads |-> 0]
  /\ own = [t \in Threads |-> {}]

Go(t, from, to) ==
  at[t] = from /\ at' = [at EXCEPT ![t] = to] /\ UNCHANGED base

-----------------------------------------------------------------------------
(* Singleton.instance                                                      *)

FastPath(t) ==
  /\ base = "Singleton"
  /\ Go(t, "idle", IF instance = 0 THEN "lock?" ELSE "idle")
  /\ UNCHANGED <<shared, perThread>>

LookForLock(t) ==
  /\ Go(t, "lock?", IF lock = 0 THEN "create" ELSE "read")
  /\ UNCHANGED <<shared, perThread>>

CreateLock(t) ==
  /\ Go(t, "create", "read")
  /\ locks' = locks + 1 /\ lock' = locks + 1
  /\ UNCHANGED <<mine, held, instance, built, building, perThread>>

\* "with cls._instance_lock" reads the attribute once more and then waits.
ReadLock(t) ==
  /\ Go(t, "read", "acquire")
  /\ mine' = [mine EXCEPT ![t] = lock]
  /\ UNCHANGED <<lock, locks, held, instance, built, building, perThread>>

Acquire(t) ==
  /\ Go(t, "acquire", "again")
  /\ mine[t] \notin held
  /\ held' = held \cup {mine[t]}
  /\ UNCHANGED <<lock, locks, mine, instance, built, building, perThread>>

\* Fault: the second look at _instance under the lock is left out.
LookAgainNever(t) ==
  /\ Go(t, "again", "construct")
  /\ UNCHANGED <<shared, perThread>>

LookAgain(t) ==
  /\ Go(t, "again", IF instance = 0 THEN "construct" ELSE "release")
  /\ UNCHANGED <<shared, perThread>>

Construct(t) ==
  /\ Go(t, "construct", "publish")
  /\ built' = built + 1 /\ building' = [building EXCEPT ![t] = built + 1]
  /\ UNCHANGED <<lock, locks, mine, held, instance, perThread>>

ConstructRaises(t) ==
  /\ Go(t, "construct", "release")
  /\ UNCHANGED <<shared, perThread>>

Publish(t) ==
  /\ Go(t, "publish", "release")
  /\ instance' = building[t] /\ building' = [building EXCEPT ![t] = 0]
  /\ UNCHANGED <<lock, locks, mine, held, built, perThread>>

\* The end of the with statement; the caller gets cls._instance or the
\* constructor's exception.
Release(t) ==
  /\ Go(t, "release", "idle")
  /\ held' = held \ {mine[t]} /\ mine' = [mine EXCEPT ![t] = 0]
  /\ UNCHANGED <<lock, locks, instance, built, building, perThread>>

-----------------------------------------------------------------------------
(* SingletonPerThread.instance                                             *)

LookForLocal(t) ==
  /\ base = "SingletonPerThread"
  /\ Go(t, "idle", IF local = 0 THEN "createLocal" ELSE "readLocal")
  /\ UNCHANGED <<shared, perThread>>

CreateLocal(t) ==
  /\ Go(t, "createLocal", "readLocal")
  /\ locals' = locals + 1 /\ local' = locals + 1
  /\ UNCHANGED <<shared, seen, own>>

ReadLocal(t) ==
  /\ Go(t, "readLocal", "fill")
  /\ seen' = [seen EXCEPT ![t] = local]
  /\ UNCHANGED <<shared, local, locals, own>>

\* Each thread sees only its own part of the container.
FillLocal(t) ==
  /\ Go(t, "fill", "idle")
  /\ own' = [own EXCEPT ![t] = @ \cup {seen[t]}]
  /\ seen' = [seen EXCEPT ![t] = 0]
  /\ UNCHANGED <<shared, local, locals>>

SingletonsNext ==
  \E t \in Threads :
    \/ FastPath(t) \/ LookForLock(t) \/ CreateLock(t) \/ ReadLock(t)
    \/ Acquire(t) \/ LookAgain(t) \/ Construct(t) \/ ConstructRaises(t)
    \/ Publish(t) \/ Release(t)
    \/ LookForLocal(t) \/ CreateLocal(t) \/ ReadLocal(t) \/ FillLocal(t)

SingletonsSpec == SingletonsInit /\ [][SingletonsNext]_singletons

-----------------------------------------------------------------------------
(* Properties.                                                             *)

\* The class says it is a thread-safe singleton, and calls the creation of
\* its lock a benign race in which the first writer wins (singleton.py:26).
\* The last one does: threads that meet before the first call is over may
\* construct several instances, but no more than they created locks, and a
\* class whose lock is there constructs one.  The same holds of a thread's
\* instances and the containers of SingletonPerThread.
OneInstancePerLock ==
  /\ built <= locks
  /\ locks <= Cardinality(Threads)
  /\ \A t \in Threads : own[t] \subseteq 1 .. locals
  /\ locals <= Cardinality(Threads)

InstanceSettled ==
  instance # 0 /\ \A t \in Threads : at[t] \notin {"construct", "publish"}

LocalSettled == local # 0 /\ \A t \in Threads : at[t] # "createLocal"

\* Once an instance is published and no thread is still constructing or
\* publishing another one, none ever does again and every later call of the
\* process returns that instance; so with the container of
\* SingletonPerThread.
Settled ==
  [][/\ InstanceSettled => InstanceSettled' /\ instance' = instance
     /\ LocalSettled => LocalSettled' /\ local' = local]_singletons
=============================================================================
