-------------------------- MODULE Singletons_proofs --------------------------
(***************************************************************************)
(* For every finite set of threads: Singleton constructs no more instances *)
(* than it has created locks (OneInstancePerLock), and what is settled     *)
(* stays (Settled).  The first needs an invariant that counts threads:     *)
(* those about to construct hold different locks, and as long as nothing   *)
(* is published every instance that was built is still in a thread's hand. *)
(***************************************************************************)
EXTENDS Singletons, FiniteSetTheorems, TLAPS

Inside == {"again", "construct", "publish", "release"}

Places == {"idle", "lock?", "create", "read", "acquire", "createLocal",
           "readLocal", "fill"} \cup Inside

In(place) == {t \in Threads : at[t] = place}

Typed ==
  /\ at \in [Threads -> Places]
  /\ lock \in Nat /\ locks \in Nat /\ mine \in [Threads -> Nat]
  /\ instance \in Nat /\ built \in Nat /\ building \in [Threads -> Nat]
  /\ local \in Nat /\ locals \in Nat /\ seen \in [Threads -> Nat]
  /\ own \in [Threads -> SUBSET Nat]

Locking ==
  /\ lock = locks
  /\ \A t \in Threads :
       /\ at[t] = "read" => locks # 0
       /\ at[t] \in Inside \cup {"acquire"} => mine[t] \in 1 .. locks
       /\ at[t] \in Inside => mine[t] \in held
       /\ at[t] = "publish" => building[t] # 0
       /\ \A u \in Threads :
            at[t] \in Inside /\ at[u] \in Inside /\ mine[t] = mine[u] => t = u

Owned ==
  /\ local = locals
  /\ \A t \in Threads :
       /\ at[t] = "readLocal" => locals # 0
       /\ at[t] = "fill" => seen[t] \in 1 .. locals
       /\ own[t] \subseteq 1 .. locals

Counted ==
  /\ built + Cardinality(In("construct")) <= locks
  /\ instance = 0 => built = Cardinality(In("publish"))
  /\ locks + Cardinality(In("create")) <= Cardinality(Threads)
  /\ locals + Cardinality(In("createLocal")) <= Cardinality(Threads)

IInv == Typed /\ Locking /\ Owned /\ Counted

-----------------------------------------------------------------------------
(* Counting the threads at a place. *)

LEMMA InFinite ==
  ASSUME NEW place
  PROVE  /\ IsFiniteSet(In(place)) /\ Cardinality(In(place)) \in Nat
         /\ Cardinality(In(place)) <= Cardinality(Threads)
         /\ Cardinality(Threads) \in Nat
<1>1. In(place) \in SUBSET Threads
  BY DEF In
<1> QED
  BY <1>1, FS_Subset, FS_CardinalityType, ThreadsAssumption

LEMMA InSame ==
  ASSUME Typed, NEW t \in Threads, NEW from, NEW to \in Places, Go(t, from, to),
         NEW place, place # from, place # to
  PROVE  Cardinality(In(place)') = Cardinality(In(place))
<1>1. In(place)' = In(place)
  BY DEF In, Go, Typed
<1> QED
  BY <1>1

LEMMA InMore ==
  ASSUME Typed, NEW t \in Threads, NEW from, NEW to \in Places, Go(t, from, to),
         from # to
  PROVE  Cardinality(In(to)') = Cardinality(In(to)) + 1
<1>1. In(to)' = In(to) \cup {t} /\ t \notin In(to)
  BY DEF In, Go, Typed
<1> QED
  BY <1>1, InFinite, FS_AddElement

LEMMA InLess ==
  ASSUME Typed, NEW t \in Threads, NEW from, NEW to \in Places, Go(t, from, to),
         from # to
  PROVE  Cardinality(In(from)') = Cardinality(In(from)) - 1
<1>1. In(from)' = In(from) \ {t} /\ t \in In(from)
  BY DEF In, Go, Typed
<1> QED
  BY <1>1, InFinite, FS_RemoveElement

LEMMA InNone ==
  ASSUME NEW place, \A t \in Threads : at[t] # place
  PROVE  Cardinality(In(place)) = 0
<1>1. In(place) = {}
  BY DEF In
<1> QED
  BY <1>1, FS_EmptySet

LEMMA DisjointUnion ==
  ASSUME NEW A, NEW B, IsFiniteSet(A), IsFiniteSet(B), A \cap B = {}
  PROVE  /\ IsFiniteSet(A \cup B)
         /\ Cardinality(A \cup B) = Cardinality(A) + Cardinality(B)
<1>1. Cardinality(A \cap B) = 0
  BY FS_EmptySet
<1>2. Cardinality(A) \in Nat /\ Cardinality(B) \in Nat
  BY FS_CardinalityType
<1>3. /\ IsFiniteSet(A \cup B)
      /\ Cardinality(A \cup B)
           = Cardinality(A) + Cardinality(B) - Cardinality(A \cap B)
  BY FS_Union
<1> QED
  BY <1>1, <1>2, <1>3

\* Threads at two places where they hold a lock each are no more than locks,
\* one of those that still look at _instance included.
LEMMA RoomForOneMore ==
  ASSUME Typed, Locking, NEW t \in Threads, at[t] = "again"
  PROVE  Cardinality(In("publish")) + Cardinality(In("construct")) + 1 <= locks
<1> DEFINE S == In("publish") \cup In("construct")
           T == S \cup {t}
           f == [u \in T |-> mine[u]]
<1>1. IsFiniteSet(S) /\ Cardinality(S)
        = Cardinality(In("publish")) + Cardinality(In("construct"))
  <2>1. In("publish") \cap In("construct") = {}
    BY DEF In
  <2> QED
    BY <2>1, InFinite, DisjointUnion
<1>2. Cardinality(T) = Cardinality(S) + 1
  <2>1. t \notin S
    BY DEF In
  <2> QED
    BY <1>1, <2>1, FS_AddElement
<1>3. \A u \in T : u \in Threads /\ at[u] \in Inside
  BY DEF In, Inside
<1>4. f \in Injection(T, 1 .. locks)
  BY <1>3 DEF Locking, Injection, IsInjective
<1>5. IsFiniteSet(1 .. locks) /\ Cardinality(1 .. locks) = locks
  <2>1. locks \in Nat
    BY DEF Typed
  <2> QED
    BY <2>1, FS_Interval
<1>6. Cardinality(T) <= locks
  BY <1>4, <1>5, FS_Injection
<1> QED
  BY <1>1, <1>2, <1>6

-----------------------------------------------------------------------------
LEMMA InitOK == SingletonsInit => IInv
<1> SUFFICES ASSUME SingletonsInit PROVE IInv
  OBVIOUS
<1>1. Typed /\ Locking /\ Owned
  BY DEF SingletonsInit, Typed, Locking, Owned, Places, Inside
<1>2. \A place \in {"construct", "publish", "create", "createLocal"} :
        Cardinality(In(place)) = 0
  BY InNone DEF SingletonsInit
<1>3. Cardinality(Threads) \in Nat /\ Cardinality(Threads) # 0
  BY ThreadsAssumption, FS_CardinalityType, FS_EmptySet
<1>4. lock \in {0, 1} /\ locks = lock /\ locals = 0 /\ built = 0
  BY DEF SingletonsInit
<1>5. Counted
  BY <1>2, <1>3, <1>4 DEF Counted
<1> QED
  BY <1>1, <1>5 DEF IInv

Step(t) ==
  \/ FastPath(t) \/ LookForLock(t) \/ CreateLock(t) \/ ReadLock(t)
  \/ Acquire(t) \/ LookAgain(t) \/ Construct(t) \/ ConstructRaises(t)
  \/ Publish(t) \/ Release(t)
  \/ LookForLocal(t) \/ CreateLocal(t) \/ ReadLocal(t) \/ FillLocal(t)

-----------------------------------------------------------------------------
(* One step of one thread keeps each part of the invariant. *)

LEMMA TypedStep ==
  ASSUME Typed, NEW t \in Threads, Step(t)
  PROVE  Typed'
<1> USE DEF shared, perThread, Go
<1>1. CASE FastPath(t)
  BY <1>1 DEF FastPath, Typed, Places, Inside
<1>2. CASE LookForLock(t)
  BY <1>2 DEF LookForLock, Typed, Places, Inside
<1>3. CASE CreateLock(t)
  BY <1>3 DEF CreateLock, Typed, Places, Inside
<1>4. CASE ReadLock(t)
  BY <1>4 DEF ReadLock, Typed, Places, Inside
<1>5. CASE Acquire(t)
  BY <1>5 DEF Acquire, Typed, Places, Inside
<1>6. CASE LookAgain(t)
  BY <1>6 DEF LookAgain, Typed, Places, Inside
<1>7. CASE Construct(t)
  BY <1>7 DEF Construct, Typed, Places, Inside
<1>8. CASE ConstructRaises(t)
  BY <1>8 DEF ConstructRaises, Typed, Places, Inside
<1>9. CASE Publish(t)
  BY <1>9 DEF Publish, Typed, Places, Inside
<1>10. CASE Release(t)
  BY <1>10 DEF Release, Typed, Places, Inside
<1>11. CASE LookForLocal(t)
  BY <1>11 DEF LookForLocal, Typed, Places, Inside
<1>12. CASE CreateLocal(t)
  BY <1>12 DEF CreateLocal, Typed, Places, Inside
<1>13. CASE ReadLocal(t)
  BY <1>13 DEF ReadLocal, Typed, Places, Inside
<1>14. CASE FillLocal(t)
  BY <1>14 DEF FillLocal, Typed, Places, Inside
<1> QED
  BY <1>1, <1>2, <1>3, <1>4, <1>5, <1>6, <1>7, <1>8, <1>9, <1>10, <1>11, <1>12,
     <1>13, <1>14 DEF Step

LEMMA OwnedStep ==
  ASSUME Typed, Owned, NEW t \in Threads, Step(t)
  PROVE  Owned'
<1> USE DEF shared, perThread, Go
<1>1. CASE FastPath(t)
  BY <1>1 DEF FastPath, Typed, Owned
<1>2. CASE LookForLock(t)
  BY <1>2 DEF LookForLock, Typed, Owned
<1>3. CASE CreateLock(t)
  BY <1>3 DEF CreateLock, Typed, Owned
<1>4. CASE ReadLock(t)
  BY <1>4 DEF ReadLock, Typed, Owned
<1>5. CASE Acquire(t)
  BY <1>5 DEF Acquire, Typed, Owned
<1>6. CASE LookAgain(t)
  BY <1>6 DEF LookAgain, Typed, Owned
<1>7. CASE Construct(t)
  BY <1>7 DEF Construct, Typed, Owned
<1>8. CASE ConstructRaises(t)
  BY <1>8 DEF ConstructRaises, Typed, Owned
<1>9. CASE Publish(t)
  BY <1>9 DEF Publish, Typed, Owned
<1>10. CASE Release(t)
  BY <1>10 DEF Release, Typed, Owned
<1>11. CASE LookForLocal(t)
  BY <1>11 DEF LookForLocal, Typed, Owned
<1>12. CASE CreateLocal(t)
  BY <1>12 DEF CreateLocal, Typed, Owned
<1>13. CASE ReadLocal(t)
  BY <1>13 DEF ReadLocal, Typed, Owned
<1>14. CASE FillLocal(t)
  BY <1>14 DEF FillLocal, Typed, Owned
<1> QED
  BY <1>1, <1>2, <1>3, <1>4, <1>5, <1>6, <1>7, <1>8, <1>9, <1>10, <1>11, <1>12,
     <1>13, <1>14 DEF Step

LEMMA LockingStep ==
  ASSUME Typed, Locking, NEW t \in Threads, Step(t)
  PROVE  Locking'
<1> USE DEF shared, perThread, Go
<1>1. CASE FastPath(t)
  BY <1>1 DEF FastPath, Typed, Locking, Inside
<1>2. CASE LookForLock(t)
  BY <1>2 DEF LookForLock, Typed, Locking, Inside
<1>3. CASE CreateLock(t)
  BY <1>3 DEF CreateLock, Typed, Locking, Inside
<1>4. CASE ReadLock(t)
  BY <1>4 DEF ReadLock, Typed, Locking, Inside
<1>5. CASE Acquire(t)
  BY <1>5 DEF Acquire, Typed, Locking, Inside
<1>6. CASE LookAgain(t)
  BY <1>6 DEF LookAgain, Typed, Locking, Inside
<1>7. CASE Construct(t)
  BY <1>7 DEF Construct, Typed, Locking, Inside
<1>8. CASE ConstructRaises(t)
  BY <1>8 DEF ConstructRaises, Typed, Locking, Inside
<1>9. CASE Publish(t)
  BY <1>9 DEF Publish, Typed, Locking, Inside
<1>10. CASE Release(t)
  BY <1>10 DEF Release, Typed, Locking, Inside
<1>11. CASE LookForLocal(t)
  BY <1>11 DEF LookForLocal, Typed, Locking, Inside
<1>12. CASE CreateLocal(t)
  BY <1>12 DEF CreateLocal, Typed, Locking, Inside
<1>13. CASE ReadLocal(t)
  BY <1>13 DEF ReadLocal, Typed, Locking, Inside
<1>14. CASE FillLocal(t)
  BY <1>14 DEF FillLocal, Typed, Locking, Inside
<1> QED
  BY <1>1, <1>2, <1>3, <1>4, <1>5, <1>6, <1>7, <1>8, <1>9, <1>10, <1>11, <1>12,
     <1>13, <1>14 DEF Step

\* Where one thread moves, each count changes as its move says.
LEMMA CountedMove ==
  ASSUME Typed, NEW t \in Threads, NEW from, NEW to \in Places, Go(t, from, to)
  PROVE  \A place \in Places :
           /\ Cardinality(In(place)) \in Nat
           /\ Cardinality(In(place)') =
                Cardinality(In(place))
                + (IF to = place /\ from # place THEN 1 ELSE 0)
                - (IF from = place /\ to # place THEN 1 ELSE 0)
<1> TAKE place \in Places
<1>1. Cardinality(In(place)) \in Nat
  BY InFinite
<1>2. CASE from # place /\ to # place
  BY <1>1, <1>2, InSame
<1>3. CASE from # place /\ to = place
  BY <1>1, <1>3, InMore
<1>4. CASE from = place /\ to # place
  BY <1>1, <1>4, InLess
<1>5. CASE from = place /\ to = place
  <2>1. In(place)' = In(place)
    BY <1>5 DEF In, Go, Typed
  <2> QED
    BY <1>1, <1>5, <2>1
<1> QED
  BY <1>2, <1>3, <1>4, <1>5

\* c threads are about to construct, p about to publish, r about to create a
\* lock and l a container.  A thread finds no instance under its lock only if
\* RoomForOneMore leaves it a lock of its own.
LEMMA CountedStep ==
  ASSUME IInv, NEW t \in Threads, Step(t)
  PROVE  Counted'
<1> USE DEF IInv, shared, perThread
<1> DEFINE c == Cardinality(In("construct"))
           p == Cardinality(In("publish"))
           r == Cardinality(In("create"))
           l == Cardinality(In("createLocal"))
<1> HIDE DEF c, p, r, l
<1>0. /\ c \in Nat /\ p \in Nat /\ r \in Nat /\ l \in Nat
      /\ Cardinality(Threads) \in Nat
      /\ built \in Nat /\ locks \in Nat /\ locals \in Nat /\ instance \in Nat
  BY InFinite DEF c, p, r, l, Typed
<1>a. /\ built + c <= locks
      /\ instance = 0 => built = p
      /\ locks + r <= Cardinality(Threads)
      /\ locals + l <= Cardinality(Threads)
  BY DEF Counted, c, p, r, l
<1>b. Counted' <=>
        /\ built' + c' <= locks'
        /\ instance' = 0 => built' = p'
        /\ locks' + r' <= Cardinality(Threads)
        /\ locals' + l' <= Cardinality(Threads)
  BY DEF Counted, c, p, r, l
<1>c. /\ r' \in Nat /\ r' <= Cardinality(Threads)
      /\ l' \in Nat /\ l' <= Cardinality(Threads)
  <2>1. /\ In("create")' \in SUBSET Threads
        /\ In("createLocal")' \in SUBSET Threads
    BY DEF In
  <2> QED
    BY <2>1, FS_Subset, FS_CardinalityType, ThreadsAssumption DEF r, l
<1>1. CASE FastPath(t)
  <2>1. c' = c /\ p' = p /\ r' = r /\ l' = l
    BY <1>1, <1>0, CountedMove DEF FastPath, c, p, r, l, Places, Inside
  <2>2. UNCHANGED <<built, locks, locals, instance>>
    BY <1>1 DEF FastPath
  <2> QED
    BY <1>0, <1>a, <1>b, <2>1, <2>2
<1>2. CASE LookForLock(t)
  <2>1. c' = c /\ p' = p /\ l' = l /\ (lock # 0 => r' = r)
    BY <1>2, <1>0, CountedMove DEF LookForLock, c, p, r, l, Places, Inside
  <2>2. UNCHANGED <<built, locks, locals, instance>>
    BY <1>2 DEF LookForLock
  <2>3. lock = locks
    BY DEF Locking
  <2> QED
    BY <1>0, <1>a, <1>b, <1>c, <2>1, <2>2, <2>3
<1>3. CASE CreateLock(t)
  <2>1. c' = c /\ p' = p /\ r' = r - 1 /\ l' = l
    BY <1>3, <1>0, CountedMove DEF CreateLock, c, p, r, l, Places, Inside
  <2>2. locks' = locks + 1 /\ UNCHANGED <<built, locals, instance>>
    BY <1>3 DEF CreateLock
  <2> QED
    BY <1>0, <1>a, <1>b, <2>1, <2>2
<1>4. CASE ReadLock(t)
  <2>1. c' = c /\ p' = p /\ r' = r /\ l' = l
    BY <1>4, <1>0, CountedMove DEF ReadLock, c, p, r, l, Places, Inside
  <2>2. UNCHANGED <<built, locks, locals, instance>>
    BY <1>4 DEF ReadLock
  <2> QED
    BY <1>0, <1>a, <1>b, <2>1, <2>2
<1>5. CASE Acquire(t)
  <2>1. c' = c /\ p' = p /\ r' = r /\ l' = l
    BY <1>5, <1>0, CountedMove DEF Acquire, c, p, r, l, Places, Inside
  <2>2. UNCHANGED <<built, locks, locals, instance>>
    BY <1>5 DEF Acquire
  <2> QED
    BY <1>0, <1>a, <1>b, <2>1, <2>2
<1>6. CASE LookAgain(t)
  <2>1. /\ p' = p /\ r' = r /\ l' = l
        /\ instance = 0 => c' = c + 1
        /\ instance # 0 => c' = c
    BY <1>6, <1>0, CountedMove DEF LookAgain, c, p, r, l, Places, Inside
  <2>2. UNCHANGED <<built, locks, locals, instance>>
    BY <1>6 DEF LookAgain
  <2>3. p + c + 1 <= locks
    BY <1>6, RoomForOneMore DEF LookAgain, Go, c, p
  <2> QED
    BY <1>0, <1>a, <1>b, <2>1, <2>2, <2>3
<1>7. CASE Construct(t)
  <2>1. c' = c - 1 /\ p' = p + 1 /\ r' = r /\ l' = l
    BY <1>7, <1>0, CountedMove DEF Construct, c, p, r, l, Places, Inside
  <2>2. built' = built + 1 /\ UNCHANGED <<locks, locals, instance>>
    BY <1>7 DEF Construct
  <2> QED
    BY <1>0, <1>a, <1>b, <2>1, <2>2
<1>8. CASE ConstructRaises(t)
  <2>1. c' = c - 1 /\ p' = p /\ r' = r /\ l' = l
    BY <1>8, <1>0, CountedMove DEF ConstructRaises, c, p, r, l, Places, Inside
  <2>2. UNCHANGED <<built, locks, locals, instance>>
    BY <1>8 DEF ConstructRaises
  <2> QED
    BY <1>0, <1>a, <1>b, <2>1, <2>2
<1>9. CASE Publish(t)
  <2>1. c' = c /\ r' = r /\ l' = l
    BY <1>9, <1>0, CountedMove DEF Publish, c, p, r, l, Places, Inside
  <2>2. instance' # 0 /\ UNCHANGED <<built, locks, locals>>
    BY <1>9 DEF Publish, Go, Locking
  <2> QED
    BY <1>0, <1>a, <1>b, <2>1, <2>2
<1>10. CASE Release(t)
  <2>1. c' = c /\ p' = p /\ r' = r /\ l' = l
    BY <1>10, <1>0, CountedMove DEF Release, c, p, r, l, Places, Inside
  <2>2. UNCHANGED <<built, locks, locals, instance>>
    BY <1>10 DEF Release
  <2> QED
    BY <1>0, <1>a, <1>b, <2>1, <2>2
<1>11. CASE LookForLocal(t)
  <2>1. c' = c /\ p' = p /\ r' = r /\ (local # 0 => l' = l)
    BY <1>11, <1>0, CountedMove DEF LookForLocal, c, p, r, l, Places, Inside
  <2>2. UNCHANGED <<built, locks, locals, instance>>
    BY <1>11 DEF LookForLocal
  <2>3. local = locals
    BY DEF Owned
  <2> QED
    BY <1>0, <1>a, <1>b, <1>c, <2>1, <2>2, <2>3
<1>12. CASE CreateLocal(t)
  <2>1. c' = c /\ p' = p /\ r' = r /\ l' = l - 1
    BY <1>12, <1>0, CountedMove DEF CreateLocal, c, p, r, l, Places, Inside
  <2>2. locals' = locals + 1 /\ UNCHANGED <<built, locks, instance>>
    BY <1>12 DEF CreateLocal
  <2> QED
    BY <1>0, <1>a, <1>b, <2>1, <2>2
<1>13. CASE ReadLocal(t)
  <2>1. c' = c /\ p' = p /\ r' = r /\ l' = l
    BY <1>13, <1>0, CountedMove DEF ReadLocal, c, p, r, l, Places, Inside
  <2>2. UNCHANGED <<built, locks, locals, instance>>
    BY <1>13 DEF ReadLocal
  <2> QED
    BY <1>0, <1>a, <1>b, <2>1, <2>2
<1>14. CASE FillLocal(t)
  <2>1. c' = c /\ p' = p /\ r' = r /\ l' = l
    BY <1>14, <1>0, CountedMove DEF FillLocal, c, p, r, l, Places, Inside
  <2>2. UNCHANGED <<built, locks, locals, instance>>
    BY <1>14 DEF FillLocal
  <2> QED
    BY <1>0, <1>a, <1>b, <2>1, <2>2
<1> QED
  BY <1>1, <1>2, <1>3, <1>4, <1>5, <1>6, <1>7, <1>8, <1>9, <1>10, <1>11, <1>12,
     <1>13, <1>14 DEF Step

-----------------------------------------------------------------------------
LEMMA Invariant == SingletonsSpec => []IInv
<1>1. SingletonsInit => IInv
  BY InitOK
<1>2. IInv /\ [SingletonsNext]_singletons => IInv'
  <2> SUFFICES ASSUME IInv, [SingletonsNext]_singletons PROVE IInv'
    OBVIOUS
  <2>1. CASE SingletonsNext
    <3>1. PICK t \in Threads : Step(t)
      BY <2>1 DEF SingletonsNext, Step
    <3> QED
      BY <3>1, TypedStep, LockingStep, OwnedStep, CountedStep DEF IInv
  <2>2. CASE UNCHANGED singletons
    BY <2>2 DEF IInv, Typed, Locking, Owned, Counted, In, singletons, shared,
                perThread
  <2> QED
    BY <2>1, <2>2
<1> QED
  BY <1>1, <1>2, PTL DEF SingletonsSpec

\* instance() constructs no more instances than it created locks, and creates
\* no more locks or containers than there are threads: a thread creates at
\* most one of each, because none is ever taken away again.
THEOREM InstancesBounded == SingletonsSpec => []OneInstancePerLock
<1>1. IInv => OneInstancePerLock
  <2> SUFFICES ASSUME IInv PROVE OneInstancePerLock
    OBVIOUS
  <2>1. /\ Cardinality(In("construct")) \in Nat
        /\ Cardinality(In("create")) \in Nat
        /\ Cardinality(In("createLocal")) \in Nat
        /\ Cardinality(Threads) \in Nat
    BY InFinite
  <2>2. built \in Nat /\ locks \in Nat /\ locals \in Nat
    BY DEF IInv, Typed
  <2>3. /\ built + Cardinality(In("construct")) <= locks
        /\ locks + Cardinality(In("create")) <= Cardinality(Threads)
        /\ locals + Cardinality(In("createLocal")) <= Cardinality(Threads)
        /\ \A t \in Threads : own[t] \subseteq 1 .. locals
    BY DEF IInv, Owned, Counted
  <2> QED
    BY <2>1, <2>2, <2>3 DEF OneInstancePerLock
<1> QED
  BY <1>1, Invariant, PTL

\* A thread that calls instance() after the publication leaves by the fast
\* path or by the second look, so it never constructs; a container is only
\* created by a thread that found none.
THEOREM SettledStays == SingletonsSpec => Settled
<1> DEFINE Kept ==
      /\ InstanceSettled => InstanceSettled' /\ instance' = instance
      /\ LocalSettled => LocalSettled' /\ local' = local
<1>1. IInv /\ [SingletonsNext]_singletons => [Kept]_singletons
  <2> SUFFICES ASSUME IInv, SingletonsNext PROVE Kept
    OBVIOUS
  <2> PICK t \in Threads : Step(t)
    BY DEF SingletonsNext, Step
  <2> USE DEF InstanceSettled, LocalSettled, Go, shared, perThread, IInv, Typed
  <2>1. CASE FastPath(t)
    BY <2>1 DEF FastPath
  <2>2. CASE LookForLock(t)
    BY <2>2 DEF LookForLock
  <2>3. CASE CreateLock(t)
    BY <2>3 DEF CreateLock
  <2>4. CASE ReadLock(t)
    BY <2>4 DEF ReadLock
  <2>5. CASE Acquire(t)
    BY <2>5 DEF Acquire
  <2>6. CASE LookAgain(t)
    BY <2>6 DEF LookAgain
  <2>7. CASE Construct(t)
    BY <2>7 DEF Construct
  <2>8. CASE ConstructRaises(t)
    BY <2>8 DEF ConstructRaises
  <2>9. CASE Publish(t)
    BY <2>9 DEF Publish
  <2>10. CASE Release(t)
    BY <2>10 DEF Release
  <2>11. CASE LookForLocal(t)
    BY <2>11 DEF LookForLocal
  <2>12. CASE CreateLocal(t)
    BY <2>12 DEF CreateLocal
  <2>13. CASE ReadLocal(t)
    BY <2>13 DEF ReadLocal
  <2>14. CASE FillLocal(t)
    BY <2>14 DEF FillLocal
  <2> QED
    BY <2>1, <2>2, <2>3, <2>4, <2>5, <2>6, <2>7, <2>8, <2>9, <2>10, <2>11,
       <2>12, <2>13, <2>14 DEF Step
<1> QED
  BY <1>1, Invariant, PTL DEF SingletonsSpec, Settled
=============================================================================
