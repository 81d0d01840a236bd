------------------------ MODULE ZmqDispatcher_proofs ------------------------
(***************************************************************************)
(* Proofs about ZmqDispatcher, for any threads, workers and messages:      *)
(* types, replies that answer their request, worker accounting, the queue  *)
(* as an ExclusivePool, and the retries of what cannot be serialized.      *)
(***************************************************************************)
EXTENDS ZmqDispatcher, FiniteSetTheorems, TLAPS

(* The actions, expanded in proofs that treat each of them. *)
LEMMA NextCases ==
  ASSUME Next
  PROVE  \/ \E t \in Threads, r \in Requests : Call(t, r)
         \/ \E t \in Threads : Retry(t)
         \/ \E t \in Threads, w \in Workers : TakeWorker(t, w)
         \/ \E t \in Threads : GetOrCreateSocket(t)
         \/ \E t \in Threads : SerializeFails(t)
         \/ \E t \in Threads : Send(t)
         \/ \E t \in Threads : PollTimeout(t)
         \/ \E t \in Threads : PollEvent(t)
         \/ \E t \in Threads : SocketGone(t)
         \/ \E t \in Threads : Recv(t)
         \/ \E t \in Threads : FreeWorker(t)
         \/ \E t \in Threads : Decode(t)
         \/ \E t \in Threads : DecodeFails(t)
         \/ \E t \in Threads : CloseSocket(t)
         \/ \E t \in Threads : ReturnWorker(t)
         \/ \E s \in Sockets : PeerReply(s)
         \/ \E r \in Requests : CacheExpires(r)
  BY DEF Next, Step

LEMMA TypeInit == Init => TypeOK
  BY ZmqAssumption DEF Init, TypeOK, PC, Holding, SocketState

LEMMA TypeStep == TypeOK /\ [Next]_vars => TypeOK'
<1> SUFFICES ASSUME TypeOK, [Next]_vars PROVE TypeOK'
  OBVIOUS
<1> USE ZmqAssumption DEF TypeOK, PC, Holding, SocketState, Goto, workerVars, socketVars
<1>1. ASSUME NEW t \in Threads, NEW r \in Requests, Call(t, r) PROVE TypeOK'
  BY <1>1 DEF Call, Enter
<1>2. ASSUME NEW t \in Threads, Retry(t) PROVE TypeOK'
  BY <1>2 DEF Retry, Enter
<1>3. ASSUME NEW t \in Threads, NEW w \in Workers, TakeWorker(t, w) PROVE TypeOK'
  BY <1>3 DEF TakeWorker
<1>4. ASSUME NEW t \in Threads, GetOrCreateSocket(t) PROVE TypeOK'
  BY <1>4 DEF GetOrCreateSocket, Usable, Unreferenced
<1>5. ASSUME NEW t \in Threads, SerializeFails(t) PROVE TypeOK'
  BY <1>5 DEF SerializeFails
<1>6. ASSUME NEW t \in Threads, Send(t) PROVE TypeOK'
  BY <1>6 DEF Send, CanSend
<1>7. ASSUME NEW t \in Threads, PollTimeout(t) PROVE TypeOK'
  BY <1>7 DEF PollTimeout
<1>8. ASSUME NEW t \in Threads, PollEvent(t) PROVE TypeOK'
  BY <1>8 DEF PollEvent
<1>9. ASSUME NEW t \in Threads, SocketGone(t) PROVE TypeOK'
  BY <1>9 DEF SocketGone
<1>10. ASSUME NEW t \in Threads, Recv(t) PROVE TypeOK'
  BY <1>10 DEF Recv
<1>11. ASSUME NEW t \in Threads, FreeWorker(t) PROVE TypeOK'
  BY <1>11 DEF FreeWorker
<1>12. ASSUME NEW t \in Threads, Decode(t) PROVE TypeOK'
  BY <1>12 DEF Decode
<1>13. ASSUME NEW t \in Threads, DecodeFails(t) PROVE TypeOK'
  BY <1>13 DEF DecodeFails
<1>14. ASSUME NEW t \in Threads, CloseSocket(t) PROVE TypeOK'
  BY <1>14 DEF CloseSocket
<1>15. ASSUME NEW t \in Threads, ReturnWorker(t) PROVE TypeOK'
  BY <1>15 DEF ReturnWorker
<1>16. ASSUME NEW s \in Sockets, PeerReply(s) PROVE TypeOK'
  BY <1>16 DEF PeerReply
<1>17. ASSUME NEW r \in Requests, CacheExpires(r) PROVE TypeOK'
  BY <1>17 DEF CacheExpires
<1>18. CASE UNCHANGED vars
  BY <1>18 DEF vars
<1> QED
  BY <1>1, <1>2, <1>3, <1>4, <1>5, <1>6, <1>7, <1>8, <1>9, <1>10, <1>11,
     <1>12, <1>13, <1>14, <1>15, <1>16, <1>17, <1>18, NextCases

(* Every variable keeps its type (the locals of send_and_recv are bound     *)
(* wherever the code uses them).                                            *)
THEOREM TypeCorrect == Spec => []TypeOK
  BY TypeInit, TypeStep, PTL DEF Spec

-----------------------------------------------------------------------------
(* Replies. *)

AwaitsReply(t) == pc[t] \in {"polling", "readable"}

(* An open socket some thread awaits a reply on carries that thread's      *)
(* message, is awaited by no other thread, and cannot be sent on.          *)
SocketInv ==
  /\ \A t \in Threads : AwaitsReply(t) /\ state[var[t]] # "closed" =>
       /\ state[var[t]] \in {"sent", "replied"}
       /\ pc[t] = "readable" => state[var[t]] = "replied"
       /\ carries[var[t]] = req[t]
  /\ \A t, u \in Threads :
       AwaitsReply(t) /\ AwaitsReply(u) /\ var[t] = var[u] =>
         t = u \/ state[var[t]] = "closed"

LEMMA SocketInit == Init => SocketInv
  BY DEF Init, SocketInv, AwaitsReply

LEMMA SocketStep == TypeOK /\ SocketInv /\ [Next]_vars => SocketInv'
<1> SUFFICES ASSUME TypeOK, SocketInv, [Next]_vars PROVE SocketInv'
  OBVIOUS
<1> USE DEF TypeOK, SocketInv, AwaitsReply, PC, Holding, Goto, workerVars, socketVars
<1>1. ASSUME NEW t \in Threads, NEW r \in Requests, Call(t, r) PROVE SocketInv'
  BY <1>1 DEF Call, Enter
<1>2. ASSUME NEW t \in Threads, Retry(t) PROVE SocketInv'
  BY <1>2 DEF Retry, Enter
<1>3. ASSUME NEW t \in Threads, NEW w \in Workers, TakeWorker(t, w) PROVE SocketInv'
  BY <1>3 DEF TakeWorker
<1>4. ASSUME NEW t \in Threads, GetOrCreateSocket(t) PROVE SocketInv'
  BY <1>4 DEF GetOrCreateSocket, Usable, Unreferenced
<1>5. ASSUME NEW t \in Threads, SerializeFails(t) PROVE SocketInv'
  BY <1>5 DEF SerializeFails
<1>6. ASSUME NEW t \in Threads, Send(t) PROVE SocketInv'
  BY <1>6 DEF Send, CanSend
<1>7. ASSUME NEW t \in Threads, PollTimeout(t) PROVE SocketInv'
  BY <1>7 DEF PollTimeout
<1>8. ASSUME NEW t \in Threads, PollEvent(t) PROVE SocketInv'
  BY <1>8 DEF PollEvent, HasEvent
<1>9. ASSUME NEW t \in Threads, SocketGone(t) PROVE SocketInv'
  BY <1>9 DEF SocketGone
<1>10. ASSUME NEW t \in Threads, Recv(t) PROVE SocketInv'
  BY <1>10 DEF Recv
<1>11. ASSUME NEW t \in Threads, FreeWorker(t) PROVE SocketInv'
  BY <1>11 DEF FreeWorker
<1>12. ASSUME NEW t \in Threads, Decode(t) PROVE SocketInv'
  BY <1>12 DEF Decode
<1>13. ASSUME NEW t \in Threads, DecodeFails(t) PROVE SocketInv'
  BY <1>13 DEF DecodeFails
<1>14. ASSUME NEW t \in Threads, CloseSocket(t) PROVE SocketInv'
  BY <1>14 DEF CloseSocket
<1>15. ASSUME NEW t \in Threads, ReturnWorker(t) PROVE SocketInv'
  BY <1>15 DEF ReturnWorker
<1>16. ASSUME NEW s \in Sockets, PeerReply(s) PROVE SocketInv'
  BY <1>16 DEF PeerReply
<1>17. ASSUME NEW r \in Requests, CacheExpires(r) PROVE SocketInv'
  BY <1>17 DEF CacheExpires
<1>18. CASE UNCHANGED vars
  BY <1>18 DEF vars
<1> QED
  BY <1>1, <1>2, <1>3, <1>4, <1>5, <1>6, <1>7, <1>8, <1>9, <1>10, <1>11,
     <1>12, <1>13, <1>14, <1>15, <1>16, <1>17, <1>18, NextCases

LEMMA ReplyInit == Init => ReplyAnswersRequest
  BY DEF Init, ReplyAnswersRequest

LEMMA ReplyStep ==
  TypeOK /\ SocketInv /\ ReplyAnswersRequest /\ [Next]_vars => ReplyAnswersRequest'
<1> SUFFICES ASSUME TypeOK, SocketInv, ReplyAnswersRequest, [Next]_vars
             PROVE  ReplyAnswersRequest'
  OBVIOUS
<1> USE ZmqAssumption DEF TypeOK, SocketInv, AwaitsReply, ReplyAnswersRequest, PC, Holding, Goto,
        workerVars, socketVars
<1>1. ASSUME NEW t \in Threads, NEW r \in Requests, Call(t, r) PROVE ReplyAnswersRequest'
  BY <1>1 DEF Call, Enter
<1>2. ASSUME NEW t \in Threads, Retry(t) PROVE ReplyAnswersRequest'
  BY <1>2 DEF Retry, Enter
<1>3. ASSUME NEW t \in Threads, NEW w \in Workers, TakeWorker(t, w) PROVE ReplyAnswersRequest'
  BY <1>3 DEF TakeWorker
<1>4. ASSUME NEW t \in Threads, GetOrCreateSocket(t) PROVE ReplyAnswersRequest'
  BY <1>4 DEF GetOrCreateSocket, Usable, Unreferenced
<1>5. ASSUME NEW t \in Threads, SerializeFails(t) PROVE ReplyAnswersRequest'
  BY <1>5 DEF SerializeFails
<1>6. ASSUME NEW t \in Threads, Send(t) PROVE ReplyAnswersRequest'
  BY <1>6 DEF Send, CanSend
<1>7. ASSUME NEW t \in Threads, PollTimeout(t) PROVE ReplyAnswersRequest'
  BY <1>7 DEF PollTimeout
<1>8. ASSUME NEW t \in Threads, PollEvent(t) PROVE ReplyAnswersRequest'
  BY <1>8 DEF PollEvent, HasEvent
<1>9. ASSUME NEW t \in Threads, SocketGone(t) PROVE ReplyAnswersRequest'
  BY <1>9 DEF SocketGone
<1>10. ASSUME NEW t \in Threads, Recv(t) PROVE ReplyAnswersRequest'
  BY <1>10 DEF Recv
<1>11. ASSUME NEW t \in Threads, FreeWorker(t) PROVE ReplyAnswersRequest'
  BY <1>11 DEF FreeWorker
<1>12. ASSUME NEW t \in Threads, Decode(t) PROVE ReplyAnswersRequest'
  BY <1>12 DEF Decode
<1>13. ASSUME NEW t \in Threads, DecodeFails(t) PROVE ReplyAnswersRequest'
  BY <1>13 DEF DecodeFails
<1>14. ASSUME NEW t \in Threads, CloseSocket(t) PROVE ReplyAnswersRequest'
  BY <1>14 DEF CloseSocket
<1>15. ASSUME NEW t \in Threads, ReturnWorker(t) PROVE ReplyAnswersRequest'
  BY <1>15 DEF ReturnWorker
<1>16. ASSUME NEW s \in Sockets, PeerReply(s) PROVE ReplyAnswersRequest'
  BY <1>16 DEF PeerReply
<1>17. ASSUME NEW r \in Requests, CacheExpires(r) PROVE ReplyAnswersRequest'
  BY <1>17 DEF CacheExpires
<1>18. CASE UNCHANGED vars
  BY <1>18 DEF vars
<1> QED
  BY <1>1, <1>2, <1>3, <1>4, <1>5, <1>6, <1>7, <1>8, <1>9, <1>10, <1>11,
     <1>12, <1>13, <1>14, <1>15, <1>16, <1>17, <1>18, NextCases

(* A call returns the reply to its own message, whatever was late,          *)
(* malformed or shared.                                                     *)
THEOREM RepliesMatch == Spec => []ReplyAnswersRequest
<1>1. Init => TypeOK /\ SocketInv /\ ReplyAnswersRequest
  BY TypeInit, SocketInit, ReplyInit
<1>2. TypeOK /\ SocketInv /\ ReplyAnswersRequest /\ [Next]_vars
        => (TypeOK /\ SocketInv /\ ReplyAnswersRequest)'
  BY TypeStep, SocketStep, ReplyStep
<1> QED
  BY <1>1, <1>2, PTL DEF Spec

(* recv_multipart has a reply to read, or raises. *)
THEOREM RecvReady == Spec => []RecvNeverBlocks
<1>1. Init => TypeOK /\ SocketInv
  BY TypeInit, SocketInit
<1>2. TypeOK /\ SocketInv /\ [Next]_vars => (TypeOK /\ SocketInv)'
  BY TypeStep, SocketStep
<1>3. SocketInv => RecvNeverBlocks
  BY DEF SocketInv, RecvNeverBlocks, AwaitsReply
<1> QED
  BY <1>1, <1>2, <1>3, PTL DEF Spec

-----------------------------------------------------------------------------
(* Worker accounting. *)

LEMMA HoldersFinite ==
  ASSUME NEW w \in Workers
  PROVE  IsFiniteSet(Holders(w)) /\ Cardinality(Holders(w)) \in Nat
<1>1. Holders(w) \in SUBSET Threads
  BY DEF Holders
<1> QED
  BY <1>1, FS_Subset, FS_CardinalityType, ZmqAssumption

(* A step in which no thread starts or stops holding a worker. *)
LEMMA SameHolders ==
  ASSUME TokensConserved, UNCHANGED <<tokens, again>>,
         \A t \in Threads :
           /\ (pc[t] \in Holding) <=> (pc'[t] \in Holding)
           /\ pc[t] \in Holding => held'[t] = held[t]
  PROVE  TokensConserved'
<1>1. ASSUME NEW w \in Workers PROVE Holders(w)' = Holders(w)
  BY DEF Holders
<1> QED
  BY <1>1 DEF TokensConserved

(* A step in which thread t starts to hold worker h, which either leaves    *)
(* the queue or is held once too often.                                     *)
LEMMA OneMoreHolder ==
  ASSUME TypeOK, TokensConserved, NEW t \in Threads, NEW h \in Workers,
         pc[t] \notin Holding, pc'[t] \in Holding, held'[t] = h,
         \A u \in Threads \ {t} : pc'[u] = pc[u] /\ held'[u] = held[u],
         \/ /\ tokens[h] > 0
            /\ tokens' = [tokens EXCEPT ![h] = @ - 1]
            /\ UNCHANGED again
         \/ /\ again' = [again EXCEPT ![h] = @ + 1]
            /\ UNCHANGED tokens
  PROVE  TokensConserved'
<1>1. Holders(h)' = Holders(h) \union {t} /\ t \notin Holders(h)
  BY DEF Holders
<1>2. Cardinality(Holders(h)') = Cardinality(Holders(h)) + 1
  BY ZenonT(60), <1>1, HoldersFinite, FS_AddElement
<1>3. ASSUME NEW w \in Workers, w # h PROVE Holders(w)' = Holders(w)
  BY <1>3 DEF Holders
<1>4. ASSUME NEW w \in Workers
      PROVE  tokens'[w] + Cardinality(Holders(w)') = 1 + again'[w]
  <2>1. CASE w = h
    BY <2>1, <1>2, HoldersFinite DEF TypeOK, TokensConserved
  <2>2. CASE w # h
    BY <2>2, <1>3 DEF TypeOK, TokensConserved
  <2> QED
    BY <2>1, <2>2
<1> QED
  BY <1>4 DEF TokensConserved

(* A step in which thread t puts the worker h it holds into the queue. *)
LEMMA OneLessHolder ==
  ASSUME TypeOK, TokensConserved, NEW t \in Threads, NEW h \in Workers,
         pc[t] \in Holding, held[t] = h, pc'[t] \notin Holding,
         \A u \in Threads \ {t} : pc'[u] = pc[u] /\ held'[u] = held[u],
         tokens' = [tokens EXCEPT ![h] = @ + 1], UNCHANGED again
  PROVE  TokensConserved'
<1>1. Holders(h)' = Holders(h) \ {t} /\ t \in Holders(h)
  BY DEF Holders
<1>2. Cardinality(Holders(h)') = Cardinality(Holders(h)) - 1
  BY ZenonT(60), <1>1, HoldersFinite, FS_RemoveElement
<1>3. ASSUME NEW w \in Workers, w # h PROVE Holders(w)' = Holders(w)
  BY <1>3 DEF Holders
<1>4. ASSUME NEW w \in Workers
      PROVE  tokens'[w] + Cardinality(Holders(w)') = 1 + again'[w]
  <2>1. CASE w = h
    BY <2>1, <1>2, HoldersFinite DEF TypeOK, TokensConserved
  <2>2. CASE w # h
    BY <2>2, <1>3 DEF TypeOK, TokensConserved
  <2> QED
    BY <2>1, <2>2
<1> QED
  BY <1>4 DEF TokensConserved

LEMMA TokensInit == Init => TokensConserved
<1> SUFFICES ASSUME Init, NEW w \in Workers
             PROVE  tokens[w] + Cardinality(Holders(w)) = 1 + again[w]
  BY DEF TokensConserved
<1>1. Holders(w) = {}
  BY DEF Init, Holders, Holding
<1> QED
  BY <1>1, FS_EmptySet DEF Init

LEMMA TokensStep == TypeOK /\ TokensConserved /\ [Next]_vars => TokensConserved'
<1> SUFFICES ASSUME TypeOK, TokensConserved, [Next]_vars PROVE TokensConserved'
  OBVIOUS
<1> USE ZmqAssumption DEF PC, Goto, workerVars, socketVars
<1>1. ASSUME NEW t \in Threads, NEW r \in Requests, Call(t, r)
      PROVE  TokensConserved'
  BY <1>1, SameHolders DEF Call, Enter, TypeOK, Holding
<1>2. ASSUME NEW t \in Threads, Retry(t) PROVE TokensConserved'
  BY <1>2, SameHolders DEF Retry, Enter, TypeOK, Holding
<1>3. ASSUME NEW t \in Threads, NEW w \in Workers, TakeWorker(t, w)
      PROVE  TokensConserved'
  BY <1>3, OneMoreHolder DEF TakeWorker, TypeOK, Holding
<1>4. ASSUME NEW t \in Threads, GetOrCreateSocket(t) PROVE TokensConserved'
  BY <1>4, SameHolders DEF GetOrCreateSocket, TypeOK, Holding
<1>5. ASSUME NEW t \in Threads, SerializeFails(t) PROVE TokensConserved'
  BY <1>5, SameHolders DEF SerializeFails, TypeOK, Holding
<1>6. ASSUME NEW t \in Threads, Send(t) PROVE TokensConserved'
  BY <1>6, SameHolders DEF Send, TypeOK, Holding
<1>7. ASSUME NEW t \in Threads, PollTimeout(t) PROVE TokensConserved'
  BY <1>7, SameHolders DEF PollTimeout, TypeOK, Holding
<1>8. ASSUME NEW t \in Threads, PollEvent(t) PROVE TokensConserved'
  BY <1>8, SameHolders DEF PollEvent, TypeOK, Holding
<1>9. ASSUME NEW t \in Threads, SocketGone(t) PROVE TokensConserved'
  BY <1>9, SameHolders DEF SocketGone, TypeOK, Holding
<1>10. ASSUME NEW t \in Threads, Recv(t) PROVE TokensConserved'
  BY <1>10, SameHolders DEF Recv, TypeOK, Holding
<1>11. ASSUME NEW t \in Threads, FreeWorker(t) PROVE TokensConserved'
  BY <1>11, OneLessHolder DEF FreeWorker, TypeOK, Holding
<1>12. ASSUME NEW t \in Threads, Decode(t) PROVE TokensConserved'
  BY <1>12, SameHolders DEF Decode, TypeOK, Holding
<1>13. ASSUME NEW t \in Threads, DecodeFails(t) PROVE TokensConserved'
  BY <1>13, OneMoreHolder DEF DecodeFails, TypeOK, Holding
<1>14. ASSUME NEW t \in Threads, CloseSocket(t) PROVE TokensConserved'
  BY <1>14, SameHolders DEF CloseSocket, TypeOK, Holding
<1>15. ASSUME NEW t \in Threads, ReturnWorker(t) PROVE TokensConserved'
  BY <1>15, OneLessHolder DEF ReturnWorker, TypeOK, Holding
<1>16. ASSUME NEW s \in Sockets, PeerReply(s) PROVE TokensConserved'
  BY <1>16, SameHolders DEF PeerReply
<1>17. ASSUME NEW r \in Requests, CacheExpires(r) PROVE TokensConserved'
  BY <1>17, SameHolders DEF CacheExpires
<1>18. CASE UNCHANGED vars
  BY <1>18, SameHolders DEF vars
<1> QED
  BY <1>1, <1>2, <1>3, <1>4, <1>5, <1>6, <1>7, <1>8, <1>9, <1>10, <1>11,
     <1>12, <1>13, <1>14, <1>15, <1>16, <1>17, <1>18, NextCases

(* No path through send_and_recv loses a worker, and only a reply that      *)
(* fails to decode duplicates one.                                          *)
THEOREM WorkersConserved == Spec => []TokensConserved
<1>1. Init => TypeOK /\ TokensConserved
  BY TypeInit, TokensInit
<1>2. TypeOK /\ TokensConserved /\ [Next]_vars => (TypeOK /\ TokensConserved)'
  BY TypeStep, TokensStep
<1> QED
  BY <1>1, <1>2, PTL DEF Spec

(* With well-formed replies nothing is ever given back twice. *)
OnceOnly == ~MalformedReplies => \A w \in Workers : again[w] = 0

LEMMA OnceOnlyStep == OnceOnly /\ [Next]_vars => OnceOnly'
<1> SUFFICES ASSUME OnceOnly, [Next]_vars, ~MalformedReplies PROVE UNCHANGED again
  BY DEF OnceOnly
<1> QED
  BY NextCases DEF vars, workerVars, Call, Enter, Retry, TakeWorker,
     GetOrCreateSocket, SerializeFails, Send, PollTimeout, PollEvent, SocketGone,
     Recv, FreeWorker, Decode, DecodeFails, CloseSocket, ReturnWorker, PeerReply,
     CacheExpires

(* While replies decode, each worker, with its poller and socket, is in the *)
(* queue once or with exactly one thread.                                   *)
THEOREM WorkersExclusive == Spec => []ExclusiveWorkers
<1>1. Init => OnceOnly
  BY DEF Init, OnceOnly
<1>2. TypeOK /\ TokensConserved /\ OnceOnly => ExclusiveWorkers
  <2> SUFFICES ASSUME TypeOK, TokensConserved, OnceOnly, ~MalformedReplies,
                      NEW w \in Workers
               PROVE  \/ tokens[w] = 1 /\ Holders(w) = {}
                      \/ tokens[w] = 0 /\ \E t \in Threads : Holders(w) = {t}
    BY DEF ExclusiveWorkers
  <2>1. tokens[w] + Cardinality(Holders(w)) = 1
    BY DEF TokensConserved, OnceOnly
  <2>2. \/ tokens[w] = 1 /\ Cardinality(Holders(w)) = 0
        \/ tokens[w] = 0 /\ Cardinality(Holders(w)) = 1
    BY <2>1, HoldersFinite DEF TypeOK
  <2>3. ASSUME Cardinality(Holders(w)) = 1 PROVE \E t \in Threads : Holders(w) = {t}
    BY <2>3, HoldersFinite, FS_Singleton DEF Holders
  <2> QED
    BY <2>2, <2>3, HoldersFinite, FS_EmptySet
<1> QED
  BY <1>1, <1>2, OnceOnlyStep, TypeCorrect, WorkersConserved, PTL DEF Spec

-----------------------------------------------------------------------------
(* The queue and its threads are an exclusive pool. *)

Queued == {w \in Workers : tokens[w] > 0}
InUse  == [t \in Threads |-> IF pc[t] \in Holding THEN held[t] ELSE NoWorker]

(* Each worker is with one thread, or waits, and none is missing. *)
EachOnce ==
  /\ \A t \in Threads : InUse[t] # NoWorker =>
       /\ InUse[t] \in Workers \ Queued
       /\ \A u \in Threads \ {t} : InUse[u] # InUse[t]
  /\ \A w \in Workers \ Queued : \E t \in Threads : InUse[t] = w

LEMMA ExclusiveIsEachOnce == Pool!Exclusive <=> EachOnce
  BY DEF Pool!Exclusive, Pool!Held, EachOnce, InUse, Queued

(* That an exclusive pool is one follows from the actions of ExclusivePool *)
(* alone: taking a waiting item and giving one back keep every item in one *)
(* place.                                                                  *)
THEOREM PoolIsExclusive == Pool!Spec => []Pool!Exclusive
<1>1. Pool!Init => Pool!Exclusive
  BY ZmqAssumption DEF Pool!Init, Pool!Exclusive, Pool!Held
<1>2. ASSUME EachOnce, [Pool!Next]_(Pool!poolState) PROVE EachOnce'
  <2>1. ASSUME NEW t \in Threads, NEW w \in Workers, Pool!Take(t, w)
        PROVE  EachOnce'
    <3>1. /\ InUse[t] = NoWorker /\ w \in Queued
          /\ InUse' = [InUse EXCEPT ![t] = w]
          /\ Queued' = Queued \ {w}
      BY <2>1 DEF Pool!Take, InUse, Queued
    <3>2. InUse'[t] = w /\ \A u \in Threads \ {t} : InUse'[u] = InUse[u]
      BY <3>1 DEF InUse
    <3> QED
      BY <3>1, <3>2, <1>2, ZmqAssumption DEF EachOnce
  <2>2. ASSUME NEW t \in Threads, Pool!Give(t) PROVE EachOnce'
    <3>1. /\ InUse[t] # NoWorker
          /\ InUse' = [InUse EXCEPT ![t] = NoWorker]
          /\ Queued' = Queued \union {InUse[t]}
      BY <2>2 DEF Pool!Give, InUse, Queued
    <3>2. InUse'[t] = NoWorker /\ \A u \in Threads \ {t} : InUse'[u] = InUse[u]
      BY <3>1 DEF InUse
    <3> QED
      BY <3>1, <3>2, <1>2, ZmqAssumption DEF EachOnce
  <2>3. CASE UNCHANGED Pool!poolState
    <3>1. UNCHANGED <<Queued, InUse>>
      BY <2>3 DEF Pool!poolState, Queued, InUse
    <3> QED
      BY <3>1, <1>2 DEF EachOnce
  <2> QED
    BY <1>2, <2>1, <2>2, <2>3 DEF Pool!Next, Pool!Drop, Pool!Make
<1> QED
  BY <1>1, <1>2, ExclusiveIsEachOnce, PTL DEF Pool!Spec

(* A step in which no thread starts or stops holding a worker. *)
LEMMA PoolUntouched ==
  ASSUME UNCHANGED tokens,
         \A t \in Threads :
           /\ (pc[t] \in Holding) <=> (pc'[t] \in Holding)
           /\ pc[t] \in Holding => held'[t] = held[t]
  PROVE  UNCHANGED Pool!poolState
<1>1. InUse' = InUse
  BY DEF InUse
<1>2. Queued' = Queued
  BY DEF Queued
<1> QED
  BY <1>1, <1>2 DEF Pool!poolState, InUse, Queued

(* get_available_worker takes the worker out of the queue: it was in it    *)
(* once.                                                                   *)
LEMMA WorkerTaken ==
  ASSUME TypeOK, ExclusiveWorkers, ~MalformedReplies,
         NEW t \in Threads, NEW w \in Workers, TakeWorker(t, w)
  PROVE  Pool!Take(t, w)
<1>1. InUse[t] = NoWorker /\ w \in Queued
  BY DEF TakeWorker, InUse, Queued, Holding
<1>2. tokens[w] = 1
  BY DEF TakeWorker, ExclusiveWorkers
<1>3. Queued' = Queued \ {w}
  BY <1>2 DEF TakeWorker, Queued, TypeOK
<1>4. InUse' = [InUse EXCEPT ![t] = w]
  BY DEF TakeWorker, Goto, InUse, Holding, TypeOK
<1> QED
  BY <1>1, <1>3, <1>4 DEF Pool!Take, InUse, Queued

(* A put gives it back. *)
LEMMA WorkerGiven ==
  ASSUME TypeOK, NEW t \in Threads, pc[t] \in Holding, pc'[t] \notin Holding,
         \A u \in Threads \ {t} : pc'[u] = pc[u] /\ held'[u] = held[u],
         tokens' = [tokens EXCEPT ![held[t]] = @ + 1]
  PROVE  Pool!Give(t)
<1>1. InUse[t] = held[t] /\ held[t] \in Workers
  BY DEF InUse, TypeOK
<1>2. Queued' = Queued \union {held[t]}
  BY <1>1 DEF Queued, TypeOK
<1>3. InUse' = [InUse EXCEPT ![t] = NoWorker]
  BY DEF InUse
<1> QED
  BY <1>1, <1>2, <1>3, ZmqAssumption DEF Pool!Give, InUse, Queued

LEMMA PoolInit == Init => Pool!Init
<1> SUFFICES ASSUME Init PROVE Pool!Init
  OBVIOUS
<1>1. Queued = Workers
  BY DEF Init, Queued
<1>2. InUse = [t \in Threads |-> NoWorker]
  BY DEF Init, InUse, Holding
<1> QED
  BY <1>1, <1>2 DEF Pool!Init, Queued, InUse

LEMMA PoolStep ==
  TypeOK /\ ExclusiveWorkers /\ ~MalformedReplies /\ [Next]_vars
    => [Pool!Next]_(Pool!poolState)
<1> SUFFICES ASSUME TypeOK, ExclusiveWorkers, ~MalformedReplies, [Next]_vars
             PROVE  [Pool!Next]_(Pool!poolState)
  OBVIOUS
<1> DEFINE Steps == Pool!Next \/ UNCHANGED Pool!poolState
<1> USE DEF Goto, workerVars, socketVars
<1>1. ASSUME NEW t \in Threads, NEW r \in Requests, Call(t, r) PROVE Steps
  BY <1>1, PoolUntouched DEF Call, Enter, TypeOK, Holding
<1>2. ASSUME NEW t \in Threads, Retry(t) PROVE Steps
  BY <1>2, PoolUntouched DEF Retry, Enter, TypeOK, Holding
<1>3. ASSUME NEW t \in Threads, NEW w \in Workers, TakeWorker(t, w) PROVE Steps
  <2>1. Pool!Take(t, w)
    BY <1>3, WorkerTaken
  <2> QED
    BY <2>1 DEF Pool!Next
<1>4. ASSUME NEW t \in Threads, GetOrCreateSocket(t) PROVE Steps
  BY <1>4, PoolUntouched DEF GetOrCreateSocket, TypeOK, Holding
<1>5. ASSUME NEW t \in Threads, SerializeFails(t) PROVE Steps
  BY <1>5, PoolUntouched DEF SerializeFails, TypeOK, Holding
<1>6. ASSUME NEW t \in Threads, Send(t) PROVE Steps
  BY <1>6, PoolUntouched DEF Send, TypeOK, Holding
<1>7. ASSUME NEW t \in Threads, PollTimeout(t) PROVE Steps
  BY <1>7, PoolUntouched DEF PollTimeout, TypeOK, Holding
<1>8. ASSUME NEW t \in Threads, PollEvent(t) PROVE Steps
  BY <1>8, PoolUntouched DEF PollEvent, TypeOK, Holding
<1>9. ASSUME NEW t \in Threads, SocketGone(t) PROVE Steps
  BY <1>9, PoolUntouched DEF SocketGone, TypeOK, Holding
<1>10. ASSUME NEW t \in Threads, Recv(t) PROVE Steps
  BY <1>10, PoolUntouched DEF Recv, TypeOK, Holding
<1>11. ASSUME NEW t \in Threads, FreeWorker(t) PROVE Steps
  <2>1. Pool!Give(t)
    BY <1>11, WorkerGiven DEF FreeWorker, TypeOK, Holding
  <2> QED
    BY <2>1 DEF Pool!Next
<1>12. ASSUME NEW t \in Threads, Decode(t) PROVE Steps
  BY <1>12, PoolUntouched DEF Decode, TypeOK, Holding
<1>13. ASSUME NEW t \in Threads, DecodeFails(t) PROVE Steps
  BY <1>13 DEF DecodeFails
<1>14. ASSUME NEW t \in Threads, CloseSocket(t) PROVE Steps
  BY <1>14, PoolUntouched DEF CloseSocket, TypeOK, Holding
<1>15. ASSUME NEW t \in Threads, ReturnWorker(t) PROVE Steps
  <2>1. Pool!Give(t)
    BY <1>15, WorkerGiven DEF ReturnWorker, TypeOK, Holding
  <2> QED
    BY <2>1 DEF Pool!Next
<1>16. ASSUME NEW s \in Sockets, PeerReply(s) PROVE Steps
  BY <1>16, PoolUntouched DEF PeerReply
<1>17. ASSUME NEW r \in Requests, CacheExpires(r) PROVE Steps
  BY <1>17, PoolUntouched DEF CacheExpires
<1>18. CASE UNCHANGED vars
  BY <1>18, PoolUntouched DEF vars
<1> QED
  BY <1>1, <1>2, <1>3, <1>4, <1>5, <1>6, <1>7, <1>8, <1>9, <1>10, <1>11,
     <1>12, <1>13, <1>14, <1>15, <1>16, <1>17, <1>18, NextCases

(* While replies decode, the queue of dispatcher.py:224 with the threads   *)
(* that took a worker from it implements the exclusive pool: every step of *)
(* send_and_recv takes a waiting worker, gives one back, or leaves the     *)
(* pool alone.                                                             *)
THEOREM WorkersAreAPool ==
  ASSUME ~MalformedReplies
  PROVE  Spec => WorkersPooled
<1>1. TypeOK /\ ExclusiveWorkers /\ [Next]_vars => [Pool!Next]_(Pool!poolState)
  BY PoolStep
<1> QED
  BY <1>1, PoolInit, TypeCorrect, WorkersExclusive, PTL
     DEF Spec, WorkersPooled, Pool!Spec

-----------------------------------------------------------------------------
(* Messages that do not serialize. *)

(* Only a message that was serialized is waited on, received or decoded.   *)
Serialized ==
  \A t \in Threads : pc[t] \in {"polling", "readable", "received", "decoding"}
                       => req[t] \notin Unserializable

(* The message of a call that is under way stays what it is. *)
LEMMA MessageKept ==
  ASSUME TypeOK, [Next]_vars, NEW t \in Threads, pc[t] # "idle"
  PROVE  req'[t] = req[t]
<1>1. ASSUME NEW u \in Threads, NEW r \in Requests, Call(u, r)
      PROVE  req'[t] = req[t]
  BY <1>1 DEF Call, TypeOK
<1>2. UNCHANGED req \/ \E u \in Threads, r \in Requests : Call(u, r)
  BY NextCases DEF Retry, TakeWorker, GetOrCreateSocket, SerializeFails, Send,
     PollTimeout, PollEvent, SocketGone, Recv, FreeWorker, Decode, DecodeFails,
     CloseSocket, ReturnWorker, PeerReply, CacheExpires, vars
<1> QED
  BY <1>1, <1>2

LEMMA SerializedStep == TypeOK /\ Serialized /\ [Next]_vars => Serialized'
<1> SUFFICES ASSUME TypeOK, Serialized, [Next]_vars, NEW t \in Threads,
                    pc'[t] \in {"polling", "readable", "received", "decoding"}
             PROVE  pc[t] # "idle" /\ req[t] \notin Unserializable
  BY MessageKept DEF Serialized
<1>1. CASE pc'[t] = pc[t]
  BY <1>1 DEF Serialized
<1>2. CASE pc'[t] # pc[t]
  <2>1. Next
    BY <1>2 DEF vars
  <2>2. Send(t) \/ PollEvent(t) \/ Recv(t) \/ FreeWorker(t)
    BY <1>2, <2>1, NextCases DEF Call, Enter, Retry, TakeWorker,
       GetOrCreateSocket, SerializeFails, Send, PollTimeout, PollEvent,
       SocketGone, Recv, FreeWorker, Decode, DecodeFails, CloseSocket,
       ReturnWorker, PeerReply, CacheExpires, Goto, TypeOK
  <2> QED
    BY <2>2 DEF Send, PollEvent, Recv, FreeWorker, Serialized
<1> QED
  BY <1>1, <1>2

(* A call with a message that does not serialize does not return: where    *)
(* dispatcher.py:239 says "Don't retry", the outer except clause calls     *)
(* send_and_recv again, and no step leads out of the retries but a cache   *)
(* that answers.  (Python's recursion limit, which is not modelled, ends   *)
(* them after about a thousand nested calls.)                              *)
THEOREM DataErrorsRetryForever ==
  Spec => [][\A t \in Threads :
               /\ pc[t] # "idle"
               /\ req[t] \in Unserializable \ CachedRoutes
               => pc'[t] # "idle" /\ req'[t] = req[t]]_vars
<1>1. Init => Serialized
  BY DEF Init, Serialized
<1>2. ASSUME TypeOK, Serialized, Next, NEW t \in Threads, pc[t] # "idle",
             req[t] \in Unserializable \ CachedRoutes
      PROVE  pc'[t] # "idle"
  BY <1>2, NextCases DEF Call, Enter, Retry, TakeWorker, GetOrCreateSocket,
     SerializeFails, Send, PollTimeout, PollEvent,
     SocketGone, Recv, FreeWorker, Decode, DecodeFails, CloseSocket,
     ReturnWorker, PeerReply, CacheExpires, Goto, TypeOK, Serialized
<1>3. TypeOK /\ Serialized /\ [Next]_vars
        => [\A t \in Threads :
               /\ pc[t] # "idle"
               /\ req[t] \in Unserializable \ CachedRoutes
               => pc'[t] # "idle" /\ req'[t] = req[t]]_vars
  BY <1>2, MessageKept
<1> QED
  BY <1>1, <1>3, SerializedStep, TypeCorrect, PTL DEF Spec
=============================================================================
