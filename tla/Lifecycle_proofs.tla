-------------------------- MODULE Lifecycle_proofs --------------------------
(***************************************************************************)
(* Three parts of a process that keep no state in common, for every value  *)
(* of their constants: the CouchDB client's requests, the response cache,  *)
(* and the start of a process with the rows that its models save.          *)
(***************************************************************************)
EXTENDS CouchClient, ResponseCache, Boot, FiniteSetTheorems,
        FunctionTheorems, TLAPS

(***************************************************************************)
(* The CouchDB client.  Between the steps of a request the number of       *)
(* attempts determines what it waits next; a dictionary loses its paging   *)
(* on first use and nothing after that.                                    *)
(***************************************************************************)

\* The library counts subsets by powers of two; with that a power of two is
\* doubled by one more element.
LEMMA Doubling == ASSUME NEW n \in Nat PROVE 2 ^ (n + 1) = 2 * 2 ^ n
<1> DEFINE Low  == SUBSET (1 .. n)
           High == {X \cup {n + 1} : X \in Low}
           f    == [X \in Low |-> X \cup {n + 1}]
<1>1. IsFiniteSet(Low) /\ Cardinality(Low) = 2 ^ n
  <2>1. IsFiniteSet(1 .. n) /\ Cardinality(1 .. n) = n
    BY FS_Interval
  <2> QED
    BY <2>1, FS_SUBSET
<1>2. Cardinality(SUBSET (1 .. n + 1)) = 2 ^ (n + 1)
  <2>1. IsFiniteSet(1 .. n + 1) /\ Cardinality(1 .. n + 1) = n + 1
    BY FS_Interval
  <2> QED
    BY <2>1, FS_SUBSET
<1>3. \A X \in Low : n + 1 \notin X
  OBVIOUS
<1>4. f \in Bijection(Low, High)
  <2>1. f \in [Low -> High]
    OBVIOUS
  <2>2. \A X, Y \in Low : f[X] = f[Y] => X = Y
    <3> SUFFICES ASSUME NEW X \in Low, NEW Y \in Low, f[X] = f[Y]
                 PROVE  X = Y
      OBVIOUS
    <3>1. X \cup {n + 1} = Y \cup {n + 1}
      OBVIOUS
    <3> QED
      BY <1>3, <3>1
  <2>3. \A Z \in High : \E X \in Low : f[X] = Z
    OBVIOUS
  <2> QED
    BY <2>1, <2>2, <2>3, Fun_IsBij
<1>5. IsFiniteSet(High) /\ Cardinality(High) = 2 ^ n
  BY <1>1, <1>4, FS_Bijection DEF ExistsBijection
<1>6. Low \cap High = {}
  BY <1>3
<1>7. Low \cup High = SUBSET (1 .. n + 1)
  <2>1. \A X \in Low : X \subseteq 1 .. n + 1 /\ X \cup {n + 1} \subseteq 1 .. n + 1
    OBVIOUS
  <2>2. ASSUME NEW Z \in SUBSET (1 .. n + 1) PROVE Z \in Low \cup High
    <3>1. CASE n + 1 \in Z
      <4>1. Z \ {n + 1} \in Low /\ Z = (Z \ {n + 1}) \cup {n + 1}
        BY <3>1
      <4> QED
        BY <4>1
    <3>2. CASE n + 1 \notin Z
      BY <3>2
    <3> QED
      BY <3>1, <3>2
  <2>3. ASSUME NEW Z \in Low \cup High PROVE Z \in SUBSET (1 .. n + 1)
    BY <2>1
  <2> HIDE DEF Low, High
  <2> QED
    BY <2>2, <2>3
<1> HIDE DEF Low, High
<1>8. 2 ^ n \in Nat
  BY <1>1, FS_CardinalityType
<1>9. Cardinality(Low \cup High) = Cardinality(Low) + Cardinality(High) - 0
  <2>1. Cardinality(Low \cap High) = 0
    BY <1>6, FS_EmptySet
  <2> QED
    BY <2>1, <1>1, <1>5, FS_Union
<1> QED
  BY <1>1, <1>2, <1>5, <1>7, <1>8, <1>9

CouchTyped ==
  /\ phase \in {"idle", "base", "request", "failed"}
  /\ call \in {"none", "find", "get", "post"}
  /\ uses \in Nat /\ tries \in 0 .. Retries
  /\ backoff \in Nat /\ waited \in Nat /\ stored \in Nat
  /\ told \in {"nothing", "result", "empty", "raised"}

\* What the next step of a request knows of the attempts made so far.
Attempted ==
  /\ phase = "base" => tries = 0 /\ backoff = 1
  /\ phase = "request" => tries < Retries /\ backoff = 2 ^ tries
  /\ phase = "failed" => tries >= 1 /\ backoff = 2 ^ (tries - 1)
  /\ phase # "idle" => told = "nothing"

\* What is left in the caller's dictionary.
Drained ==
  /\ uses = 0 => params = given /\ query = NoQuery
  /\ uses > 0 => params = given \ Paging

CouchInv ==
  CouchTyped /\ Attempted /\ PostsAccountedFor /\ Drained /\ FindsSendAlike

LEMMA PowersStart == 2 ^ 0 = 1
  OBVIOUS

LEMMA CouchStart == CouchInit => CouchInv
  BY CouchAssumption
     DEF CouchInit, CouchInv, CouchTyped, Attempted, PostsAccountedFor, Drained,
         FindsSendAlike

LEMMA RequestStep ==
  CouchInv /\ [CouchNext]_couch => (CouchTyped /\ Attempted /\ PostsAccountedFor)'
<1> DEFINE Good == CouchTyped /\ Attempted /\ PostsAccountedFor
<1> SUFFICES ASSUME CouchInv, [CouchNext]_couch PROVE Good'
  OBVIOUS
<1> USE CouchAssumption
    DEF CouchInv, CouchTyped, Attempted, PostsAccountedFor, asking, executing
<1>1. CASE Find \/ FindRaises \/ GetOrPost
  BY <1>1 DEF Find, FindRaises, GetOrPost, NewRequest
<1>2. ASSUME NEW server, BaseRequest(server) PROVE Good'
  BY <1>2, PowersStart DEF BaseRequest
<1>3. CASE Answered \/ AnsweredOtherwise \/ Refused \/ Unreadable
  BY <1>3 DEF Answered, AnsweredOtherwise, Refused, Unreadable, Reply
<1>4. CASE Failed
  <2>1. tries' - 1 = tries
    BY <1>4 DEF Failed
  <2> QED
    BY <1>4, <2>1 DEF Failed
<1>5. CASE Wait
  <2>1. tries - 1 \in Nat /\ (tries - 1) + 1 = tries
    BY <1>5 DEF Wait
  <2>2. 2 ^ tries = 2 * 2 ^ (tries - 1)
    BY <2>1, Doubling
  <2> QED
    BY <1>5, <2>2 DEF Wait
<1>6. CASE GiveUp
  BY <1>6 DEF GiveUp, Reply
<1>7. CASE UNCHANGED couch
  BY <1>7 DEF couch
<1> QED
  BY <1>1, <1>2, <1>3, <1>4, <1>5, <1>6, <1>7 DEF CouchNext

LEMMA DictionaryStep ==
  CouchInv /\ [CouchNext]_couch => (Drained /\ FindsSendAlike)'
<1> SUFFICES ASSUME CouchInv, [CouchNext]_couch
             PROVE  (Drained /\ FindsSendAlike)'
  OBVIOUS
<1> USE DEF CouchInv, CouchTyped, Drained, FindsSendAlike
<1>1. CASE Find
  <2>1. /\ params' = params \ Paging /\ uses' = uses + 1 /\ given' = given
        /\ query' = GetSelector(params).query
    BY <1>1 DEF Find, GetSelector
  <2>2. query'.selector = {[key |-> k, wrapped |-> k \in Operators]
                             : k \in params \ Paging}
    BY <2>1 DEF GetSelector
  <2>3. query'.options = params \cap Paging
    BY <2>1 DEF GetSelector
  <2>4. \/ uses = 0 /\ uses' = 1 /\ params = given
        \/ uses > 0 /\ uses' > 1 /\ params = given \ Paging
    <3>1. uses \in Nat
      OBVIOUS
    <3> QED
      BY <2>1, <3>1
  <2>5. params \ Paging = given \ Paging
    BY <2>4
  <2>6. query'.options = IF uses' = 1 THEN given \cap Paging ELSE {}
    BY <2>3, <2>4
  <2>7. uses' # 0
    BY <2>4
  <2> QED
    BY <2>1, <2>2, <2>5, <2>6, <2>7
<1>2. CASE FindRaises
  <2>1. /\ params' = params \ Paging /\ uses' = uses + 1 /\ given' = given
        /\ query' = NoQuery
    BY <1>2 DEF FindRaises, GetSelector
  <2>2. params \ Paging = given \ Paging /\ uses' # 0
    BY <2>1
  <2> QED
    BY <2>1, <2>2
<1>3. CASE UNCHANGED asking
  BY <1>3 DEF asking
<1> QED
  BY <1>1, <1>2, <1>3
     DEF CouchNext, GetOrPost, BaseRequest, Answered, AnsweredOtherwise,
         Refused, Unreadable, Failed, Wait, GiveUp, Reply, couch

LEMMA CouchInvariant == CouchSpec => []CouchInv
<1>1. CouchInv /\ [CouchNext]_couch => CouchInv'
  BY RequestStep, DictionaryStep DEF CouchInv
<1> QED
  BY <1>1, CouchStart, PTL DEF CouchSpec

\* _execute_request with any number of retries: nothing but a post stores, at
\* most one document per attempt; the waits double, and a request is given up
\* only after all its attempts.
THEOREM PostsAreAccountedFor == CouchSpec => []PostsAccountedFor
<1>1. CouchInv => PostsAccountedFor
  BY DEF CouchInv
<1> QED
  BY <1>1, CouchInvariant, PTL

\* _get_selector with any fields and operators: however often a dictionary is
\* used, with raising finds in between, every find sends the conditions it was
\* filled with under the keys the caller wrote, suffixes included.
THEOREM FindsAreAlike == CouchSpec => []FindsSendAlike
<1>1. CouchInv => FindsSendAlike
  BY DEF CouchInv
<1> QED
  BY <1>1, CouchInvariant, PTL

(***************************************************************************)
(* The response cache.  Nobody begins a request while the entry is a hit,  *)
(* so whoever may still set or expire it began before it was set.          *)
(***************************************************************************)

CacheTyped ==
  /\ data \in 1 .. MaxVersion /\ age \in [1 .. MaxVersion -> Nat]
  /\ entry \in [version: Nat, empty: BOOLEAN] /\ ttl \in 1 .. Forever
  /\ neglected \in BOOLEAN
  /\ doing \in [Requests -> {"idle", "call", "set", "expire"}]
  /\ lag \in [Requests -> 0 .. MaxLag]
  /\ body \in [Requests -> [version: Nat, empty: BOOLEAN]]

\* What a view has read is out of date for as long as it was read, at most.
BodiesFresh ==
  /\ \A v \in 1 .. MaxVersion : v >= data => age[v] = 0
  /\ \A r \in Requests : doing[r] = "set" =>
       body[r].version \in 1 .. data /\ age[body[r].version] <= lag[r]

\* The entry was out of date by no more than one request took when it was
\* set, and every request now under way had begun by then.
EntryFresh ==
  Hit => /\ entry.version \in 1 .. data
         /\ \A r \in Requests :
              Busy(r) => age[entry.version] <= MaxLag + lag[r]

\* A time to live that was set counts down from there; one that was not will
\* be set by a request under way, if none was lost.
EntryExpires ==
  Hit => /\ ttl # Forever => age[entry.version] + ttl <= EffectiveTtl + 2 * MaxLag
         /\ ttl = Forever /\ ~ neglected =>
              \E r \in Requests : doing[r] = "expire"

CacheInv == CacheTyped /\ BodiesFresh /\ EntryFresh /\ EntryExpires

LEMMA Empty == NoBody \in [version: Nat, empty: BOOLEAN] /\ NoBody.empty
  BY DEF NoBody

LEMMA CacheStart == CacheInit => CacheInv
<1> SUFFICES ASSUME CacheInit PROVE CacheInv
  OBVIOUS
<1>1. CacheTyped
  <2>1. /\ data \in 1 .. MaxVersion /\ age \in [1 .. MaxVersion -> Nat]
        /\ ttl \in 1 .. Forever /\ lag \in [Requests -> 0 .. MaxLag]
    BY CacheAssumption DEF CacheInit, Forever
  <2>2. body \in [Requests -> [version: Nat, empty: BOOLEAN]]
    BY Empty DEF CacheInit
  <2> QED
    BY <2>1, <2>2, Empty DEF CacheInit, CacheTyped
<1>2. BodiesFresh
  BY DEF CacheInit, BodiesFresh
<1>3. EntryFresh /\ EntryExpires
  BY Empty DEF CacheInit, Hit, EntryFresh, EntryExpires
<1> QED
  BY <1>1, <1>2, <1>3 DEF CacheInv

LEMMA TtlBounds == EffectiveTtl \in Nat \ {0} /\ EffectiveTtl < Forever
  BY CacheAssumption DEF EffectiveTtl, Forever

LEMMA CacheStep == CacheInv /\ [CacheNext]_caching => CacheInv'
<1> SUFFICES ASSUME CacheInv, [CacheNext]_caching PROVE CacheInv'
  OBVIOUS
<1>t. Forever \in Nat \ {0}
  BY CacheAssumption DEF Forever
<1> USE CacheAssumption, TtlBounds, Empty
    DEF CacheInv, CacheTyped, origin, redis, Does, Ends, Busy
<1>1. ASSUME NEW r \in Requests, Miss(r) PROVE CacheInv'
  BY <1>1 DEF Miss, Hit, BodiesFresh, EntryFresh, EntryExpires
<1>2. ASSUME NEW r \in Requests, CallView(r) PROVE CacheInv'
  <2>1. PICK new \in [version: {data}, empty: BOOLEAN] :
          body' = [body EXCEPT ![r] = new]
    BY <1>2 DEF CallView
  <2>2. CacheTyped'
    BY <1>2, <2>1 DEF CallView
  <2>3. BodiesFresh'
    BY <1>2, <2>1 DEF CallView, BodiesFresh
  <2>4. EntryFresh' /\ EntryExpires'
    BY <1>2 DEF CallView, Hit, EntryFresh, EntryExpires
  <2> QED
    BY <2>2, <2>3, <2>4
<1>3. ASSUME NEW r \in Requests, CallViewFails(r) PROVE CacheInv'
  <2>1. CacheTyped' /\ BodiesFresh'
    BY SMTT(40), <1>3 DEF CallViewFails, BodiesFresh, NoBody
  <2>2. EntryFresh' /\ EntryExpires'
    BY <1>3 DEF CallViewFails, Hit, EntryFresh, EntryExpires
  <2> QED
    BY <2>1, <2>2
<1>4. ASSUME NEW r \in Requests, Set(r) PROVE CacheInv'
  <2>1. CacheTyped' /\ BodiesFresh'
    BY <1>4, <1>t DEF Set, BodiesFresh
  <2>2. EntryFresh'
    BY <1>4 DEF Set, Hit, BodiesFresh, EntryFresh
  <2>3. EntryExpires'
    BY <1>4 DEF Set, Hit, EntryExpires
  <2> QED
    BY <2>1, <2>2, <2>3
<1>5. ASSUME NEW r \in Requests, SetRaises(r) PROVE CacheInv'
  <2>1. CacheTyped' /\ BodiesFresh'
    <3>1. BodiesFresh'
      BY <1>5 DEF SetRaises, BodiesFresh
    <3>2. /\ entry' \in [version: Nat, empty: BOOLEAN] /\ ttl' \in 1 .. Forever
          /\ neglected' \in BOOLEAN
      <4>1. CASE UNCHANGED redis
        BY <4>1
      <4>2. CASE entry' = body[r] /\ ttl' = Forever /\ neglected' = TRUE
        BY <4>2, <1>t
      <4> QED
        BY <1>5, <4>1, <4>2 DEF SetRaises
    <3> QED
      BY <1>5, <3>1, <3>2 DEF SetRaises
  <2>2. EntryFresh'
    BY SMTT(40), <1>5 DEF SetRaises, Hit, BodiesFresh, EntryFresh
  <2>3. EntryExpires'
    BY <1>5 DEF SetRaises, Hit, EntryExpires
  <2> QED
    BY <2>1, <2>2, <2>3
<1>6. ASSUME NEW r \in Requests, Expire(r) PROVE CacheInv'
  <2>1. CacheTyped' /\ BodiesFresh'
    <3>1. BodiesFresh'
      BY <1>6 DEF Expire, BodiesFresh
    <3>2. ttl' \in 1 .. Forever
      <4>1. ttl' = ttl \/ ttl' = EffectiveTtl
        BY <1>6 DEF Expire
      <4> QED
        BY <4>1, <1>t
    <3>3. body' \in [Requests -> [version: Nat, empty: BOOLEAN]]
      BY <1>6 DEF Expire
    <3>4. /\ lag' \in [Requests -> 0 .. MaxLag] /\ neglected' = FALSE
          /\ doing' \in [Requests -> {"idle", "call", "set", "expire"}]
      BY <1>6 DEF Expire
    <3>5. UNCHANGED <<data, age, entry>>
      BY <1>6 DEF Expire
    <3> QED
      BY <3>1, <3>2, <3>3, <3>4, <3>5
  <2>2. EntryFresh'
    BY <1>6 DEF Expire, Hit, EntryFresh
  <2>3. EntryExpires'
    <3> SUFFICES ASSUME Hit'
                 PROVE  /\ ttl' = EffectiveTtl
                        /\ age[entry.version] <= MaxLag + MaxLag
      BY SMTT(40), <1>6 DEF Expire, EntryExpires, Hit, EntryFresh
    <3>1. Hit /\ entry # NoBody
      BY <1>6 DEF Expire, Hit
    <3>2. ttl' = EffectiveTtl
      BY <1>6, <3>1 DEF Expire
    <3>3. Busy(r) /\ lag[r] \in 0 .. MaxLag
      BY <1>6 DEF Expire
    <3>4. age[entry.version] \in Nat /\ age[entry.version] <= MaxLag + lag[r]
      BY <3>1, <3>3 DEF EntryFresh
    <3> QED
      BY <3>2, <3>3, <3>4
  <2> QED
    BY <2>1, <2>2, <2>3
<1>7. ASSUME NEW r \in Requests, ExpireRaises(r) PROVE CacheInv'
  <2>1. CacheTyped' /\ BodiesFresh'
    BY SMTT(40), <1>7 DEF ExpireRaises, BodiesFresh, NoBody
  <2>2. EntryFresh' /\ EntryExpires'
    BY <1>7 DEF ExpireRaises, Hit, EntryFresh, EntryExpires
  <2> QED
    BY <2>1, <2>2
<1>8. CASE Pass
  <2>1. /\ \A v \in 1 .. MaxVersion :
             /\ age'[v] \in Nat /\ age'[v] <= age[v] + 1
             /\ v >= data => age'[v] = age[v]
        /\ age' \in [1 .. MaxVersion -> Nat]
    BY SMTT(40), <1>8 DEF Pass
  <2>2. /\ \A r \in Requests : Busy(r) => lag'[r] = lag[r] + 1
        /\ lag' \in [Requests -> 0 .. MaxLag]
    BY <1>8 DEF Pass
  <2>3. UNCHANGED <<data, doing, body>>
    BY <1>8 DEF Pass
  <2>4. \/ /\ ttl = 1 /\ entry' = NoBody /\ ttl' = Forever /\ neglected' = FALSE
        \/ /\ ttl # 1 /\ UNCHANGED <<entry, neglected>>
           /\ ttl' = IF ttl = Forever THEN ttl ELSE ttl - 1
    BY <1>8 DEF Pass
  <2>5. CacheTyped'
    <3>1. entry' \in [version: Nat, empty: BOOLEAN] /\ neglected' \in BOOLEAN
      <4>1. CASE entry' = NoBody /\ neglected' = FALSE
        BY <4>1
      <4>2. CASE UNCHANGED <<entry, neglected>>
        BY <4>2
      <4> QED
        BY <2>4, <4>1, <4>2
    <3>2. ttl' \in 1 .. Forever
      BY <2>4, <1>t
    <3> QED
      BY <2>1, <2>2, <2>3, <3>1, <3>2
  <2>6. BodiesFresh'
    <3>1. \A v \in 1 .. MaxVersion : v >= data' => age'[v] = 0
      BY <2>1, <2>3 DEF BodiesFresh
    <3>2. ASSUME NEW r \in Requests, doing[r] = "set"
          PROVE  /\ body[r].version \in 1 .. data
                 /\ age'[body[r].version] <= lag'[r]
      <4>1. /\ body[r].version \in 1 .. MaxVersion /\ lag[r] \in Nat
            /\ body[r].version \in 1 .. data
            /\ age[body[r].version] <= lag[r] /\ lag'[r] = lag[r] + 1
        BY <2>2, <3>2 DEF BodiesFresh
      <4> DEFINE v == body[r].version
      <4> HIDE DEF v
      <4>2. age'[v] <= age[v] + 1 /\ age'[v] \in Nat /\ age[v] \in Nat
        BY <2>1, <4>1 DEF v
      <4> QED
        BY SMTT(40), <4>1, <4>2 DEF v
    <3> QED
      BY <2>3, <3>1, <3>2 DEF BodiesFresh
  <2>7. ASSUME Hit'
        PROVE  /\ Hit /\ entry' = entry /\ entry.version \in 1 .. data
               /\ entry.version \in 1 .. MaxVersion /\ neglected' = neglected
               /\ ttl' = IF ttl = Forever THEN ttl ELSE ttl - 1
    BY <2>4, <2>7 DEF Hit, EntryFresh
  <2> DEFINE e == entry.version
  <2>8. ASSUME Hit'
        PROVE  /\ age'[e] \in Nat /\ age[e] \in Nat /\ age'[e] <= age[e] + 1
               /\ entry'.version = e
    BY <2>1, <2>7, <2>8
  <2>9. EntryFresh'
    <3> SUFFICES ASSUME Hit', NEW r \in Requests, Busy(r)
                 PROVE  age'[e] <= MaxLag + lag'[r]
      BY <2>3, <2>7, <2>8 DEF EntryFresh
    <3>1. age[e] <= MaxLag + lag[r]
      BY <2>7 DEF EntryFresh
    <3> HIDE DEF e
    <3> QED
      BY SMTT(40), <2>2, <2>8, <3>1
  <2>10. EntryExpires'
    <3>1. ASSUME Hit', ttl' # Forever
          PROVE  age'[e] + ttl' <= EffectiveTtl + 2 * MaxLag
      <4>1. ttl' = ttl - 1 /\ age[e] + ttl <= EffectiveTtl + 2 * MaxLag
        BY <2>7, <3>1 DEF EntryExpires
      <4> HIDE DEF e
      <4> QED
        BY SMTT(40), <2>8, <3>1, <4>1
    <3>2. ASSUME Hit', ttl' = Forever, ~ neglected'
          PROVE  \E r \in Requests : doing'[r] = "expire"
      <4>1. ttl = Forever
        BY <2>7, <3>2, <1>t
      <4> QED
        BY <2>3, <2>7, <3>2, <4>1 DEF EntryExpires
    <3> QED
      BY <2>8, <3>1, <3>2 DEF EntryExpires
  <2> QED
    BY <2>5, <2>6, <2>9, <2>10
<1>9. CASE DataChanges
  BY <1>9 DEF DataChanges, Hit, BodiesFresh, EntryFresh, EntryExpires
<1>10. CASE RedisForgets
  <2>1. /\ entry' = NoBody /\ ttl' = Forever /\ neglected' = FALSE
        /\ UNCHANGED <<data, age, doing, lag, body>>
    BY <1>10 DEF RedisForgets
  <2>2. CacheTyped'
    <3>1. entry' \in [version: Nat, empty: BOOLEAN] /\ neglected' \in BOOLEAN
      BY <2>1
    <3>2. ttl' \in 1 .. Forever
      BY <2>1, <1>t
    <3> QED
      BY <2>1, <3>1, <3>2
  <2>3. BodiesFresh' /\ ~ Hit'
    BY <2>1 DEF BodiesFresh, Hit
  <2> QED
    BY <2>2, <2>3 DEF EntryFresh, EntryExpires
<1>11. CASE UNCHANGED caching
  BY <1>11 DEF caching, Hit, BodiesFresh, EntryFresh, EntryExpires
<1> QED
  BY <1>1, <1>2, <1>3, <1>4, <1>5, <1>6, <1>7, <1>8, <1>9, <1>10, <1>11
     DEF CacheNext

LEMMA CacheInvariant == CacheSpec => []CacheInv
  BY CacheStart, CacheStep, PTL DEF CacheSpec

\* The decorator cache with set and expire apart, for any number of requests,
\* any ttl and any changes of the data: an answer from the cache is not out
\* of date by more than the ttl and two requests, unless an expire was lost.
THEOREM CacheIsFresh == CacheSpec => []ServedWithin
<1>1. CacheInv => ServedWithin
  <2> SUFFICES ASSUME CacheInv, Hit, ~ neglected
               PROVE  age[entry.version] < EffectiveTtl + 2 * MaxLag
    BY DEF ServedWithin
  <2> USE CacheAssumption, TtlBounds DEF CacheInv, CacheTyped
  <2>1. age[entry.version] \in Nat
    BY DEF EntryFresh
  <2>2. CASE ttl # Forever
    BY <2>1, <2>2 DEF EntryExpires
  <2>3. CASE ttl = Forever
    <3>1. PICK r \in Requests : doing[r] = "expire"
      BY <2>3 DEF EntryExpires
    <3>2. age[entry.version] <= MaxLag + lag[r] /\ lag[r] \in 0 .. MaxLag
      BY <3>1 DEF EntryFresh, Busy
    <3> QED
      BY <2>1, <3>2
  <2> QED
    BY <2>2, <2>3
<1> QED
  BY <1>1, CacheInvariant, PTL

(***************************************************************************)
(* The start of a process.                                                 *)
(***************************************************************************)

RowType == [id: Nat, created: Nat, updated: Nat, href: Nat]

BootTyped ==
  /\ stage \in {"embed", "app", "credentials", "celery", "exclusive", "register",
                "load", "views", "zmq", "mqtt", "backend", "watchdog",
                "serving", "raised", "exited"}
  /\ watchdogs \in Nat /\ handlers \in {0, 1}
  /\ mapper \in [Models -> {"absent", "defined", "configured"}]
  /\ listening \in SUBSET Models
  /\ object \in [Models -> RowType] /\ saved \in [Models -> RowType]
  /\ state \in [Models -> {"new", "inserted", "saved", "changed"}]
  /\ now \in Nat \ {0} /\ ids \in Nat

\* The listeners are registered before any view is loaded, and in test mode,
\* where they are not, nothing defines a model.
ListenersFirst ==
  /\ stage \in {"load", "views", "zmq", "mqtt", "backend", "watchdog"} =>
       handlers = 1
  /\ stage \in {"embed", "app"} => \A m \in Models : mapper[m] = "absent"
  /\ stage = "serving" =>
       handlers = 1 \/ \A m \in Models : mapper[m] = "absent"

\* So a mapper in use has them, and is of an EnvoxyBase; objects are made and
\* saved of no other.
Listened ==
  /\ \A m \in Models : mapper[m] = "configured" => m \in listening \ Foreign
  /\ \A m \in Models : state[m] # "new" => m \in listening \ Foreign

\* A row as the listeners leave it.
Stamped(row) ==
  /\ row.id \in 1 .. ids /\ row.href \in {row.id, Custom}
  /\ row.created \in 1 .. row.updated /\ row.updated <= now

\* An object before, between and after its saves.
RowKept(m) ==
  /\ state[m] = "new" =>
       /\ saved[m] = NoRow
       /\ object[m].id \in 0 .. ids /\ object[m].created <= now
       /\ object[m].href \in {0, object[m].id, Custom}
  /\ state[m] = "inserted" => saved[m] = NoRow /\ Stamped(object[m])
  /\ state[m] = "saved" => saved[m] = object[m] /\ Stamped(object[m])
  /\ state[m] = "changed" =>
       /\ Stamped(saved[m]) /\ Stamped(object[m])
       /\ object[m].id = saved[m].id /\ object[m].href = saved[m].href

IdsDiffer ==
  \A m, n \in Models : m # n /\ object[m].id = object[n].id => object[m].id = 0

BootInv ==
  /\ BootTyped /\ OneWatchdog /\ ListenersFirst /\ Listened
  /\ \A m \in Models : RowKept(m)
  /\ IdsDiffer

LEMMA BootStart == BootInit => BootInv
<1> SUFFICES ASSUME BootInit PROVE BootInv
  OBVIOUS
<1> USE BootAssumption DEF BootInit
<1>1. NoRow \in RowType
  BY DEF NoRow, RowType
<1>2. BootTyped
  BY <1>1 DEF BootTyped
<1>3. OneWatchdog /\ ListenersFirst /\ Listened
  BY DEF OneWatchdog, ListenersFirst, Listened
<1>4. ASSUME NEW m \in Models PROVE RowKept(m)
  <2>1. state[m] = "new" /\ saved[m] = NoRow /\ object[m] = NoRow
    OBVIOUS
  <2> QED
    BY <2>1 DEF RowKept, NoRow
<1>5. IdsDiffer
  BY DEF IdsDiffer, NoRow
<1> QED
  BY <1>2, <1>3, <1>4, <1>5 DEF BootInv

\* What a row's part of the invariant reads.
LEMMA RowsUntouched ==
  ASSUME BootInv, UNCHANGED rows
  PROVE  (\A m \in Models : RowKept(m))' /\ IdsDiffer'
BY DEF BootInv, rows, RowKept, IdsDiffer, Stamped

\* A watchdog is started only where there is none.
LEMMA StartsOne ==
  ASSUME watchdogs \in Nat, watchdogs <= 1, WatchdogStart
  PROVE  watchdogs' \in Nat /\ watchdogs' <= 1
BY DEF WatchdogStart

LEMMA DefiningTyped ==
  ASSUME BootTyped, DefinesModels
  PROVE  /\ mapper' \in [Models -> {"absent", "defined", "configured"}]
         /\ \A m \in Models : mapper'[m] = "configured" => mapper[m] = "configured"
BY DEF BootTyped, DefinesModels

\* The steps of the start.
LEMMA StartStep ==
  ASSUME BootInv,
         \/ EmbedHook \/ CreateApp \/ Authenticate \/ InitializeCelery
         \/ RefuseBoth \/ RegisterListeners \/ LoadViews \/ SetFlask
         \/ InitializeZmq \/ InitializeMqtt \/ DefaultBackend \/ BootstrapWatchdog
  PROVE  BootInv'
<1> USE BootAssumption DEF To
<1>1. UNCHANGED <<conf, rows, listening>>
  BY DEF EmbedHook, CreateApp, Authenticate, InitializeCelery, RefuseBoth,
         RegisterListeners, LoadViews, SetFlask, InitializeZmq, InitializeMqtt,
         DefaultBackend, BootstrapWatchdog, starting, mapping
<1>2. (\A m \in Models : RowKept(m))' /\ IdsDiffer'
  BY <1>1, RowsUntouched
<1>3. /\ watchdogs \in Nat /\ watchdogs <= 1
      /\ watchdogs = 1 => "embed_keep_alive" \in conf \/ AllowedToStart
      /\ AllowedToStart' = AllowedToStart
  BY <1>1 DEF BootInv, BootTyped, OneWatchdog, AllowedToStart
<1>4. watchdogs' \in Nat /\ OneWatchdog'
  <2>1. CASE EmbedHook
    BY <1>1, <1>3, <2>1, StartsOne DEF EmbedHook, OneWatchdog
  <2>2. CASE BootstrapWatchdog
    BY <1>1, <1>3, <2>2, StartsOne DEF BootstrapWatchdog, OneWatchdog
  <2>3. CASE UNCHANGED watchdogs
    BY <1>1, <1>3, <2>3 DEF OneWatchdog
  <2> QED
    BY <2>1, <2>2, <2>3
       DEF CreateApp, Authenticate, InitializeCelery, RefuseBoth,
           RegisterListeners, LoadViews, SetFlask, InitializeZmq,
           InitializeMqtt, DefaultBackend, starting
<1>5. /\ mapper' \in [Models -> {"absent", "defined", "configured"}]
      /\ \A m \in Models : mapper'[m] = "configured" => mapper[m] = "configured"
      /\ \/ UNCHANGED mapper
         \/ stage \in {"celery", "load"} /\ stage' # "serving"
  <2>1. CASE UNCHANGED mapper
    BY <2>1 DEF BootInv, BootTyped
  <2>2. CASE DefinesModels /\ (InitializeCelery \/ LoadViews)
    BY <2>2, DefiningTyped DEF BootInv, InitializeCelery, LoadViews
  <2> QED
    BY <2>1, <2>2
       DEF EmbedHook, CreateApp, Authenticate, InitializeCelery, RefuseBoth,
           RegisterListeners, LoadViews, SetFlask, InitializeZmq,
           InitializeMqtt, DefaultBackend, BootstrapWatchdog, mapping
<1>6. BootTyped'
  <2>1. handlers' \in {0, 1}
    BY DEF BootInv, BootTyped, EmbedHook, CreateApp, Authenticate,
           InitializeCelery, RefuseBoth, RegisterListeners, LoadViews, SetFlask,
           InitializeZmq, InitializeMqtt, DefaultBackend, BootstrapWatchdog,
           starting
  <2>2. stage' \in {"embed", "app", "credentials", "celery", "exclusive",
                    "register", "load", "views", "zmq", "mqtt", "backend",
                    "watchdog", "serving", "raised", "exited"}
    BY DEF EmbedHook, CreateApp, Authenticate, InitializeCelery, RefuseBoth,
           RegisterListeners, LoadViews, SetFlask, InitializeZmq,
           InitializeMqtt, DefaultBackend, BootstrapWatchdog
  <2> QED
    BY <1>1, <1>4, <1>5, <2>1, <2>2 DEF BootInv, BootTyped, rows
<1>7. ListenersFirst'
  <2> USE DEF BootInv, ListenersFirst
  <2>1. CASE EmbedHook
    BY <2>1 DEF EmbedHook, mapping
  <2>2. CASE CreateApp
    BY <2>2 DEF CreateApp, starting, mapping
  <2>3. CASE Authenticate \/ InitializeCelery \/ RefuseBoth
    BY <2>3 DEF Authenticate, InitializeCelery, RefuseBoth
  <2>4. CASE RegisterListeners
    BY <2>4 DEF RegisterListeners, BootTyped
  <2>5. CASE LoadViews \/ SetFlask \/ InitializeZmq \/ InitializeMqtt
             \/ DefaultBackend
    BY <2>5 DEF LoadViews, SetFlask, InitializeZmq, InitializeMqtt,
                DefaultBackend, starting
  <2>6. CASE BootstrapWatchdog
    BY <2>6 DEF BootstrapWatchdog
  <2> QED
    BY <2>1, <2>2, <2>3, <2>4, <2>5, <2>6
<1>8. Listened'
  BY <1>1, <1>5 DEF BootInv, Listened, rows
<1> QED
  BY <1>2, <1>4, <1>6, <1>7, <1>8 DEF BootInv

LEMMA TickStep == ASSUME BootInv, Tick PROVE BootInv'
<1> USE BootAssumption DEF Tick, starting, mapping
<1>1. BootTyped' /\ OneWatchdog' /\ ListenersFirst' /\ Listened' /\ IdsDiffer'
  BY DEF BootInv, BootTyped, OneWatchdog, AllowedToStart, ListenersFirst,
         Listened, IdsDiffer
<1>2. ASSUME NEW m \in Models PROVE RowKept(m)'
  <2>1. RowKept(m) /\ UNCHANGED <<object, saved, state, ids>> /\ now' = now + 1
    BY DEF BootInv
  <2>2. /\ object[m] \in RowType /\ saved[m] \in RowType /\ now \in Nat
    BY DEF BootInv, BootTyped
  <2> QED
    BY <2>1, <2>2 DEF RowKept, Stamped, RowType
<1> QED
  BY <1>1, <1>2 DEF BootInv

LEMMA ConfigureStep ==
  ASSUME BootInv, NEW m \in Models, Configure(m) PROVE BootInv'
<1> USE BootAssumption
<1>1. /\ UNCHANGED <<conf, watchdogs, zmq, handlers, stage, rows>>
      /\ mapper' = [mapper EXCEPT ![m] = "configured"] /\ mapper[m] = "defined"
  BY DEF Configure, starting
<1>2. handlers = 1 /\ m \notin Foreign /\ listening' = listening \cup {m}
  BY DEF Configure, BootInv, BootTyped, ListenersFirst
<1>3. BootTyped'
  BY <1>1, <1>2 DEF BootInv, BootTyped, rows
<1>4. OneWatchdog'
  BY <1>1 DEF BootInv, OneWatchdog, AllowedToStart
<1>5. ListenersFirst'
  BY <1>1, <1>2 DEF BootInv, ListenersFirst, Configure
<1>6. Listened'
  BY <1>1, <1>2 DEF BootInv, BootTyped, Listened, rows
<1> QED
  BY <1>1, <1>3, <1>4, <1>5, <1>6, RowsUntouched DEF BootInv

\* What one row's step leaves alone is another's part of the invariant: it
\* is enough to look at the row.
LEMMA RowStep ==
  ASSUME BootInv, NEW m \in Models,
         UNCHANGED <<starting, stage, mapping, now>>,
         NEW row \in RowType, object' = [object EXCEPT ![m] = row],
         NEW kept \in RowType, saved' = [saved EXCEPT ![m] = kept],
         NEW s \in {"new", "inserted", "saved", "changed"},
         state' = [state EXCEPT ![m] = s],
         ids' \in Nat, ids <= ids', m \in listening \ Foreign,
         RowKept(m)',
         row.id = object[m].id \/ row.id > ids
  PROVE  BootInv'
<1> USE BootAssumption DEF starting, mapping
<1>1. BootTyped'
  <2>1. object' \in [Models -> RowType] /\ saved' \in [Models -> RowType]
    BY DEF BootInv, BootTyped
  <2>2. state' \in [Models -> {"new", "inserted", "saved", "changed"}]
    BY DEF BootInv, BootTyped
  <2> QED
    BY <2>1, <2>2 DEF BootInv, BootTyped
<1>2. OneWatchdog' /\ ListenersFirst'
  BY DEF BootInv, OneWatchdog, AllowedToStart, ListenersFirst
<1>3. Listened'
  BY DEF BootInv, BootTyped, Listened
<1>4. \A n \in Models \ {m} : /\ object'[n] = object[n] /\ saved'[n] = saved[n]
                              /\ state'[n] = state[n]
  BY DEF BootInv, BootTyped
<1>5. object'[m] = row
  BY DEF BootInv, BootTyped
<1>6. \A n \in Models : object[n].id \in 0 .. ids
  BY DEF BootInv, BootTyped, RowKept, Stamped, RowType
<1>7. ASSUME NEW n \in Models PROVE RowKept(n)'
  <2>1. CASE n = m
    BY <2>1
  <2>2. CASE n # m
    <3>1. RowKept(n) /\ ids \in Nat /\ now' = now
      BY DEF BootInv, BootTyped
    <3>2. object[n] \in RowType /\ saved[n] \in RowType
      BY DEF BootInv, BootTyped
    <3> QED
      BY <1>4, <2>2, <3>1, <3>2 DEF RowKept, Stamped, RowType
  <2> QED
    BY <2>1, <2>2
<1>8. IdsDiffer'
  <2> SUFFICES ASSUME NEW n \in Models, n # m, row.id = object[n].id
               PROVE  row.id = 0
    BY <1>4, <1>5 DEF IdsDiffer, BootInv
  <2> QED
    BY <1>6 DEF IdsDiffer, BootInv, BootTyped
<1> QED
  BY <1>1, <1>2, <1>3, <1>7, <1>8 DEF BootInv

LEMMA SavingStep ==
  ASSUME BootInv, NEW m \in Models,
         Prepare(m) \/ Insert(m) \/ Update(m) \/ CommitRow(m) \/ RollbackRow(m)
  PROVE  BootInv'
<1> USE BootAssumption
<1> DEFINE old == object[m]
<1>1. /\ UNCHANGED <<starting, stage, mapping, now>>
      /\ ids \in Nat /\ now \in Nat /\ Custom \in Nat
      /\ old \in RowType /\ saved[m] \in RowType /\ RowKept(m)
      /\ old.id \in Nat /\ old.created \in Nat /\ old.href \in Nat
      /\ old.updated \in Nat
      /\ object = [object EXCEPT ![m] = old]
      /\ saved = [saved EXCEPT ![m] = saved[m]]
      /\ state = [state EXCEPT ![m] = state[m]]
  BY DEF BootInv, BootTyped, RowType, Custom, Prepare, Insert, Update, CommitRow,
         RollbackRow
<1>2. m \in listening \ Foreign
  BY DEF BootInv, Listened, Prepare, Insert, Update, CommitRow, RollbackRow,
         Usable
<1>3. \A r : /\ (object' = [object EXCEPT ![m] = r]) => object'[m] = r
             /\ (saved' = [saved EXCEPT ![m] = r]) => saved'[m] = r
             /\ (state' = [state EXCEPT ![m] = r]) => state'[m] = r
  BY DEF BootInv, BootTyped
<1>4. CASE Prepare(m)
  <2>1. PICK id \in {0, ids + 1}, href \in {0, Custom} :
          /\ object' = [object EXCEPT ![m].id = id, ![m].href = href]
          /\ ids' = IF id = 0 THEN ids ELSE id
    BY <1>4 DEF Prepare
  <2> DEFINE row == [old EXCEPT !.id = id, !.href = href]
  <2>2. object' = [object EXCEPT ![m] = row]
    BY <2>1 DEF BootInv, BootTyped
  <2>3. row \in RowType /\ row.id = id /\ row.href = href
    <3>1. id \in Nat /\ href \in Nat
      BY <1>1
    <3> QED
      BY <1>1, <3>1 DEF RowType
  <2>4. row.created = old.created
    BY <1>1 DEF RowType
  <2>5. /\ state[m] = "new" /\ saved[m] = NoRow /\ old = NoRow
        /\ UNCHANGED <<state, saved>>
    BY <1>1, <1>4 DEF Prepare, RowKept
  <2>6. ids' \in Nat /\ ids <= ids' /\ id \in 0 .. ids'
        /\ (id = old.id \/ id > ids)
    BY <1>1, <2>1, <2>5 DEF NoRow
  <2>7. RowKept(m)'
    <3>1. state'[m] = "new" /\ saved'[m] = NoRow /\ object'[m] = row
      BY <1>3, <2>2, <2>5
    <3>2. row.created <= now' /\ row.href \in {0, Custom}
      BY <1>1, <2>3, <2>5, <2>4 DEF NoRow
    <3> HIDE DEF row
    <3> QED
      BY <2>3, <2>6, <3>1, <3>2 DEF RowKept
  <2> HIDE DEF row
  <2> QED
    BY <1>1, <1>2, <2>2, <2>3, <2>5, <2>6, <2>7, RowStep
<1>5. CASE Insert(m)
  <2> DEFINE row == BeforeInsert(old)
             id  == IF old.id = 0 THEN ids + 1 ELSE old.id
  <2>1. /\ state[m] = "new" /\ saved[m] = NoRow /\ UNCHANGED saved
        /\ state' = [state EXCEPT ![m] = "inserted"]
        /\ old.id \in 0 .. ids /\ old.created <= now
        /\ old.href \in {0, old.id, Custom}
    BY <1>1, <1>5 DEF Insert, RowKept
  <2>2. object' = [object EXCEPT ![m] = row]
    BY <1>2, <1>5 DEF Insert
  <2>3. /\ row.id = id /\ row.updated = now
        /\ row.created = (IF old.created = 0 THEN now ELSE old.created)
        /\ row.href = (IF old.href = 0 THEN id ELSE old.href)
        /\ row \in RowType
    BY <1>1 DEF BeforeInsert, RowType
  <2>4. ids' = IF row.id > ids THEN row.id ELSE ids
    BY <1>3, <1>5, <2>2 DEF Insert
  <2>5. /\ ids' \in Nat /\ ids <= ids' /\ id \in 1 .. ids'
        /\ id = old.id \/ id > ids
    BY <1>1, <2>1, <2>3, <2>4
  <2> HIDE DEF row
  <2>6. RowKept(m)'
    <3>1. state'[m] = "inserted" /\ saved'[m] = NoRow /\ object'[m] = row
      BY <1>3, <2>1, <2>2
    <3>2. row.created \in 1 .. row.updated /\ row.updated <= now'
      BY <1>1, <2>1, <2>3 DEF BootInv, BootTyped
    <3>3. row.id \in 1 .. ids' /\ row.href \in {row.id, Custom}
      BY <1>1, <2>1, <2>3, <2>5
    <3> QED
      BY <3>1, <3>2, <3>3 DEF RowKept, Stamped
  <2> QED
    BY <1>1, <1>2, <2>1, <2>2, <2>3, <2>5, <2>6, RowStep
<1>6. CASE Update(m)
  <2> DEFINE row == BeforeUpdate(old)
  <2>1. /\ state[m] = "saved" /\ saved[m] = old /\ UNCHANGED <<saved, ids>>
        /\ state' = [state EXCEPT ![m] = "changed"] /\ Stamped(old)
    BY <1>1, <1>6 DEF Update, RowKept
  <2>2. object' = [object EXCEPT ![m] = row]
    BY <1>2, <1>6 DEF Update
  <2>3. /\ row.id = old.id /\ row.updated = now /\ row.created = old.created
        /\ row.href = old.href /\ row \in RowType
    BY <1>1 DEF BeforeUpdate, RowType
  <2> HIDE DEF row
  <2>4. RowKept(m)'
    <3>1. state'[m] = "changed" /\ saved'[m] = old /\ object'[m] = row
      BY <1>3, <2>1, <2>2
    <3> QED
      BY <1>1, <2>1, <2>3, <3>1 DEF RowKept, Stamped
  <2>5. /\ ids' \in Nat /\ ids <= ids' /\ row.id = object[m].id
        /\ saved' = [saved EXCEPT ![m] = saved[m]]
    BY <1>1, <2>1, <2>3
  <2> QED
    BY <1>1, <1>2, <2>1, <2>2, <2>3, <2>4, <2>5, RowStep
<1>7. CASE CommitRow(m)
  <2>1. /\ state[m] \in {"inserted", "changed"} /\ UNCHANGED <<object, ids>>
        /\ state' = [state EXCEPT ![m] = "saved"]
        /\ saved' = [saved EXCEPT ![m] = old] /\ Stamped(old)
    BY <1>1, <1>7 DEF CommitRow, RowKept
  <2>2. RowKept(m)'
    BY <1>1, <1>3, <2>1 DEF RowKept, Stamped
  <2>3. /\ ids' \in Nat /\ ids <= ids'
        /\ object' = [object EXCEPT ![m] = old]
    BY <1>1, <2>1
  <2> QED
    BY <1>1, <1>2, <2>1, <2>2, <2>3, RowStep
<1>8. CASE RollbackRow(m)
  <2>1. CASE state[m] = "inserted"
    <3>1. /\ UNCHANGED <<object, saved, ids>> /\ saved[m] = NoRow
          /\ state' = [state EXCEPT ![m] = "new"] /\ Stamped(old)
      BY <1>1, <1>8, <2>1 DEF RollbackRow, RowKept
    <3>2. RowKept(m)'
      BY <1>1, <1>3, <3>1 DEF RowKept, Stamped
    <3>3. /\ ids' \in Nat /\ ids <= ids'
          /\ object' = [object EXCEPT ![m] = old]
          /\ saved' = [saved EXCEPT ![m] = saved[m]]
      BY <1>1, <3>1
    <3> QED
      BY <1>1, <1>2, <3>1, <3>2, <3>3, RowStep
  <2>2. CASE state[m] = "changed"
    <3>1. /\ object' = [object EXCEPT ![m] = saved[m]] /\ UNCHANGED <<saved, ids>>
          /\ state' = [state EXCEPT ![m] = "saved"] /\ Stamped(saved[m])
          /\ saved[m].id = old.id
      BY <1>1, <1>8, <2>2 DEF RollbackRow, RowKept
    <3>2. RowKept(m)'
      BY <1>1, <1>3, <3>1 DEF RowKept, Stamped
    <3>3. /\ ids' \in Nat /\ ids <= ids' /\ saved[m].id = object[m].id
          /\ saved' = [saved EXCEPT ![m] = saved[m]]
      BY <1>1, <3>1
    <3> QED
      BY <1>1, <1>2, <3>1, <3>2, <3>3, RowStep
  <2> QED
    BY <1>8, <2>1, <2>2 DEF RollbackRow
<1> QED
  BY <1>4, <1>5, <1>6, <1>7, <1>8

LEMMA BootStep == BootInv /\ [BootNext]_boot => BootInv'
<1> SUFFICES ASSUME BootInv, [BootNext]_boot PROVE BootInv'
  OBVIOUS
<1>1. CASE UNCHANGED boot
  <2>1. BootTyped' /\ OneWatchdog' /\ ListenersFirst' /\ Listened'
    BY <1>1 DEF boot, starting, mapping, rows, BootInv, BootTyped, OneWatchdog,
                AllowedToStart, ListenersFirst, Listened
  <2> QED
    BY <1>1, <2>1, RowsUntouched DEF boot, BootInv
<1>2. CASE BootNext
  BY <1>2, StartStep, TickStep, ConfigureStep, SavingStep DEF BootNext
<1> QED
  BY <1>1, <1>2

LEMMA BootInvariant == BootSpec => []BootInv
  BY BootStart, BootStep, PTL DEF BootSpec

\* The hook and the bootstrap both start a watchdog (vendors/envoxyd/run.py):
\* under any configuration a process has one thread at most, and none unless
\* one of the two was to start it.
THEOREM ServesWithOneWatchdog == BootSpec => []OneWatchdog
<1>1. BootInv => OneWatchdog
  BY DEF BootInv
<1> QED
  BY <1>1, BootInvariant, PTL

\* Registered before the views are loaded, the listeners of
\* envoxy/db/orm/listeners.py stamp every row of any number of models, through
\* any number of rollbacks; a class that is no EnvoxyBase saves none.
THEOREM SavedRowsStamped == BootSpec => []RowsStamped
<1>1. BootInv => RowsStamped
  <2> SUFFICES ASSUME BootInv, NEW m \in Models,
                      saved[m] # NoRow \/ state[m] = "saved"
               PROVE  /\ m \notin Foreign
                      /\ saved[m].id \in 1 .. ids
                      /\ saved[m].href \in {saved[m].id, Custom}
                      /\ saved[m].created \in 1 .. saved[m].updated
                      /\ object[m].id = saved[m].id
                      /\ object[m].href = saved[m].href
                      /\ \A n \in Models \ {m} : object[n].id # saved[m].id
    BY DEF RowsStamped
  <2> USE DEF BootInv
  <2>1. state[m] \in {"saved", "changed"} /\ m \notin Foreign
    BY DEF BootTyped, RowKept, Listened
  <2>2. /\ Stamped(saved[m]) /\ object[m].id = saved[m].id
        /\ object[m].href = saved[m].href
    BY <2>1 DEF RowKept
  <2>3. \A n \in Models \ {m} : object[n].id # saved[m].id
    BY <2>2 DEF IdsDiffer, Stamped, BootTyped
  <2> QED
    BY <2>1, <2>2, <2>3 DEF Stamped
<1> QED
  BY <1>1, BootInvariant, PTL
=============================================================================
