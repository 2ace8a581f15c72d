--------------------------- MODULE PipelineProofs ---------------------------
(* For any number of concurrent calls, inputs, collectors, cache capacity  *)
(* and TTL: the decision cache stays bounded, holds under each key what    *)
(* was made for it, and Decide implements DecisionService.                 *)
EXTENDS Pipeline, ListProofs

\* The provers get more than their usual time.
USE SMTT(60)

\* A decision that may be served to a request with input i.
Good(d, i) == /\ d \in Decisions
              /\ CacheKey(d.input) = CacheKey(i)
              /\ d.reports = InOrder

\* What each request holds, by where it is; a filled slot holds its own report.
LocalOK(r) == /\ pc[r] \in {"idle", "lookup", "evict", "collect"} => got[r] = NoDecision
              /\ pc[r] \in {"check", "store", "answered"} => Good(got[r], inp[r])
              /\ \A c \in Slots : slots[r][c] \in {0, c}
IInv == TypeOK /\ CacheBounded /\ EntriesBelong /\ \A r \in Requests : LocalOK(r)

\* The cache key of an input is one of the key space.
LEMMA KeyInSpace == \A i \in Inputs : CacheKey(i) \in KeySpace
BY DEF CacheKey, KeySpace, Tokens

\* The initial states satisfy the invariant: the cache and the requests are empty.
LEMMA InitOK == Init => IInv
<1> SUFFICES ASSUME Init PROVE IInv
    OBVIOUS
<1>1. order \in Seq(KeySpace) /\ Len(order) = 0 /\ Distinct(order) /\ Range(order) = {}
      BY DEF Init, Distinct, Range
<1>2. TypeOK
      BY <1>1, PipelineAssumption DEF Init, TypeOK, Times, NoReports, Slots
<1>3. CacheBounded /\ EntriesBelong
      BY <1>1, PipelineAssumption DEF Init, CacheBounded, EntriesBelong
<1>4. ASSUME NEW r \in Requests PROVE LocalOK(r)
      BY DEF Init, LocalOK, NoReports
<1> QED BY <1>2, <1>3, <1>4 DEF IInv

\* A step that leaves the cache alone, and the other requests, preserves the
\* invariant if it preserves its own request's part and the types.
LEMMA OwnStep == ASSUME IInv, NEW r \in Requests, UNCHANGED cache, TypeOK', LocalOK(r)',
                        \A q \in Requests \ {r} : /\ pc'[q] = pc[q] /\ inp'[q] = inp[q]
                                                   /\ slots'[q] = slots[q] /\ got'[q] = got[q]
                 PROVE  IInv'
<1>1. CacheBounded' /\ EntriesBelong'
      BY DEF IInv, cache, CacheBounded, EntriesBelong
<1>2. ASSUME NEW q \in Requests, q # r PROVE LocalOK(q)'
      BY <1>2 DEF IInv, LocalOK
<1> QED BY <1>1, <1>2 DEF IInv

\* The clock moves nothing but itself.
LEMMA TickOK == IInv /\ Tick => IInv'
<1> SUFFICES ASSUME IInv, Tick PROVE IInv'
    OBVIOUS
<1>1. TypeOK'
      BY PipelineAssumption DEF IInv, TypeOK, Tick, cache, Times
<1>2. CacheBounded' /\ EntriesBelong'
      BY DEF IInv, Tick, cache, CacheBounded, EntriesBelong
<1>3. ASSUME NEW q \in Requests PROVE LocalOK(q)'
      BY DEF IInv, Tick, LocalOK
<1> QED BY <1>1, <1>2, <1>3 DEF IInv

\* A new call starts empty-handed.
LEMMA ArriveOK == ASSUME IInv, NEW r \in Requests, Arrive(r) PROVE IInv'
<1>1. TypeOK'
      BY DEF IInv, TypeOK, Arrive, cache
<1>2. LocalOK(r)'
      BY DEF IInv, TypeOK, Arrive, LocalOK
<1>3. \A q \in Requests \ {r} : /\ pc'[q] = pc[q] /\ inp'[q] = inp[q]
                               /\ slots'[q] = slots[q] /\ got'[q] = got[q]
      BY DEF IInv, TypeOK, Arrive
<1> QED BY <1>1, <1>2, <1>3, OwnStep DEF Arrive

\* A lookup reorders the keys and hands out what is stored under the key.
LEMMA LookupOK == ASSUME IInv, NEW r \in Requests, Lookup(r) PROVE IInv'
<1> DEFINE k == CacheKey(inp[r])
<1>k. k \in KeySpace
      BY KeyInSpace DEF IInv, TypeOK
<1>1. CASE k \notin Range(order) /\ pc' = [pc EXCEPT ![r] = "collect"]
           /\ UNCHANGED <<order, got>> /\ UNCHANGED <<now, backend, stored, inp, slots>>
  <2>0. pc[r] = "lookup"
        BY DEF Lookup
  <2>1. TypeOK'
        BY <1>1 DEF IInv, TypeOK
  <2>2. LocalOK(r)'
        BY <1>1, <2>0 DEF IInv, TypeOK, LocalOK
  <2>3. \A q \in Requests \ {r} : /\ pc'[q] = pc[q] /\ inp'[q] = inp[q]
                                 /\ slots'[q] = slots[q] /\ got'[q] = got[q]
        BY <1>1 DEF IInv, TypeOK
  <2> QED BY <1>1, <2>1, <2>2, <2>3, OwnStep DEF cache
<1>2. CASE k \in Range(order) /\ pc' = [pc EXCEPT ![r] = "check"]
           /\ order' = Touch(order, k) /\ got' = [got EXCEPT ![r] = stored[k]]
           /\ UNCHANGED <<now, backend, stored, inp, slots>>
  <2>1. /\ order' \in Seq(KeySpace) /\ Distinct(order')
        /\ Range(order') = Range(order) /\ Len(order') = Len(order)
        BY <1>2, <1>k, TouchLemma DEF IInv, TypeOK
  <2>2. stored[k] # NoDecision /\ CacheKey(stored[k].input) = k /\ stored[k].reports = InOrder
        BY <1>2, <1>k DEF IInv, EntriesBelong
  <2>3. stored[k] \in Decisions
        BY <2>2, <1>k DEF IInv, TypeOK
  <2>4. TypeOK'
        BY <1>2, <2>1, <2>3 DEF IInv, TypeOK
  <2>5. CacheBounded' /\ EntriesBelong'
        BY <1>2, <2>1 DEF IInv, CacheBounded, EntriesBelong
  <2>6. LocalOK(r)'
        BY <1>2, <2>2, <2>3 DEF IInv, TypeOK, LocalOK, Good
  <2>7. ASSUME NEW q \in Requests, q # r PROVE LocalOK(q)'
        BY <1>2, <2>7 DEF IInv, TypeOK, LocalOK
  <2> QED BY <2>4, <2>5, <2>6, <2>7 DEF IInv
<1> QED BY <1>1, <1>2 DEF Lookup

\* The check of the clock keeps or drops what was read.
LEMMA CheckOK == ASSUME IInv, NEW r \in Requests, Check(r) PROVE IInv'
<1>1. TypeOK'
      BY Zenon DEF IInv, TypeOK, Check, cache
<1>2. LocalOK(r)'
      BY DEF IInv, TypeOK, Check, LocalOK
<1>3. \A q \in Requests \ {r} : /\ pc'[q] = pc[q] /\ inp'[q] = inp[q]
                               /\ slots'[q] = slots[q] /\ got'[q] = got[q]
      BY DEF IInv, TypeOK, Check
<1> QED BY <1>1, <1>2, <1>3, OwnStep DEF Check

\* A late removal takes a key and its decision away, whoever stored it.
LEMMA EvictOK == ASSUME IInv, NEW r \in Requests, Evict(r) PROVE IInv'
<1> DEFINE k == CacheKey(inp[r])
<1>k. k \in KeySpace
      BY KeyInSpace DEF IInv, TypeOK
<1>1. /\ order' \in Seq(KeySpace) /\ Distinct(order')
      /\ Range(order') \subseteq Range(order) /\ Len(order') <= Len(order)
  <2>1. order' = Without(order, k)
        BY DEF Evict
  <2>2. Range(Without(order, k)) = Range(order) \ {k}
        BY <1>k, WithoutLemma DEF IInv, TypeOK
  <2>3. Len(order) \in Nat
        BY DEF IInv, TypeOK
  <2>4. /\ Without(order, k) \in Seq(KeySpace) /\ Distinct(Without(order, k))
        /\ Len(Without(order, k)) <= Len(order)
        BY <1>k, <2>3, WithoutLemma DEF IInv, TypeOK
  <2> QED BY <2>1, <2>2, <2>4
<1>2. TypeOK'
      BY <1>1 DEF IInv, TypeOK, Evict, Kept, Goto
<1>3. CacheBounded'
      BY <1>1, PipelineAssumption DEF IInv, TypeOK, CacheBounded
<1>4. EntriesBelong'
      BY <1>1 DEF IInv, EntriesBelong, Evict, Kept
<1>5. LocalOK(r)'
      BY DEF IInv, TypeOK, LocalOK, Evict, Goto
<1>6. ASSUME NEW q \in Requests, q # r PROVE LocalOK(q)'
      BY <1>6 DEF IInv, TypeOK, LocalOK, Evict, Goto
<1> QED BY <1>2, <1>3, <1>4, <1>5, <1>6 DEF IInv

\* A collector writes its own slot.
LEMMA CollectOK == ASSUME IInv, NEW r \in Requests, NEW c \in Slots, Collect(r, c) PROVE IInv'
<1>0. c \in 0..Collectors
      BY PipelineAssumption DEF Slots
<1>1. TypeOK'
      BY <1>0 DEF IInv, TypeOK, Collect, cache
<1>2. LocalOK(r)'
      BY DEF IInv, TypeOK, Collect, LocalOK
<1>3. \A q \in Requests \ {r} : /\ pc'[q] = pc[q] /\ inp'[q] = inp[q]
                               /\ slots'[q] = slots[q] /\ got'[q] = got[q]
      BY DEF IInv, TypeOK, Collect
<1> QED BY <1>1, <1>2, <1>3, OwnStep DEF Collect

\* With every slot filled, the reports stand in the collectors' order.
LEMMA CombineMakes ==
  ASSUME IInv, NEW r \in Requests, Combine(r)
  PROVE  /\ slots[r] = InOrder
         /\ got'[r] = [input |-> inp[r], reports |-> InOrder, storedAt |-> now]
         /\ got'[r] \in Decisions
<1>1. slots[r] = InOrder
  <2>1. slots[r] = [c \in Slots |-> slots[r][c]]
        BY DEF IInv, TypeOK
  <2>2. \A c \in Slots : slots[r][c] = c
        BY DEF IInv, LocalOK, Combine
  <2> QED BY <2>1, <2>2 DEF InOrder
<1>2. InOrder \in [Slots -> Slots]
      BY DEF InOrder
<1>3. inp[r] \in Inputs /\ now \in Times
      BY DEF IInv, TypeOK
<1>4. got'[r] = [input |-> inp[r], reports |-> InOrder, storedAt |-> now]
      BY <1>1 DEF IInv, TypeOK, Combine
<1> QED BY <1>1, <1>2, <1>3, <1>4 DEF Decisions

\* A new decision belongs to the request that made it.
LEMMA CombineOK == ASSUME IInv, NEW r \in Requests, Combine(r) PROVE IInv'
<1>0. Collectors \in Nat
      BY PipelineAssumption
<1>1. TypeOK'
  <2>1. got' \in [Requests -> Decisions \cup {NoDecision}]
        BY CombineMakes, Zenon DEF IInv, TypeOK, Combine
  <2>2. slots' \in [Requests -> [Slots -> 0..Collectors]]
        BY <1>0 DEF IInv, TypeOK, Combine, NoReports
  <2> QED BY <2>1, <2>2 DEF IInv, TypeOK, Combine, Goto, cache
<1>2. LocalOK(r)'
  <2>0. /\ got'[r] = [input |-> inp[r], reports |-> InOrder, storedAt |-> now]
        /\ got'[r] \in Decisions
        BY CombineMakes
  <2>1. got'[r].input = inp[r] /\ got'[r].reports = InOrder /\ got'[r] \in Decisions
        BY <2>0
  <2>2. pc'[r] = "store" /\ inp'[r] = inp[r] /\ slots'[r] = NoReports
        BY DEF IInv, TypeOK, Combine, Goto
  <2> QED BY <2>1, <2>2 DEF LocalOK, Good, NoReports, CacheKey
<1>3. \A q \in Requests \ {r} : /\ pc'[q] = pc[q] /\ inp'[q] = inp[q]
                               /\ slots'[q] = slots[q] /\ got'[q] = got[q]
      BY DEF IInv, TypeOK, Combine, Goto
<1> QED BY <1>1, <1>2, <1>3, OwnStep DEF Combine

\* What a store leaves in the cache: the keys stay bounded, and only the
\* request's own key has a new decision.
LEMMA StoreMakes ==
  ASSUME IInv, NEW r \in Requests, Store(r)
  PROVE  /\ order' \in Seq(KeySpace) /\ Distinct(order') /\ Len(order') <= Capacity
         /\ Range(order') \subseteq Range(order) \cup {CacheKey(inp[r])}
         /\ CacheKey(inp[r]) \in KeySpace /\ Good(got[r], inp[r])
         /\ \A k \in KeySpace :
              stored'[k] = IF k \in Range(order')
                           THEN IF k = CacheKey(inp[r]) THEN got[r] ELSE stored[k]
                           ELSE NoDecision
<1>1. CacheKey(inp[r]) \in KeySpace
      BY KeyInSpace DEF IInv, TypeOK
<1>2. order' = AddKey(order, CacheKey(inp[r]), Capacity)
      BY DEF Store
<1>3. Good(got[r], inp[r])
      BY DEF IInv, LocalOK, Store, Goto
<1>4. \A k \in KeySpace :
        stored'[k] = IF k \in Range(order')
                     THEN IF k = CacheKey(inp[r]) THEN got[r] ELSE stored[k]
                     ELSE NoDecision
      BY DEF IInv, TypeOK, Store, Kept
<1>5. /\ order' \in Seq(KeySpace) /\ Distinct(order') /\ Len(order') <= Capacity
      /\ Range(order') \subseteq Range(order) \cup {CacheKey(inp[r])}
      BY <1>1, <1>2, AddKeyLemma, PipelineAssumption DEF IInv, TypeOK, CacheBounded
<1> QED BY <1>1, <1>3, <1>4, <1>5

\* A store puts the request's decision under the request's key.
LEMMA StoreOK == ASSUME IInv, NEW r \in Requests, Store(r) PROVE IInv'
<1>1. stored' \in [KeySpace -> Decisions \cup {NoDecision}]
  <2>1. stored' = [k \in KeySpace |-> stored'[k]]
        BY DEF Store, Kept
  <2>2. ASSUME NEW k \in KeySpace PROVE stored'[k] \in Decisions \cup {NoDecision}
        BY StoreMakes, Zenon DEF IInv, TypeOK, Good
  <2> QED BY <2>1, <2>2
<1>2. TypeOK'
      BY <1>1, StoreMakes, Zenon DEF IInv, TypeOK, Store, Goto
<1>3. CacheBounded'
      BY StoreMakes DEF CacheBounded
<1>4. EntriesBelong'
  <2> SUFFICES ASSUME NEW k \in KeySpace
               PROVE  (/\ k \in Range(order) => stored[k] # NoDecision
                       /\ stored[k] # NoDecision => /\ CacheKey(stored[k].input) = k
                                                   /\ stored[k].reports = InOrder)'
      BY DEF EntriesBelong
  <2>1. CASE k \in Range(order') /\ k = CacheKey(inp[r])
        BY <2>1, StoreMakes, PipelineAssumption DEF Good, CacheKey
  <2>2. CASE k \in Range(order') /\ k # CacheKey(inp[r])
        BY <2>2, StoreMakes, Zenon DEF IInv, EntriesBelong, CacheKey
  <2>3. CASE k \notin Range(order')
        BY <2>3, StoreMakes
  <2> QED BY <2>1, <2>2, <2>3
<1>5. LocalOK(r)'
      BY DEF IInv, TypeOK, LocalOK, Store, Goto
<1>6. ASSUME NEW q \in Requests, q # r PROVE LocalOK(q)'
      BY <1>6 DEF IInv, TypeOK, LocalOK, Store, Goto
<1> QED BY <1>2, <1>3, <1>4, <1>5, <1>6 DEF IInv

\* A hit in Redis hands out what is stored under the key; a failure nothing.
LEMMA RedisGetOK == ASSUME IInv, NEW r \in Requests, RedisGet(r) PROVE IInv'
<1> DEFINE k == CacheKey(inp[r])
<1>k. k \in KeySpace
      BY KeyInSpace DEF IInv, TypeOK
<1>0. pc[r] = "lookup"
      BY DEF RedisGet
<1>1. stored[k] # NoDecision => Good(stored[k], inp[r])
      BY <1>k DEF IInv, TypeOK, EntriesBelong, Good
<1>2. TypeOK'
      BY <1>k, Zenon DEF IInv, TypeOK, RedisGet, cache
<1>3. LocalOK(r)'
  <2>1. \/ pc'[r] = "collect" /\ got'[r] = got[r]
        \/ pc'[r] = "answered" /\ got'[r] = stored[k] /\ stored[k] # NoDecision
        BY DEF IInv, TypeOK, RedisGet
  <2>2. inp'[r] = inp[r] /\ slots'[r] = slots[r]
        BY DEF RedisGet
  <2>3. got[r] = NoDecision /\ \A c \in Slots : slots[r][c] \in {0, c}
        BY <1>0 DEF IInv, LocalOK
  <2> HIDE DEF k
  <2> QED BY <1>1, <2>1, <2>2, <2>3 DEF LocalOK, Good, CacheKey
<1>4. \A q \in Requests \ {r} : /\ pc'[q] = pc[q] /\ inp'[q] = inp[q]
                               /\ slots'[q] = slots[q] /\ got'[q] = got[q]
      BY DEF IInv, TypeOK, RedisGet
<1> QED BY <1>2, <1>3, <1>4, OwnStep DEF RedisGet

\* What a combination over Redis makes, and where SET may put it.
LEMMA RedisSetMakes ==
  ASSUME IInv, NEW r \in Requests, RedisSet(r)
  PROVE  LET d == [input |-> inp[r], reports |-> InOrder, storedAt |-> now]
         IN  /\ slots[r] = InOrder /\ Good(d, inp[r])
             /\ got' = [got EXCEPT ![r] = d]
             /\ stored' = stored \/ stored' = [stored EXCEPT ![CacheKey(inp[r])] = d]
<1> DEFINE d == [input |-> inp[r], reports |-> InOrder, storedAt |-> now]
<1>1. slots[r] = InOrder
  <2>1. slots[r] = [c \in Slots |-> slots[r][c]]
        BY DEF IInv, TypeOK
  <2>2. \A c \in Slots : slots[r][c] = c
        BY DEF IInv, LocalOK, RedisSet
  <2> QED BY <2>1, <2>2 DEF InOrder
<1>2. d \in Decisions
  <2>1. InOrder \in [Slots -> Slots]
        BY DEF InOrder
  <2>2. inp[r] \in Inputs /\ now \in Times
        BY DEF IInv, TypeOK
  <2> QED BY <2>1, <2>2 DEF Decisions
<1>3. Good(d, inp[r])
      BY <1>2 DEF Good, CacheKey
<1>4. /\ got' = [got EXCEPT ![r] = d]
      /\ stored' = stored \/ stored' = [stored EXCEPT ![CacheKey(inp[r])] = d]
      BY <1>1 DEF RedisSet
<1> QED BY <1>1, <1>3, <1>4

\* SET puts the request's decision under the request's key, or fails.
LEMMA RedisSetOK == ASSUME IInv, NEW r \in Requests, RedisSet(r) PROVE IInv'
<1> DEFINE d == [input |-> inp[r], reports |-> InOrder, storedAt |-> now]
           k == CacheKey(inp[r])
<1>k. k \in KeySpace
      BY KeyInSpace DEF IInv, TypeOK
<1>1. /\ Good(d, inp[r]) /\ got' = [got EXCEPT ![r] = d]
      /\ stored' = stored \/ stored' = [stored EXCEPT ![k] = d]
      BY RedisSetMakes
<1>2. d.input = inp[r] /\ d.reports = InOrder /\ d \in Decisions /\ d # NoDecision
      BY <1>1, PipelineAssumption DEF Good
<1> HIDE DEF d
<1>3. TypeOK'
  <2>0. Collectors \in Nat
        BY PipelineAssumption
  <2>1. slots' \in [Requests -> [Slots -> 0..Collectors]]
        BY <2>0 DEF IInv, TypeOK, RedisSet, NoReports
  <2>2. /\ got' \in [Requests -> Decisions \cup {NoDecision}]
        /\ stored' \in [KeySpace -> Decisions \cup {NoDecision}]
        BY <1>k, <1>1, <1>2 DEF IInv, TypeOK
  <2> QED BY <2>1, <2>2 DEF IInv, TypeOK, RedisSet, Goto
<1>4. CacheBounded'
      BY DEF IInv, CacheBounded, RedisSet
<1>5. EntriesBelong'
  <2>1. order' = order
        BY DEF RedisSet
  <2>2. \A x \in KeySpace : stored'[x] = stored[x] \/ (x = k /\ stored'[x] = d)
        BY <1>1 DEF IInv, TypeOK
  <2>3. CacheKey(d.input) = k
        BY <1>2
  <2> HIDE DEF k
  <2> SUFFICES ASSUME NEW x \in KeySpace
               PROVE  (/\ x \in Range(order) => stored[x] # NoDecision
                       /\ stored[x] # NoDecision => /\ CacheKey(stored[x].input) = x
                                                   /\ stored[x].reports = InOrder)'
      BY DEF EntriesBelong
  <2>4. CASE stored'[x] = stored[x]
        BY <2>1, <2>4 DEF IInv, EntriesBelong, CacheKey
  <2>5. CASE x = k /\ stored'[x] = d
        BY <1>2, <2>3, <2>5 DEF CacheKey
  <2> QED BY <2>2, <2>4, <2>5
<1>6. LocalOK(r)'
  <2>1. pc'[r] = "answered" /\ got'[r] = d /\ inp' = inp /\ slots'[r] = NoReports
        BY <1>1 DEF IInv, TypeOK, RedisSet, Goto
  <2> QED BY <1>1, <2>1 DEF LocalOK, Good, NoReports, CacheKey
<1>7. ASSUME NEW q \in Requests, q # r PROVE LocalOK(q)'
  <2>1. pc'[q] = pc[q] /\ inp'[q] = inp[q] /\ slots'[q] = slots[q] /\ got'[q] = got[q]
        BY <1>1, <1>7 DEF IInv, TypeOK, RedisSet, Goto
  <2> QED BY <2>1 DEF IInv, LocalOK
<1> QED BY <1>3, <1>4, <1>5, <1>6, <1>7 DEF IInv

\* The invariant is inductive.
LEMMA StepOK == IInv /\ [Next]_vars => IInv'
<1> SUFFICES ASSUME IInv, [Next]_vars PROVE IInv'
    OBVIOUS
<1>1. CASE UNCHANGED vars
      BY <1>1 DEF vars, IInv, TypeOK, CacheBounded, EntriesBelong, LocalOK, Good
<1>2. CASE Tick
      BY <1>2, TickOK
<1>3. ASSUME NEW r \in Requests, Arrive(r) \/ Step(r) PROVE IInv'
      BY <1>3, ArriveOK, LookupOK, CheckOK, EvictOK, CollectOK, CombineOK, StoreOK,
         RedisGetOK, RedisSetOK DEF Step
<1> QED BY <1>1, <1>2, <1>3 DEF Next

\* The inductive invariant holds in every reachable state.
THEOREM Inductive == Spec => []IInv
BY InitOK, StepOK, PTL DEF Spec

\* Type correctness of the pipeline's state.
THEOREM TypeCorrect == Spec => []TypeOK
<1>1. IInv => TypeOK
      BY DEF IInv
<1> QED BY <1>1, Inductive, PTL

\* The decision cache never outgrows its capacity.
THEOREM CacheIsBounded == Spec => []CacheBounded
<1>1. IInv => CacheBounded
      BY DEF IInv
<1> QED BY <1>1, Inductive, PTL

\* Every cached decision was made for the key it is stored under.
THEOREM EntriesAreOwn == Spec => []EntriesBelong
<1>1. IInv => EntriesBelong
      BY DEF IInv
<1> QED BY <1>1, Inductive, PTL
-----------------------------------------------------------------------------
\* The decisions the service holds, seen through the refinement, and the answers.
Answers == [r \in Requests |-> Answer(r)]

\* A step of the pipeline that adds no decision and changes no answer, input or
\* clock is the service forgetting some.
LEMMA ForgetStep == ASSUME UNCHANGED <<now, inp>>, Answers' = Answers, Held' \subseteq Held
                    PROVE  [Service!Next]_Service!vars
BY DEF Service!Next, Service!Forget, Service!vars, Answers

\* What is stored under a key is held.
LEMMA HeldInStore == \A k \in KeySpace : stored[k] \in Held \cup {NoDecision}
BY DEF Held

\* The initial states are the service's.
LEMMA ServiceInit == Init => Service!Init
<1> SUFFICES ASSUME Init PROVE Service!Init
    OBVIOUS
<1>1. Held = {}
      BY DEF Init, Held
<1>2. \A r \in Requests : Answer(r) = NoDecision
      BY DEF Init, Answer
<1> QED BY <1>1, <1>2 DEF Init, Service!Init

\* A tick is a tick.
LEMMA ServiceTick == ASSUME IInv, Tick PROVE Service!Next
<1>1. Held' = Held
      BY DEF Tick, cache, Held
<1>2. Answers' = Answers
      BY DEF Tick, Answers, Answer
<1> QED BY <1>1, <1>2 DEF Tick, Service!Next, Service!Tick, Answers

\* A call of Decide asks.
LEMMA ServiceAsk == ASSUME IInv, NEW r \in Requests, Arrive(r) PROVE Service!Next
<1>1. Held' \subseteq Held
      BY DEF IInv, TypeOK, Arrive, cache, Held
<1>2. Answers' = [Answers EXCEPT ![r] = NoDecision]
  <2>1. Answer(r)' = NoDecision
        BY DEF IInv, TypeOK, Arrive, Answer
  <2>2. \A q \in Requests \ {r} : Answer(q)' = Answer(q)
        BY DEF IInv, TypeOK, Arrive, Answer
  <2> QED BY <2>1, <2>2, Zenon DEF Answers
<1>3. /\ inp' \in [Requests -> Inputs]
      /\ \A q \in Requests \ {r} : inp'[q] = inp[q]
      BY DEF IInv, TypeOK, Arrive
<1>4. Service!Ask(r)
      BY <1>1, <1>2, <1>3 DEF Arrive, Service!Ask, Answers
<1> QED BY <1>4 DEF Service!Next

\* A lookup holds on to a decision the service already holds.
LEMMA ServiceLookup == ASSUME IInv, NEW r \in Requests, Lookup(r)
                       PROVE [Service!Next]_Service!vars
<1>1. CacheKey(inp[r]) \in KeySpace
      BY KeyInSpace DEF IInv, TypeOK
<1>2. Held' \subseteq Held
  <2>1. \A q \in Requests : got'[q] \in Held \cup {NoDecision}
        BY <1>1, HeldInStore DEF Lookup, IInv, TypeOK, Held
  <2>2. stored' = stored
        BY DEF Lookup
  <2> QED BY <2>1, <2>2 DEF Held
<1>3. Answers' = Answers
  <2>1. Answer(r)' = Answer(r)
        BY DEF IInv, TypeOK, Lookup, Answer
  <2>2. \A q \in Requests \ {r} : Answer(q)' = Answer(q)
        BY DEF IInv, TypeOK, Lookup, Answer
  <2> QED BY <2>1, <2>2 DEF Answers
<1> QED BY <1>2, <1>3, ForgetStep DEF Lookup

\* A hit serves a decision held for the request's key, within its time; an
\* expired one is let go.
LEMMA ServiceCheck == ASSUME IInv, NEW r \in Requests, Check(r)
                      PROVE [Service!Next]_Service!vars
<1>0. /\ Good(got[r], inp[r]) /\ got[r] \in Held /\ pc[r] = "check"
      BY PipelineAssumption DEF IInv, LocalOK, Check, Good, Held
<1>1. Held' \subseteq Held
      BY DEF IInv, TypeOK, Check, cache, Held
<1>2. \A q \in Requests \ {r} : Answer(q)' = Answer(q)
      BY DEF IInv, TypeOK, Check, Answer
<1>3. Answer(r) = NoDecision
      BY <1>0 DEF Answer
<1>4. CASE now > got[r].storedAt + TTL
  <2>1. Answer(r)' = NoDecision
    <3>1. got[r].storedAt \in Nat /\ now \in Nat /\ TTL \in Nat
          BY <1>0, PipelineAssumption DEF IInv, TypeOK, Good, Decisions, Times
    <3>2. pc'[r] = "evict"
          BY <1>4, <3>1 DEF IInv, TypeOK, Check
    <3> QED BY <3>2 DEF Answer
  <2>2. Answers' = Answers
        BY <1>2, <1>3, <2>1 DEF Answers
  <2> QED BY <1>1, <2>2, ForgetStep DEF Check
<1>5. CASE now <= got[r].storedAt + TTL
  <2>1. pc'[r] = "answered" /\ got' = got
    <3>1. got[r].storedAt \in Nat /\ now \in Nat /\ TTL \in Nat
          BY <1>0, PipelineAssumption DEF IInv, TypeOK, Good, Decisions, Times
    <3> QED BY <1>5, <3>1 DEF IInv, TypeOK, Check
  <2>2. Answer(r)' = got[r]
        BY <2>1 DEF Answer
  <2>3. Answers' = [Answers EXCEPT ![r] = got[r]]
        BY <1>2, <2>2, Zenon DEF Answers
  <2>4. Answers[r] = NoDecision
        BY <1>3 DEF Answers
  <2>5. Service!Shared(got[r].input) = Service!Shared(inp[r])
        BY <1>0 DEF Good, CacheKey, Service!Shared
  <2>6. Service!Serve(r)
        BY <1>0, <1>1, <1>5, <2>3, <2>4, <2>5, Zenon DEF Check, Service!Serve, Answers
  <2> QED BY <2>6 DEF Service!Next
<1> QED BY <1>4, <1>5 DEF Check

\* A late removal forgets.
LEMMA ServiceEvict == ASSUME IInv, NEW r \in Requests, Evict(r)
                      PROVE [Service!Next]_Service!vars
<1>1. \A k \in KeySpace : stored'[k] \in {stored[k], NoDecision}
      BY DEF Evict, Kept
<1>2. got' = got
      BY DEF Evict
<1>3. Held' \subseteq Held
      BY <1>1, <1>2 DEF Held
<1>4. \A q \in Requests : Answer(q)' = Answer(q)
      BY DEF IInv, TypeOK, Evict, Goto, Answer
<1> QED BY <1>3, <1>4, ForgetStep DEF Evict, Answers

\* A collector's report is invisible to the service.
LEMMA ServiceCollect == ASSUME IInv, NEW r \in Requests, NEW c \in Slots, Collect(r, c)
                        PROVE [Service!Next]_Service!vars
<1>1. Held' \subseteq Held
      BY DEF Collect, cache, Held
<1>2. Answers' = Answers
      BY DEF Collect, Answers, Answer
<1> QED BY <1>1, <1>2, ForgetStep DEF Collect

\* Combining the reports is the evaluation.
LEMMA ServiceEvaluate == ASSUME IInv, NEW r \in Requests, Combine(r)
                         PROVE [Service!Next]_Service!vars
<1> DEFINE d == [input |-> inp[r], reports |-> Service!InOrder, storedAt |-> now]
<1>1. got'[r] = d
      BY CombineMakes DEF InOrder, Service!InOrder, Slots
<1>2. \A q \in Requests \ {r} : got'[q] = got[q] /\ Answer(q)' = Answer(q)
      BY DEF IInv, TypeOK, Combine, Goto, Answer
<1>3. Answer(r)' = d /\ Answer(r) = NoDecision
  <2>1. pc[r] = "collect" /\ pc'[r] = "store"
        BY DEF IInv, TypeOK, Combine, Goto
  <2> HIDE DEF d
  <2> QED BY <1>1, <2>1 DEF Answer
<1> HIDE DEF d
<1>4. Held' \subseteq Held \cup {d}
      BY <1>1, <1>2 DEF Combine, cache, Held
<1>5. Answers' = [Answers EXCEPT ![r] = d] /\ Answers[r] = NoDecision
      BY <1>2, <1>3, Zenon DEF Answers
<1>6. Service!Evaluate(r)
      BY <1>4, <1>5 DEF Combine, Service!Evaluate, Answers, d
<1> QED BY <1>6 DEF Service!Next

\* Storing the answer makes it no younger and may push another decision out.
LEMMA ServiceStore == ASSUME IInv, NEW r \in Requests, Store(r)
                      PROVE [Service!Next]_Service!vars
<1>1. got[r] \in Held
      BY StoreMakes, PipelineAssumption DEF Held, Good
<1>2. \A k \in KeySpace : stored'[k] \in Held \cup {NoDecision}
      BY <1>1, StoreMakes, HeldInStore
<1>3. Held' \subseteq Held
      BY <1>2, Zenon DEF Store, Held
<1>4. \A q \in Requests : Answer(q)' = Answer(q)
      BY DEF IInv, TypeOK, Store, Goto, Answer
<1> QED BY <1>3, <1>4, ForgetStep DEF Store, Answers

\* A hit in Redis serves a decision held for the request's key, within its time.
LEMMA ServiceRedisGet == ASSUME IInv, NEW r \in Requests, RedisGet(r)
                         PROVE [Service!Next]_Service!vars
<1> DEFINE d == stored[CacheKey(inp[r])]
<1>0. CacheKey(inp[r]) \in KeySpace /\ pc[r] = "lookup"
      BY KeyInSpace DEF IInv, TypeOK, RedisGet
<1>1. d \in Held \cup {NoDecision}
      BY <1>0, HeldInStore
<1>2. \A q \in Requests \ {r} : Answer(q)' = Answer(q)
      BY DEF IInv, TypeOK, RedisGet, Answer
<1>3. Answer(r) = NoDecision
      BY <1>0 DEF Answer
<1>4. CASE pc' = [pc EXCEPT ![r] = "collect"] /\ got' = got
  <2>1. Answers' = Answers
        BY <1>2, <1>3, <1>4 DEF IInv, TypeOK, Answers, Answer
  <2>2. Held' \subseteq Held
        BY <1>4 DEF RedisGet, cache, Held
  <2> QED BY <2>1, <2>2, ForgetStep DEF RedisGet
<1>5. CASE /\ d # NoDecision /\ now <= d.storedAt + TTL
           /\ pc' = [pc EXCEPT ![r] = "answered"] /\ got' = [got EXCEPT ![r] = d]
  <2>1. Answers' = [Answers EXCEPT ![r] = d] /\ Answers[r] = NoDecision
        BY <1>2, <1>3, <1>5, Zenon DEF IInv, TypeOK, Answers, Answer
  <2>2. Held' \subseteq Held
    <3>1. \A q \in Requests : got'[q] \in Held \cup {NoDecision}
          BY <1>1, <1>5 DEF IInv, TypeOK, Held
    <3> QED BY <3>1 DEF RedisGet, cache, Held
  <2>3. Service!Shared(d.input) = Service!Shared(inp[r])
        BY <1>0, <1>5 DEF IInv, EntriesBelong, CacheKey, Service!Shared
  <2> HIDE DEF d
  <2>4. Service!Serve(r)
        BY <1>1, <1>5, <2>1, <2>2, <2>3, Zenon DEF RedisGet, Service!Serve, Answers
  <2> QED BY <2>4 DEF Service!Next
<1> QED BY <1>4, <1>5 DEF RedisGet

\* Combining the reports over Redis is the evaluation, stored or not.
LEMMA ServiceRedisSet == ASSUME IInv, NEW r \in Requests, RedisSet(r)
                         PROVE [Service!Next]_Service!vars
<1> DEFINE d == [input |-> inp[r], reports |-> Service!InOrder, storedAt |-> now]
<1>0. InOrder = Service!InOrder
      BY DEF InOrder, Service!InOrder, Slots
<1>1. /\ got' = [got EXCEPT ![r] = d]
      /\ stored' = stored \/ stored' = [stored EXCEPT ![CacheKey(inp[r])] = d]
      BY <1>0, RedisSetMakes
<1> HIDE DEF d
<1>2. \A q \in Requests \ {r} : got'[q] = got[q] /\ Answer(q)' = Answer(q)
      BY <1>1 DEF IInv, TypeOK, RedisSet, Goto, Answer
<1>3. Answer(r)' = d /\ Answer(r) = NoDecision
  <2>1. pc[r] = "collect" /\ pc'[r] = "answered" /\ got'[r] = d
        BY <1>1 DEF IInv, TypeOK, RedisSet, Goto
  <2> QED BY <2>1 DEF Answer
<1>4. Held' \subseteq Held \cup {d}
  <2>1. \A k \in KeySpace : stored'[k] \in {stored[k], d}
        BY <1>1 DEF IInv, TypeOK
  <2>2. \A q \in Requests : got'[q] \in {got[q], d}
        BY <1>1 DEF IInv, TypeOK
  <2> QED BY <2>1, <2>2 DEF Held
<1>5. Answers' = [Answers EXCEPT ![r] = d] /\ Answers[r] = NoDecision
      BY <1>2, <1>3, Zenon DEF Answers
<1>6. Service!Evaluate(r)
      BY <1>4, <1>5 DEF RedisSet, Service!Evaluate, Answers, d
<1> QED BY <1>6 DEF Service!Next

\* Every step of the pipeline is a step of the service, or none.
LEMMA ServiceStep == IInv /\ [Next]_vars => [Service!Next]_Service!vars
<1> SUFFICES ASSUME IInv, [Next]_vars PROVE [Service!Next]_Service!vars
    OBVIOUS
<1>1. CASE UNCHANGED vars
  <2>1. Held' = Held /\ Answers' = Answers
        BY <1>1 DEF vars, Held, Answers, Answer
  <2> QED BY <1>1, <2>1, ForgetStep DEF vars
<1>2. CASE Tick
      BY <1>2, ServiceTick
<1>3. ASSUME NEW r \in Requests, Arrive(r) \/ Step(r) PROVE [Service!Next]_Service!vars
      BY <1>3, ServiceAsk, ServiceLookup, ServiceCheck, ServiceEvict, ServiceCollect,
         ServiceEvaluate, ServiceStore, ServiceRedisGet, ServiceRedisSet DEF Step
<1> QED BY <1>1, <1>2, <1>3 DEF Next

\* Decide implements the abstract service: however lookups, late removals and
\* stores of concurrent requests interleave, an answer was evaluated for the
\* request, or stored for its key and token state at most TTL ago.
THEOREM Refinement == Spec => ImplementsDecisionService
<1>1. IInv /\ [Next]_vars => [Service!Next]_Service!vars
      BY ServiceStep
<1> QED BY <1>1, ServiceInit, Inductive, PTL DEF Spec, ImplementsDecisionService, Service!Spec
=============================================================================
