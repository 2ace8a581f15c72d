------------------------------ MODULE Pipeline ------------------------------
(* Pipeline.Decide called concurrently over the decision cache, in memory  *)
(* or in a Redis that the callers' processes share and that may fail any   *)
(* call: lookup, parallel collection, combination and store. One action    *)
(* per access to state another goroutine can touch: the LRU's Get, Remove  *)
(* and Add, a command of Redis, the clock, a collector's slot. A decision  *)
(* is the record of what it was made from.                                 *)
EXTENDS Naturals, Sequences, LRU

CONSTANTS Requests, Inputs, Collectors, Capacity, TTL, MaxTime, NoDecision

Times == 0..MaxTime
Slots == 1..Collectors
Tokens == {i.token : i \in Inputs}
KeySpace == {i.key : i \in Inputs} \X Tokens
Decisions == [input : Inputs, reports : [Slots -> Slots], storedAt : Times]

ASSUME PipelineAssumption ==
  /\ Capacity \in Nat \ {0} /\ TTL \in Nat /\ MaxTime \in Nat /\ Collectors \in Nat
  /\ \A i \in Inputs : i = [key |-> i.key, token |-> i.token, rest |-> i.rest]
  /\ NoDecision \notin Decisions

VARIABLES now,
          backend,  \* policy.cache.backend
          order,    \* the LRU's keys, least recently used first
          stored,   \* the decision cached under a key
          pc, inp,  \* where each request is, and its input
          slots,    \* the collectors' reports, 0 while one is running
          got       \* the decision a request read or made

cache == <<backend, order, stored>>
vars == <<now, backend, order, stored, pc, inp, slots, got>>

\* computeCacheKey. The key hashes the address, JA3, user agent and path (here
\* one value, "key") with the token state; method, host and the other headers
\* ("rest") are not in it. The mutant forgets the token state.
CacheKeyNoToken(i) == <<i.key, CHOOSE t \in Tokens : TRUE>>
CacheKey(i) == <<i.key, i.token>>

NoReports == [c \in Slots |-> 0]
InOrder == [c \in Slots |-> c]

Init == /\ now = 0 /\ backend \in {"memory", "redis"}
        /\ order = <<>> /\ stored = [k \in KeySpace |-> NoDecision]
        /\ pc = [r \in Requests |-> "idle"]
        /\ inp \in [Requests -> Inputs]
        /\ slots = [r \in Requests |-> NoReports]
        /\ got = [r \in Requests |-> NoDecision]

Goto(r, from, to) == pc[r] = from /\ pc' = [pc EXCEPT ![r] = to]

Tick == /\ now < MaxTime /\ now' = now + 1
        /\ UNCHANGED <<cache, pc, inp, slots, got>>

Arrive(r) == /\ pc[r] \in {"idle", "answered"}
             /\ pc' = [pc EXCEPT ![r] = "lookup"]
             /\ \E i \in Inputs : inp' = [inp EXCEPT ![r] = i]
             /\ got' = [got EXCEPT ![r] = NoDecision]
             /\ UNCHANGED <<now, cache, slots>>

\* memoryCache.Get, first half: the LRU lookup, which makes the key recent.
Lookup(r) ==
  LET k == CacheKey(inp[r])
  IN  /\ backend = "memory" /\ pc[r] = "lookup"
      /\ \/ /\ k \notin Range(order)
            /\ pc' = [pc EXCEPT ![r] = "collect"]
            /\ UNCHANGED <<order, got>>
         \/ /\ k \in Range(order)
            /\ pc' = [pc EXCEPT ![r] = "check"]
            /\ order' = Touch(order, k)
            /\ got' = [got EXCEPT ![r] = stored[k]]
      /\ UNCHANGED <<now, backend, stored, inp, slots>>

\* memoryCache.Get, second half: the clock is read after the lookup. An entry
\* past its time is removed in a step of its own, whatever is there by then.
Check(r) ==
  /\ pc[r] = "check"
  /\ \/ /\ now > got[r].storedAt + TTL
        /\ pc' = [pc EXCEPT ![r] = "evict"]
        /\ got' = [got EXCEPT ![r] = NoDecision]
     \/ /\ now <= got[r].storedAt + TTL
        /\ pc' = [pc EXCEPT ![r] = "answered"]
        /\ UNCHANGED got
  /\ UNCHANGED <<now, cache, inp, slots>>

\* Kept: an evicted key's decision is gone. The mutant of the removal looks the
\* key up again and leaves the entry where it is.
Kept(s, keys) == [k \in KeySpace |-> IF k \in Range(keys) THEN s[k] ELSE NoDecision]
EvictRetry(r) == /\ Goto(r, "evict", "lookup")
                 /\ UNCHANGED <<now, cache, inp, slots, got>>
Evict(r) == /\ Goto(r, "evict", "collect")
            /\ order' = Without(order, CacheKey(inp[r]))
            /\ stored' = Kept(stored, order')
            /\ UNCHANGED <<now, backend, inp, slots, got>>

\* redisCache.Get: GET is one step of the server, which keeps no entry past its
\* time. Decide treats an error, a miss and an entry the server has dropped alike,
\* so any lookup may go on to collect.
RedisGet(r) ==
  LET d == stored[CacheKey(inp[r])]
  IN  /\ backend = "redis" /\ pc[r] = "lookup"
      /\ \/ /\ pc' = [pc EXCEPT ![r] = "collect"]
            /\ UNCHANGED got
         \/ /\ d # NoDecision /\ now <= d.storedAt + TTL
            /\ pc' = [pc EXCEPT ![r] = "answered"]
            /\ got' = [got EXCEPT ![r] = d]
      /\ UNCHANGED <<now, cache, inp, slots>>

\* A collector's goroutine finishes and writes its report, here the collector
\* itself, to its own slot; the mutant appends the reports as they come.
CollectAppend(r, c) ==
  LET filled == {x \in Slots : slots[r][x] # 0}
  IN  /\ pc[r] = "collect" /\ c \notin Range(slots[r])
      /\ \E x \in Slots \ filled : /\ \A y \in Slots \ filled : x <= y
                                  /\ slots' = [slots EXCEPT ![r][x] = c]
      /\ UNCHANGED <<now, cache, pc, inp, got>>
Collect(r, c) == /\ pc[r] = "collect" /\ slots[r][c] = 0
                 /\ slots' = [slots EXCEPT ![r][c] = c]
                 /\ UNCHANGED <<now, cache, pc, inp, got>>

\* wg.Wait returns once every collector is done. The reports are then combined
\* and Set reads the clock for the expiry.
Combine(r) == /\ backend = "memory" /\ Goto(r, "collect", "store")
              /\ \A c \in Slots : slots[r][c] # 0
              /\ got' = [got EXCEPT ![r] = [input |-> inp[r], reports |-> slots[r],
                                            storedAt |-> now]]
              /\ slots' = [slots EXCEPT ![r] = NoReports]
              /\ UNCHANGED <<now, cache, inp>>

\* Set stores the decision under the request's key.
Store(r) ==
  LET k == CacheKey(inp[r])
  IN  /\ Goto(r, "store", "answered")
      /\ order' = AddKey(order, k, Capacity)
      /\ stored' = Kept([stored EXCEPT ![k] = got[r]], order')
      /\ UNCHANGED <<now, backend, inp, slots, got>>

\* Over Redis the expiry runs from the server's SET, so combination, which is
\* local, and SET are one step. SET may fail, or its reply be lost: Decide drops
\* the error and answers.
RedisSet(r) ==
  LET d == [input |-> inp[r], reports |-> slots[r], storedAt |-> now]
  IN  /\ backend = "redis" /\ Goto(r, "collect", "answered")
      /\ \A c \in Slots : slots[r][c] # 0
      /\ got' = [got EXCEPT ![r] = d]
      /\ slots' = [slots EXCEPT ![r] = NoReports]
      /\ \/ UNCHANGED stored
         \/ stored' = [stored EXCEPT ![CacheKey(inp[r])] = d]
      /\ UNCHANGED <<now, backend, order, inp>>

Step(r) == \/ Lookup(r) \/ Check(r) \/ Evict(r) \/ Combine(r) \/ Store(r)
           \/ RedisGet(r) \/ RedisSet(r)
           \/ \E c \in Slots : Collect(r, c)
Next == Tick \/ \E r \in Requests : Arrive(r) \/ Step(r)

\* A request's goroutines are scheduled until it is answered.
Spec == Init /\ [][Next]_vars /\ \A r \in Requests : WF_vars(Step(r))
-----------------------------------------------------------------------------
\* Types, and a cache order that never lists a key twice.
TypeOK ==
  /\ now \in Times /\ backend \in {"memory", "redis"}
  /\ order \in Seq(KeySpace) /\ Distinct(order)
  /\ stored \in [KeySpace -> Decisions \cup {NoDecision}]
  /\ pc \in [Requests -> {"idle", "lookup", "check", "evict", "collect", "store", "answered"}]
  /\ inp \in [Requests -> Inputs]
  /\ slots \in [Requests -> [Slots -> 0..Collectors]]
  /\ got \in [Requests -> Decisions \cup {NoDecision}]

\* The decision cache never holds more keys than lru.New was given, however the
\* lookups, late removals and stores of concurrent requests interleave.
CacheBounded == Len(order) <= Capacity

\* What the cache holds under a key is a decision made for that key and token
\* state, from every collector's report in the collectors' order, whatever
\* other requests stored or removed between this request's lookup and its store.
EntriesBelong ==
  \A k \in KeySpace :
    /\ k \in Range(order) => stored[k] # NoDecision
    /\ stored[k] # NoDecision => /\ CacheKey(stored[k].input) = k
                                /\ stored[k].reports = InOrder

\* Every call of Decide returns: the lookup, the late removal, the wait for the
\* collectors and a failing Redis always lead to an answer.
EveryRequestAnswered == \A r \in Requests : pc[r] = "lookup" ~> pc[r] = "answered"

\* Decide implements DecisionService: an answer was evaluated for the request or
\* stored for its key and token state at most TTL before Get read the clock. A
\* hit never extends a decision's life, and no interleaving of removals and
\* stores lets one request's decision reach another key.
Answer(r) == IF pc[r] \in {"store", "answered"} THEN got[r] ELSE NoDecision
Held == ({stored[k] : k \in KeySpace} \cup {got[r] : r \in Requests}) \ {NoDecision}
Service == INSTANCE DecisionService
             WITH held <- Held, asked <- inp, answer <- [r \in Requests |-> Answer(r)]
ImplementsDecisionService == Service!Spec
=============================================================================
