--------------------------- MODULE ChallengeProofs ---------------------------
(* Invariance proofs for the challenge service, for every set of ids and   *)
(* requests, every capacity, lifetime and threshold.                       *)
EXTENDS Challenge, ListProofs

\* The provers get more than their usual time.
USE SMTT(60)

\* What a request has learnt agrees with the shared state: a hit was for an id
\* that was handed out and read its time of issue; only a hit gets past the
\* lookup; a status is final; and a token was earned.
LocalOK(r) ==
  /\ Hit(r) => sent[r].id \in Issued /\ issued[r] = issuedAt[sent[r].id]
  /\ pc[r] \in {"age", "remove", "finish"} => Hit(r)
  /\ pc[r] \in {"idle", "get"} => ~Hit(r)
  /\ pc[r] # "done" => status[r] = 0
  /\ pc[r] = "finish" => Fresh(r)
  /\ Passed(r) => Hit(r) /\ Fresh(r) /\ Outcome(r) = 302
LocalsOK == \A r \in Requests : LocalOK(r)

\* The requests seen answered on arrival stay answered.
AfterOK == \A r \in Requests : \A q \in after[r] : q \in Requests /\ pc[q] = "done"

\* A request that arrived after another had spent the same id never hits.
LateMisses ==
  \A r, q \in Requests :
    r \in after[q] /\ Hit(r) /\ sent[r].id = sent[q].id => ~Hit(q)

\* The inductive invariant.
IInv == TypeOK /\ CacheBounded /\ SpentIdsStayGone /\ LocalsOK
        /\ AfterOK /\ LateMisses

USE DEF Never, Times, Hit, Passed, svc

\* A step that leaves a request's own fields and the times of issue alone leaves
\* what the request has learnt true.
LEMMA LocalStays ==
  ASSUME NEW q \in Requests, LocalOK(q), issuedAt' = issuedAt,
         sent'[q] = sent[q], pc'[q] = pc[q], issued'[q] = issued[q],
         checked'[q] = checked[q], status'[q] = status[q]
  PROVE  LocalOK(q)'
BY DEF LocalOK, Issued, Fresh, Outcome

\* The initial state satisfies the inductive invariant: no id, no request yet.
LEMMA InitInductive == Init => IInv
<1> SUFFICES ASSUME Init PROVE IInv
  OBVIOUS
<1>1. TypeOK
  BY TimeAssumption, IdAssumption DEF Init, TypeOK, Sent
<1>2. CacheBounded
  BY CapacityAssumption DEF Init, CacheBounded, Distinct, Range
<1>3. SpentIdsStayGone /\ LocalsOK /\ AfterOK /\ LateMisses
  BY DEF Init, SpentIdsStayGone, LocalsOK, LocalOK, AfterOK, LateMisses
<1> QED BY <1>1, <1>2, <1>3 DEF IInv

\* The clock disturbs nothing: ages were read when the request checked them.
LEMMA TickInductive == ASSUME IInv, Tick PROVE IInv'
<1>1. TypeOK'
  BY TimeAssumption DEF IInv, Tick, TypeOK
<1>2. CacheBounded' /\ SpentIdsStayGone'
  BY DEF IInv, Tick, CacheBounded, SpentIdsStayGone, Issued
<1>3. LocalsOK' /\ AfterOK' /\ LateMisses'
  BY DEF IInv, Tick, LocalsOK, LocalOK, AfterOK, LateMisses, Issued, Fresh, Outcome
<1> QED BY <1>1, <1>2, <1>3 DEF IInv

\* HandleChallenge draws an id nobody has spent, so adding it brings none back.
LEMMA HandleChallengeInductive == ASSUME IInv, HandleChallenge PROVE IInv'
<1>1. PICK id \in Ids \ Issued :
        /\ cache' = AddKey(cache, id, Capacity)
        /\ issuedAt' = [issuedAt EXCEPT ![id] = now]
        /\ UNCHANGED <<now, pc, sent, issued, checked, status, after>>
  BY Zenon DEF HandleChallenge, Stamp
<1>2. /\ cache' \in Seq(Ids) /\ Distinct(cache') /\ Len(cache') <= Capacity
      /\ Range(cache') \subseteq Range(cache) \cup {id}
  BY <1>1, AddKeyLemma, CapacityAssumption DEF IInv, TypeOK, CacheBounded
<1>3. TypeOK'
  BY <1>1, <1>2 DEF IInv, TypeOK
<1>4. Issued' = Issued \cup {id}
  BY <1>1 DEF IInv, TypeOK, Issued
<1>5. CacheBounded'
  BY <1>2, <1>4 DEF IInv, CacheBounded
<1>6. SpentIdsStayGone'
  BY <1>1, <1>2 DEF IInv, SpentIdsStayGone, LocalsOK, LocalOK
<1>7. LocalsOK'
  BY <1>1, <1>4 DEF IInv, TypeOK, LocalsOK, LocalOK, Fresh, Outcome
<1>8. AfterOK' /\ LateMisses'
  BY <1>1 DEF IInv, AfterOK, LateMisses
<1> QED BY <1>3, <1>5, <1>6, <1>7, <1>8 DEF IInv

\* An arriving request has looked nothing up and records who was answered.
LEMMA ArriveInductive ==
  ASSUME IInv, NEW r \in Requests, Arrive(r) PROVE IInv'
<1>1. /\ pc[r] = "idle" /\ ~Hit(r) /\ status[r] = 0
      /\ UNCHANGED <<now, cache, issuedAt, issued, checked>>
      /\ after' = [after EXCEPT ![r] = Answered]
  BY DEF IInv, LocalsOK, LocalOK, Arrive
<1>2. TypeOK'
  <2>1. Answered \in SUBSET Requests
    BY DEF Answered
  <2>2. sent' \in [Requests -> Sent]
    BY DEF IInv, TypeOK, Arrive, Sent, Issued
  <2>3. pc' \in [Requests -> {"idle", "get", "age", "remove", "finish", "done"}]
        /\ status' \in [Requests -> {0, 302, 400, 403, 405}]
    <3>1. ASSUME NEW code \in {405, 400}, Answer(r, code) PROVE <2>3
      BY <3>1 DEF IInv, TypeOK, Goto, Answer
    <3>2. CASE Goto(r, "get") /\ UNCHANGED status
      BY <3>2 DEF IInv, TypeOK, Goto
    <3> QED BY <3>1, <3>2 DEF Arrive
  <2>4. after' \in [Requests -> SUBSET Requests]
    BY <1>1, <2>1 DEF IInv, TypeOK
  <2>5. /\ now' \in Times /\ cache' \in Seq(Ids)
        /\ issuedAt' \in [Ids -> Times \cup {Never}]
        /\ issued' \in [Requests -> Times \cup {Never}]
        /\ checked' \in [Requests -> Times]
    BY <1>1 DEF IInv, TypeOK
  <2> QED BY <2>2, <2>3, <2>4, <2>5 DEF TypeOK
<1>3. /\ \A q \in Requests \ {r} : /\ sent'[q] = sent[q] /\ pc'[q] = pc[q]
                                     /\ status'[q] = status[q] /\ after'[q] = after[q]
      /\ pc'[r] \in {"get", "done"} /\ status'[r] # 302
      /\ pc'[r] = "get" => status'[r] = 0
      /\ after'[r] = Answered
  BY <1>1 DEF IInv, TypeOK, Arrive, Goto, Answer
<1>4. CacheBounded' /\ SpentIdsStayGone' /\ LateMisses'
  BY <1>1, <1>3 DEF IInv, CacheBounded, SpentIdsStayGone, LateMisses, Issued
<1>5. LocalsOK'
  <2>1. ASSUME NEW q \in Requests \ {r} PROVE LocalOK(q)'
    BY <1>1, <1>3, LocalStays DEF IInv, TypeOK, LocalsOK
  <2>2. LocalOK(r)'
    BY <1>1, <1>3 DEF IInv, LocalsOK, LocalOK, Issued, Fresh, Outcome
  <2> QED BY <2>1, <2>2 DEF LocalsOK
<1>6. AfterOK'
  BY <1>1, <1>3 DEF IInv, AfterOK, Answered
<1> QED BY <1>2, <1>4, <1>5, <1>6 DEF IInv

\* ids.Get only reorders the cache; a hit is for an id that no answered request spent.
LEMMA GetIdInductive ==
  ASSUME IInv, NEW r \in Requests, GetId(r) PROVE IInv'
<1>1. /\ pc[r] = "get" /\ ~Hit(r) /\ status[r] = 0
      /\ cache' = Touch(cache, sent[r].id)
      /\ UNCHANGED <<now, issuedAt, sent, checked, after>>
  BY DEF IInv, LocalsOK, LocalOK, GetId
<1>2. /\ cache' \in Seq(Ids) /\ Distinct(cache') /\ Len(cache') = Len(cache)
      /\ Range(cache') = Range(cache)
  <2>1. CASE sent[r].id \in Ids
    BY <1>1, <2>1, TouchLemma DEF IInv, TypeOK, CacheBounded
  <2>2. CASE sent[r].id \notin Ids
    <3>1. sent[r].id \notin Range(cache)
      BY <2>2 DEF IInv, CacheBounded, Issued
    <3> QED BY <1>1, <3>1 DEF Touch, IInv, TypeOK, CacheBounded
  <2> QED BY <2>1, <2>2
<1>3. sent[r].id \in Range(cache) =>
        issuedAt[sent[r].id] \in Times /\ sent[r].id \in Issued
  BY DEF IInv, TypeOK, CacheBounded, Issued
<1>4. TypeOK'
  <2>1. CASE sent[r].id \in Range(cache)
    <3>1. /\ Goto(r, "age") /\ UNCHANGED status
          /\ issued' = [issued EXCEPT ![r] = issuedAt[sent[r].id]]
      BY <2>1 DEF GetId
    <3> QED BY <1>1, <1>2, <1>3, <2>1, <3>1 DEF IInv, TypeOK, Goto
  <2>2. CASE sent[r].id \notin Range(cache)
    <3>1. Answer(r, 400) /\ UNCHANGED issued
      BY <2>2 DEF GetId
    <3> QED BY <1>1, <1>2, <3>1 DEF IInv, TypeOK, Goto, Answer
  <2> QED BY <2>1, <2>2
<1>5. /\ \A q \in Requests \ {r} : /\ issued'[q] = issued[q] /\ pc'[q] = pc[q]
                                     /\ status'[q] = status[q]
      /\ status'[r] # 302
      /\ \/ /\ pc'[r] = "age" /\ status'[r] = 0 /\ sent[r].id \in Range(cache)
            /\ issued'[r] = issuedAt[sent[r].id]
         \/ pc'[r] = "done" /\ issued'[r] = Never
  BY <1>1 DEF IInv, TypeOK, GetId, Goto, Answer
<1>6. CacheBounded'
  BY <1>1, <1>2 DEF IInv, CacheBounded, Issued
<1>7. SpentIdsStayGone'
  BY <1>1, <1>2, <1>5 DEF IInv, SpentIdsStayGone
<1>8. LocalsOK'
  <2>1. ASSUME NEW q \in Requests \ {r} PROVE LocalOK(q)'
    BY <1>1, <1>5, LocalStays DEF IInv, TypeOK, LocalsOK
  <2>2. LocalOK(r)'
    BY <1>1, <1>3, <1>5 DEF IInv, LocalsOK, LocalOK, Issued, Fresh, Outcome
  <2> QED BY <2>1, <2>2 DEF LocalsOK
<1>9. AfterOK' /\ LateMisses'
  BY <1>1, <1>5 DEF IInv, SpentIdsStayGone, AfterOK, LateMisses
<1> QED BY <1>4, <1>6, <1>7, <1>8, <1>9 DEF IInv

\* Reading the clock sends the request on to the removal with its hit.
LEMMA CheckAgeInductive ==
  ASSUME IInv, NEW r \in Requests, CheckAge(r) PROVE IInv'
<1>1. /\ pc[r] = "age" /\ Hit(r) /\ status[r] = 0
      /\ UNCHANGED <<now, cache, issuedAt, sent, issued, status, after>>
  BY DEF IInv, LocalsOK, LocalOK, CheckAge
<1>2. TypeOK'
  BY <1>1 DEF IInv, TypeOK, CheckAge, Goto
<1>3. /\ pc'[r] = "remove"
      /\ \A q \in Requests \ {r} : pc'[q] = pc[q] /\ checked'[q] = checked[q]
  BY DEF IInv, TypeOK, CheckAge, Goto
<1>4. CacheBounded' /\ SpentIdsStayGone' /\ AfterOK' /\ LateMisses'
  BY <1>1, <1>3 DEF IInv, CacheBounded, SpentIdsStayGone, AfterOK, LateMisses, Issued
<1>5. LocalsOK'
  <2>1. ASSUME NEW q \in Requests \ {r} PROVE LocalOK(q)'
    BY <1>1, <1>3, LocalStays DEF IInv, TypeOK, LocalsOK
  <2>2. LocalOK(r)'
    BY <1>1, <1>3 DEF IInv, LocalsOK, LocalOK, Issued, Fresh, Outcome
  <2> QED BY <2>1, <2>2 DEF LocalsOK
<1> QED BY <1>2, <1>4, <1>5 DEF IInv

\* ids.Remove takes the id out before the request is answered or goes on.
LEMMA RemoveIdInductive ==
  ASSUME IInv, NEW r \in Requests, RemoveId(r) PROVE IInv'
<1>1. /\ pc[r] = "remove" /\ Hit(r) /\ status[r] = 0 /\ sent[r].id \in Ids
      /\ cache' = Without(cache, sent[r].id)
      /\ UNCHANGED <<now, issuedAt, sent, issued, checked, after>>
  BY DEF IInv, LocalsOK, LocalOK, RemoveId, Issued
<1>2. /\ cache' \in Seq(Ids) /\ Distinct(cache') /\ Len(cache') <= Len(cache)
      /\ Range(cache') = Range(cache) \ {sent[r].id}
  <2>1. cache \in Seq(Ids) /\ Distinct(cache) /\ Len(cache) \in Nat
    BY DEF IInv, TypeOK, CacheBounded
  <2> DEFINE k == sent[r].id
             w == Without(cache, k)
  <2>2. k \in Ids /\ cache' = w
    BY <1>1
  <2> HIDE DEF k
  <2>3. /\ w \in Seq(Ids) /\ Distinct(w) /\ Range(w) = Range(cache) \ {k}
        /\ Len(w) = IF k \in Range(cache) THEN Len(cache) - 1 ELSE Len(cache)
    BY <2>1, <2>2, WithoutLemma
  <2> HIDE DEF w
  <2> QED BY <2>1, <2>2, <2>3 DEF k
<1>3. TypeOK'
  <2>1. CASE Fresh(r)
    <3>1. Goto(r, "finish") /\ UNCHANGED status
      BY <2>1 DEF RemoveId
    <3> QED BY <1>1, <1>2, <3>1 DEF IInv, TypeOK, Goto
  <2>2. CASE ~Fresh(r)
    <3>1. Answer(r, 400)
      BY <2>2 DEF RemoveId
    <3> QED BY <1>1, <1>2, <3>1 DEF IInv, TypeOK, Goto, Answer
  <2> QED BY <2>1, <2>2
<1>4. /\ \A q \in Requests \ {r} : pc'[q] = pc[q] /\ status'[q] = status[q]
      /\ \/ pc'[r] = "finish" /\ status'[r] = 0 /\ Fresh(r)
         \/ pc'[r] = "done" /\ status'[r] = 400
  BY <1>1 DEF IInv, TypeOK, RemoveId, Goto, Answer
<1>5. CacheBounded'
  BY <1>1, <1>2, CapacityAssumption DEF IInv, TypeOK, CacheBounded, Issued
<1>6. SpentIdsStayGone' /\ AfterOK' /\ LateMisses'
  BY <1>1, <1>2, <1>4 DEF IInv, SpentIdsStayGone, AfterOK, LateMisses
<1>7. LocalsOK'
  <2>1. ASSUME NEW q \in Requests \ {r} PROVE LocalOK(q)'
    BY <1>1, <1>4, LocalStays DEF IInv, TypeOK, LocalsOK
  <2>2. LocalOK(r)'
    <3>1. /\ LocalOK(r) /\ Issued' = Issued /\ Hit(r)' /\ ~Passed(r)'
          /\ pc'[r] = "finish" => Fresh(r)'
      BY <1>1, <1>4 DEF IInv, LocalsOK, Issued, Fresh
    <3> QED BY <1>1, <1>4, <3>1 DEF LocalOK
  <2> QED BY <2>1, <2>2 DEF LocalsOK
<1> QED BY <1>3, <1>5, <1>6, <1>7 DEF IInv

\* The rest of HandleVerify answers 302 only for a fresh hit whose outcome it is.
LEMMA FinishInductive ==
  ASSUME IInv, NEW r \in Requests, Finish(r) PROVE IInv'
<1>1. /\ pc[r] = "finish" /\ Hit(r) /\ Fresh(r)
      /\ UNCHANGED <<now, cache, issuedAt, sent, issued, checked, after>>
  BY DEF IInv, LocalsOK, LocalOK, Finish
<1>2. Outcome(r) \in {302, 400, 403}
  BY DEF Outcome
<1>3. TypeOK'
  BY <1>1, <1>2 DEF IInv, TypeOK, Finish, Goto, Answer
<1>4. /\ \A q \in Requests \ {r} : pc'[q] = pc[q] /\ status'[q] = status[q]
      /\ pc'[r] = "done" /\ status'[r] = Outcome(r)
  BY DEF IInv, TypeOK, Finish, Goto, Answer
<1>5. CacheBounded' /\ SpentIdsStayGone' /\ AfterOK' /\ LateMisses'
  BY <1>1, <1>4 DEF IInv, CacheBounded, SpentIdsStayGone, AfterOK, LateMisses, Issued
<1>6. LocalsOK'
  <2>1. ASSUME NEW q \in Requests \ {r} PROVE LocalOK(q)'
    BY <1>1, <1>2, <1>4, LocalStays DEF IInv, TypeOK, LocalsOK
  <2>2. LocalOK(r)'
    BY <1>1, <1>2, <1>4 DEF IInv, LocalsOK, LocalOK, Issued, Fresh, Outcome
  <2> QED BY <2>1, <2>2 DEF LocalsOK
<1> QED BY <1>3, <1>5, <1>6 DEF IInv

\* Every step of the service preserves the inductive invariant.
LEMMA NextInductive == IInv /\ [Next]_vars => IInv'
<1> SUFFICES ASSUME IInv, [Next]_vars PROVE IInv'
  OBVIOUS
<1>1. CASE Tick
  BY <1>1, TickInductive
<1>2. CASE HandleChallenge
  BY <1>2, HandleChallengeInductive
<1>3. ASSUME NEW r \in Requests,
             Arrive(r) \/ GetId(r) \/ CheckAge(r) \/ RemoveId(r) \/ Finish(r)
      PROVE  IInv'
  BY <1>3, ArriveInductive, GetIdInductive, CheckAgeInductive, RemoveIdInductive,
     FinishInductive
<1>4. CASE UNCHANGED vars
  BY <1>4 DEF vars, IInv, TypeOK, CacheBounded, SpentIdsStayGone, LocalsOK,
              LocalOK, AfterOK, LateMisses, Issued, Fresh, Outcome
<1> QED BY <1>1, <1>2, <1>3, <1>4 DEF Next

\* The inductive invariant holds in every reachable state.
THEOREM Inductive == Spec => []IInv
<1>1. Init => IInv
  BY InitInductive
<1>2. IInv /\ [Next]_vars => IInv'
  BY NextInductive
<1> QED BY <1>1, <1>2, PTL DEF Spec

\* The challenge service's variables keep their types.
THEOREM TypeCorrect == Spec => []TypeOK
<1>1. IInv => TypeOK
  BY DEF IInv
<1> QED BY <1>1, Inductive, PTL

\* The id cache stays within its capacity, without duplicates, and holds only
\* ids that were handed out.
THEOREM CacheIsBounded == Spec => []CacheBounded
<1>1. IInv => CacheBounded
  BY DEF IInv
<1> QED BY <1>1, Inductive, PTL

\* An id spent by a verify request never comes back to the cache.
THEOREM SpentIdsNeverReturn == Spec => []SpentIdsStayGone
<1>1. IInv => SpentIdsStayGone
  BY DEF IInv
<1> QED BY <1>1, Inductive, PTL

\* Two tokens for one id come only from overlapping verify requests.
THEOREM SingleUse == Spec => []NoSequentialReuse
<1>1. IInv => NoSequentialReuse
  <2> SUFFICES ASSUME IInv, NEW r \in Requests, NEW q \in Requests,
                      Passed(r), Passed(q), sent[r].id = sent[q].id, r \in after[q]
               PROVE  FALSE
    BY DEF NoSequentialReuse
  <2>1. Hit(r) /\ Hit(q)
    BY DEF IInv, LocalsOK, LocalOK
  <2> QED BY <2>1 DEF IInv, LateMisses
<1> QED BY <1>1, Inductive, PTL

\* Every token was earned: a known id, young enough when checked, a valid proof
\* and a total under the deny threshold.
THEOREM TokensAreEarned == Spec => []TokenEarned
<1>1. IInv => TokenEarned
  <2> SUFFICES ASSUME IInv, NEW r \in Requests, Passed(r)
               PROVE  /\ sent[r].id \in Issued
                      /\ checked[r] - issuedAt[sent[r].id] <= TTL
                      /\ sent[r].pow /\ sent[r].score < DenyThreshold
    BY DEF TokenEarned
  <2>1. Hit(r) /\ Fresh(r) /\ Outcome(r) = 302
    BY DEF IInv, LocalsOK, LocalOK
  <2>2. sent[r].id \in Issued /\ issued[r] = issuedAt[sent[r].id]
    BY <2>1 DEF IInv, LocalsOK, LocalOK
  <2>3. sent[r].score \in Nat
    <3>1. sent[r] \in Sent
      BY DEF IInv, TypeOK
    <3>2. sent[r].score \in Scores \cup {0}
      BY <3>1 DEF Sent
    <3>3. Scores \cup {0} \subseteq Nat
      BY ScoreAssumption
    <3> QED BY <3>2, <3>3
  <2>4. sent[r].pow /\ ~(sent[r].score >= DenyThreshold)
    BY <2>1 DEF Outcome
  <2> QED BY <2>1, <2>2, <2>3, <2>4, ScoreAssumption DEF Fresh
<1> QED BY <1>1, Inductive, PTL
-----------------------------------------------------------------------------
\* While no more ids than the cache holds have been handed out, an id leaves the
\* cache only because some request looked it up.
KeptUnlessLookedUp ==
  /\ IsFiniteSet(Issued)
  /\ \/ Cardinality(Issued) > Capacity
     \/ \A id \in Issued : \/ id \in Range(cache)
                            \/ \E q \in Requests : Hit(q) /\ sent[q].id = id

\* What may stand behind a refusal of request r.
Cause(r) == \/ Hit(r) /\ ~Fresh(r)
            \/ \E q \in Requests \ {r} : sent[q].id = sent[r].id /\ Hit(q)
            \/ Cardinality(Issued) > Capacity
RefusalOK(r) ==
  /\ pc[r] = "idle" => sent[r].id = NoId
  /\ sent[r].id \in Issued \cup {NoId}
  /\ status[r] = 400 /\ sent[r].pow /\ sent[r].id \in Ids => Cause(r)

\* The inductive invariant for refusals, on top of IInv.
RInv == KeptUnlessLookedUp /\ \A r \in Requests : RefusalOK(r)

\* What every step leaves true: a hit stays the hit it was, with the age that was
\* read once it was acted on.
LEMMA HitsStay ==
  ASSUME IInv, Next, NEW q \in Requests, Hit(q)
  PROVE  Hit(q)' /\ sent'[q] = sent[q]
<1>1. pc[q] \notin {"idle", "get"}
  BY DEF IInv, LocalsOK, LocalOK
<1>2. CASE Tick \/ HandleChallenge
  BY <1>2 DEF Tick, HandleChallenge
<1>3. ASSUME NEW r \in Requests, Arrive(r)
      PROVE  Hit(q)' /\ sent'[q] = sent[q]
  BY <1>1, <1>3 DEF IInv, TypeOK, Arrive
<1>4. ASSUME NEW r \in Requests, GetId(r)
      PROVE  Hit(q)' /\ sent'[q] = sent[q]
  BY <1>1, <1>4 DEF IInv, TypeOK, GetId
<1>5. ASSUME NEW r \in Requests, CheckAge(r) \/ RemoveId(r) \/ Finish(r)
      PROVE  Hit(q)' /\ sent'[q] = sent[q]
  BY <1>5 DEF CheckAge, RemoveId, Finish
<1> QED BY <1>2, <1>3, <1>4, <1>5 DEF Next

\* A step that hands out no id, loses no key and takes no hit back keeps what is
\* known about lost keys.
LEMMA KeptStays ==
  ASSUME IInv, KeptUnlessLookedUp, Next, issuedAt' = issuedAt,
         \A id \in Range(cache) \ Range(cache') :
           \E q \in Requests : Hit(q) /\ sent[q].id = id
  PROVE  KeptUnlessLookedUp'
<1>1. Issued' = Issued
  BY DEF Issued
<1>2. \A q \in Requests : Hit(q) => Hit(q)' /\ sent'[q] = sent[q]
  BY HitsStay
<1> QED BY <1>1, <1>2 DEF KeptUnlessLookedUp

\* Handing an id out evicts a key only when the cache is full, and a full cache
\* and one more id are more ids than it holds.
LEMMA KeptByHandleChallenge ==
  ASSUME IInv, KeptUnlessLookedUp, HandleChallenge PROVE KeptUnlessLookedUp'
<1>1. PICK id \in Ids \ Issued :
        /\ cache' = AddKey(cache, id, Capacity)
        /\ issuedAt' = [issuedAt EXCEPT ![id] = now]
        /\ UNCHANGED <<now, pc, sent, issued, checked, status, after>>
  BY Zenon DEF HandleChallenge, Stamp
<1>2. Issued' = Issued \cup {id}
  BY <1>1 DEF IInv, TypeOK, Issued
<1>3. /\ IsFiniteSet(Issued) /\ Cardinality(Issued) \in Nat
      /\ IsFiniteSet(Issued') /\ Cardinality(Issued') = Cardinality(Issued) + 1
  BY <1>2, FS_CardinalityType, FS_AddElement DEF KeptUnlessLookedUp
<1>4. /\ cache \in Seq(Ids) /\ Distinct(cache) /\ Len(cache) \in Nat
      /\ Len(cache) <= Capacity /\ Range(cache) \subseteq Issued
  BY DEF IInv, TypeOK, CacheBounded
<1>5. CASE Len(cache) < Capacity
  <2>1. Range(cache') = Range(cache) \cup {id}
    BY <1>1, <1>4, <1>5, AddKeyKeeps, CapacityAssumption
  <2>2. CASE Cardinality(Issued) > Capacity
    BY <1>3, <2>2, CapacityAssumption DEF KeptUnlessLookedUp
  <2>3. CASE \A i \in Issued : \/ i \in Range(cache)
                               \/ \E q \in Requests : Hit(q) /\ sent[q].id = i
    <3>1. \A q \in Requests : Hit(q) => Hit(q)' /\ sent'[q] = sent[q]
      BY <1>1
    <3> QED BY <1>2, <1>3, <2>1, <2>3, <3>1 DEF KeptUnlessLookedUp
  <2> QED BY <2>2, <2>3 DEF KeptUnlessLookedUp
<1>6. CASE Len(cache) = Capacity
  <2>1. Cardinality(Range(cache)) = Capacity
    BY <1>4, <1>6, DistinctLength
  <2>2. Cardinality(Range(cache)) <= Cardinality(Issued)
    BY <1>3, <1>4, FS_Subset
  <2> QED BY <1>3, <2>1, <2>2, CapacityAssumption DEF KeptUnlessLookedUp
<1> QED BY <1>4, <1>5, <1>6, CapacityAssumption

\* No step takes an id back.
LEMMA IssuedGrows == ASSUME IInv, Next PROVE Issued \subseteq Issued'
<1>1. CASE HandleChallenge
  BY <1>1 DEF HandleChallenge, Stamp, IInv, TypeOK, Issued
<1>2. CASE issuedAt' = issuedAt
  BY <1>2 DEF Issued
<1> QED BY <1>1, <1>2 DEF Next, Tick, Arrive, GetId, CheckAge, RemoveId, Finish

\* A lost key was looked up, whatever step is taken.
LEMMA KeptInductive ==
  ASSUME IInv, KeptUnlessLookedUp, Next PROVE KeptUnlessLookedUp'
<1>1. CASE HandleChallenge
  BY <1>1, KeptByHandleChallenge
<1>2. CASE Tick
  BY <1>2, KeptStays DEF Tick
<1>3. ASSUME NEW r \in Requests, Arrive(r) \/ CheckAge(r) \/ Finish(r)
      PROVE  KeptUnlessLookedUp'
  BY <1>3, KeptStays DEF Arrive, CheckAge, Finish
<1>4. ASSUME NEW r \in Requests, GetId(r) PROVE KeptUnlessLookedUp'
  <2>1. Range(cache') = Range(cache)
    <3>1. CASE sent[r].id \in Ids
      BY <1>4, <3>1, TouchLemma DEF GetId, IInv, TypeOK, CacheBounded
    <3>2. CASE sent[r].id \notin Ids
      <4>1. sent[r].id \notin Range(cache)
        BY <3>2 DEF IInv, CacheBounded, Issued
      <4> QED BY <1>4, <4>1 DEF Touch, GetId
    <3> QED BY <3>1, <3>2
  <2> QED BY <1>4, <2>1, KeptStays DEF GetId
<1>5. ASSUME NEW r \in Requests, RemoveId(r) PROVE KeptUnlessLookedUp'
  <2>1. Hit(r) /\ sent[r].id \in Ids
    BY <1>5 DEF IInv, LocalsOK, LocalOK, RemoveId, Issued
  <2>2. Range(cache') = Range(cache) \ {sent[r].id}
    BY <1>5, <2>1, WithoutLemma DEF RemoveId, IInv, TypeOK, CacheBounded
  <2> QED BY <1>5, <2>1, <2>2, KeptStays DEF RemoveId
<1> QED BY <1>1, <1>2, <1>3, <1>4, <1>5 DEF Next
\* An answered request's fields are final, and so is the cause of its refusal.
LEMMA AnsweredStays ==
  ASSUME IInv, Next, NEW r \in Requests, pc[r] = "done"
  PROVE  /\ sent'[r] = sent[r] /\ issued'[r] = issued[r]
         /\ checked'[r] = checked[r] /\ status'[r] = status[r] /\ pc'[r] = "done"
<1>1. CASE Tick \/ HandleChallenge
  BY <1>1 DEF Tick, HandleChallenge
<1>2. ASSUME NEW q \in Requests, Arrive(q) \/ GetId(q) \/ CheckAge(q) \/ RemoveId(q) \/ Finish(q)
      PROVE  /\ sent'[r] = sent[r] /\ issued'[r] = issued[r]
             /\ checked'[r] = checked[r] /\ status'[r] = status[r] /\ pc'[r] = "done"
  <2>1. q # r
    BY <1>2 DEF Arrive, GetId, CheckAge, RemoveId, Finish
  <2> QED BY <1>2, <2>1 DEF IInv, TypeOK, Arrive, GetId, CheckAge, RemoveId, Finish, Goto, Answer
<1> QED BY <1>1, <1>2 DEF Next

\* Once there is a cause for refusing an answered request there always is one.
LEMMA CauseStays ==
  ASSUME IInv, KeptUnlessLookedUp, Next, NEW r \in Requests, pc[r] = "done", Cause(r)
  PROVE  Cause(r)'
<1>1. CASE Hit(r) /\ ~Fresh(r)
  BY <1>1, AnsweredStays DEF Cause, Fresh
<1>2. CASE \E q \in Requests \ {r} : sent[q].id = sent[r].id /\ Hit(q)
  BY <1>2, AnsweredStays, HitsStay DEF Cause
<1>3. CASE Cardinality(Issued) > Capacity
  <2>1. IsFiniteSet(Issued) /\ IsFiniteSet(Issued') /\ Issued \subseteq Issued'
    BY KeptInductive, IssuedGrows DEF KeptUnlessLookedUp
  <2>2. /\ Cardinality(Issued) \in Nat /\ Cardinality(Issued') \in Nat
        /\ Cardinality(Issued) <= Cardinality(Issued')
    BY <2>1, FS_Subset, FS_CardinalityType
  <2> QED BY <1>3, <2>2, CapacityAssumption DEF Cause
<1> QED BY <1>1, <1>2, <1>3 DEF Cause

\* A request is refused with 400 for a malformed body, at a miss, for its age or
\* for its proof of work; each time the cause is there.
LEMMA RefusalInductive ==
  ASSUME IInv, RInv, Next, NEW r \in Requests PROVE RefusalOK(r)'
<1>1. /\ RefusalOK(r) /\ KeptUnlessLookedUp /\ Issued \subseteq Issued'
      /\ LocalOK(r) /\ TypeOK /\ Issued \subseteq Ids
  BY IssuedGrows DEF RInv, IInv, LocalsOK, Issued
<1>2. CASE pc[r] = "done"
  <2>1. /\ sent'[r] = sent[r] /\ status'[r] = status[r] /\ pc'[r] = "done"
    BY <1>2, AnsweredStays
  <2>2. Cause(r) => Cause(r)'
    BY <1>1, <1>2, CauseStays
  <2> QED BY <1>1, <2>1, <2>2 DEF RefusalOK
<1>3. CASE pc'[r] = pc[r] /\ sent'[r] = sent[r] /\ status'[r] = status[r] /\ pc[r] # "done"
  BY <1>1, <1>3 DEF RefusalOK, LocalOK
<1>4. CASE Arrive(r)
  <2>1. /\ pc[r] = "idle" /\ sent[r].id = NoId /\ status[r] = 0 /\ pc'[r] # "idle"
        /\ sent'[r] = sent[r] \/ (status'[r] = 0 /\ sent'[r].id \in Issued \cup {NoId})
    BY <1>1, <1>4 DEF Arrive, RefusalOK, LocalOK, TypeOK, Goto, Answer
  <2> QED BY <1>1, <2>1, IdAssumption DEF RefusalOK
<1>5. CASE GetId(r)
  <2>1. /\ sent'[r] = sent[r] /\ pc'[r] # "idle" /\ issued[r] = Never
        /\ status'[r] = 400 => sent[r].id \notin Range(cache) /\ issued' = issued
        /\ issuedAt' = issuedAt /\ sent' = sent
    BY <1>1, <1>5 DEF GetId, TypeOK, Goto, Answer, LocalOK
  <2>2. ASSUME status'[r] = 400, sent[r].id \in Ids PROVE Cause(r)'
    <3>1. sent[r].id \in Issued
      BY <1>1, <2>2, IdAssumption DEF RefusalOK
    <3>2. CASE Cardinality(Issued) > Capacity
      BY <2>1, <3>2 DEF Cause, Issued
    <3>3. CASE \E q \in Requests : Hit(q) /\ sent[q].id = sent[r].id
      BY <2>1, <2>2, <3>3 DEF Cause
    <3> QED BY <1>1, <2>1, <2>2, <3>1, <3>2, <3>3 DEF KeptUnlessLookedUp
  <2> QED BY <1>1, <2>1, <2>2 DEF RefusalOK
<1>6. CASE CheckAge(r)
  <2>1. sent' = sent /\ pc'[r] # "idle" /\ status'[r] = 0
    BY <1>1, <1>6 DEF CheckAge, TypeOK, Goto, LocalOK
  <2> QED BY <1>1, <2>1 DEF RefusalOK
<1>7. CASE RemoveId(r)
  <2>1. /\ sent' = sent /\ pc'[r] # "idle" /\ issued' = issued /\ checked' = checked
        /\ Hit(r)
        /\ status'[r] = 400 => ~Fresh(r)
    BY <1>1, <1>7 DEF RemoveId, TypeOK, Goto, Answer, LocalOK
  <2> QED BY <1>1, <2>1 DEF RefusalOK, Cause, Fresh
<1>8. CASE Finish(r)
  <2>1. /\ sent' = sent /\ pc'[r] # "idle"
        /\ status'[r] = 400 => ~sent[r].pow
    BY <1>1, <1>8 DEF Finish, TypeOK, Goto, Answer, Outcome
  <2> QED BY <1>1, <2>1 DEF RefusalOK
<1>9. ASSUME NEW q \in Requests \ {r},
             Arrive(q) \/ GetId(q) \/ CheckAge(q) \/ RemoveId(q) \/ Finish(q)
      PROVE  pc'[r] = pc[r] /\ sent'[r] = sent[r] /\ status'[r] = status[r]
  BY <1>1, <1>9 DEF TypeOK, Arrive, GetId, CheckAge, RemoveId, Finish, Goto, Answer
<1>10. CASE Tick \/ HandleChallenge
  <2>1. pc'[r] = pc[r] /\ sent'[r] = sent[r] /\ status'[r] = status[r]
    BY <1>10 DEF Tick, HandleChallenge
  <2> QED BY <1>2, <1>3, <2>1
<1> QED BY <1>2, <1>3, <1>4, <1>5, <1>6, <1>7, <1>8, <1>9, <1>10 DEF Next

\* A good solution of an id that was handed out is refused only because the id
\* had expired, another request had looked it up, or the cache had overflowed.
THEOREM RefusalsHaveCause == Spec => []RefusedForCause
<1>1. Init => RInv
  <2> SUFFICES ASSUME Init PROVE RInv
    OBVIOUS
  <2>1. Issued = {}
    BY DEF Init, Issued
  <2>2. KeptUnlessLookedUp
    BY <2>1, FS_EmptySet DEF KeptUnlessLookedUp
  <2>3. ASSUME NEW r \in Requests PROVE RefusalOK(r)
    BY IdAssumption DEF Init, RefusalOK
  <2> QED BY <2>2, <2>3 DEF RInv
<1>2. IInv /\ RInv /\ [Next]_vars => RInv'
  <2>1. ASSUME IInv, RInv, Next PROVE RInv'
    BY <2>1, KeptInductive, RefusalInductive DEF RInv
  <2>2. ASSUME RInv, UNCHANGED vars PROVE RInv'
    BY <2>2 DEF vars, RInv, KeptUnlessLookedUp, RefusalOK, Cause, Issued, Fresh
  <2> QED BY <2>1, <2>2
<1>3. IInv /\ RInv => RefusedForCause
  <2> SUFFICES ASSUME IInv, RInv, NEW r \in Requests,
                      status[r] = 400, sent[r].pow, sent[r].id \in Ids
               PROVE  \/ Hit(r) /\ checked[r] - issued[r] > TTL
                      \/ \E q \in Requests \ {r} : sent[q].id = sent[r].id /\ Hit(q)
                      \/ Cardinality(Issued) > Capacity
    BY DEF RefusedForCause
  <2>1. Cause(r)
    BY DEF RInv, RefusalOK
  <2>2. ASSUME Hit(r), ~Fresh(r) PROVE checked[r] - issued[r] > TTL
    BY <2>2, TimeAssumption DEF IInv, TypeOK, Fresh
  <2> QED BY <2>1, <2>2 DEF Cause
<1> QED BY <1>1, <1>2, <1>3, Inductive, PTL DEF Spec
=============================================================================
