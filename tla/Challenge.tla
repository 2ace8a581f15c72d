----------------------------- MODULE Challenge -----------------------------
(* The challenge service: ids handed out by HandleChallenge, kept in an    *)
(* LRU cache, and spent by concurrent HandleVerify requests. Each library  *)
(* call on the cache is atomic; ValidateChallengeID makes two of them with *)
(* a clock read in between, so other requests run between its steps.       *)
EXTENDS Integers, FiniteSets, LRU

CONSTANTS Ids,            \* the uuids a run can draw
          NoId,           \* an id the service never handed out
          Requests,       \* verify requests, each served once
          Capacity,       \* 4096 in the code
          TTL,            \* challengeTTL, in ticks
          MaxTime,        \* bound on the clock
          Scores,         \* totals a fingerprint report can add up to
          DenyThreshold

ASSUME CapacityAssumption == Capacity \in Nat \ {0}
ASSUME TimeAssumption == TTL \in Nat /\ MaxTime \in Nat
ASSUME ScoreAssumption == Scores \subseteq Nat /\ DenyThreshold \in Nat
ASSUME IdAssumption == NoId \notin Ids

VARIABLES now,        \* the clock
          cache,      \* keys of ChallengeIssuer.ids, least recently used first
          issuedAt,   \* the value stored with each id, Never before it is drawn
          pc,         \* where each verify request is
          sent,       \* what its client sent: id, proof of work, report total
          issued,     \* the value its ids.Get returned, Never if none
          checked,    \* the clock when it computed time.Since(issued)
          status,     \* its HTTP status, 0 while it runs
          after       \* history: the requests answered before it arrived
svc == <<now, cache, issuedAt>>
vars == <<svc, pc, sent, issued, checked, status, after>>

Never == -1
Times == 0..MaxTime
Issued == {id \in Ids : issuedAt[id] # Never}
Sent == [id : Ids \cup {NoId}, pow : BOOLEAN, score : Scores \cup {0}]
Answered == {r \in Requests : pc[r] = "done"}

Init == /\ now = 0
        /\ cache = <<>>
        /\ issuedAt = [id \in Ids |-> Never]
        /\ pc = [r \in Requests |-> "idle"]
        /\ sent = [r \in Requests |-> [id |-> NoId, pow |-> FALSE, score |-> 0]]
        /\ issued = [r \in Requests |-> Never]
        /\ checked = [r \in Requests |-> 0]
        /\ status = [r \in Requests |-> 0]
        /\ after = [r \in Requests |-> {}]

Goto(r, label) == pc' = [pc EXCEPT ![r] = label]
Answer(r, code) == Goto(r, "done") /\ status' = [status EXCEPT ![r] = code]

Tick == /\ now < MaxTime
        /\ now' = now + 1
        /\ UNCHANGED <<cache, issuedAt, pc, sent, issued, checked, status, after>>

\* The value NewChallengeID stores with the id.
Stamp == now

\* HandleChallenge: draw a fresh id and remember when.
HandleChallenge == \E id \in Ids \ Issued :
  /\ cache' = AddKey(cache, id, Capacity)
  /\ issuedAt' = [issuedAt EXCEPT ![id] = Stamp]
  /\ UNCHANGED <<now, pc, sent, issued, checked, status, after>>

\* HandleVerify, up to the decoded body: 405 for another method, 400 for a
\* body that is not the expected JSON, otherwise on to ValidateChallengeID.
Arrive(r) ==
  /\ pc[r] = "idle"
  /\ after' = [after EXCEPT ![r] = Answered]
  /\ \/ \E code \in {405, 400} : Answer(r, code) /\ UNCHANGED sent
     \/ /\ Goto(r, "get") /\ UNCHANGED status
        /\ \E id \in Issued \cup {NoId}, pow \in BOOLEAN, score \in Scores :
             sent' = [sent EXCEPT ![r] = [id |-> id, pow |-> pow, score |-> score]]
  /\ UNCHANGED <<svc, issued, checked>>

\* ids.Get: a hit also makes the id the most recently used one.
GetId(r) ==
  /\ pc[r] = "get"
  /\ cache' = Touch(cache, sent[r].id)
  /\ IF sent[r].id \in Range(cache)
     THEN /\ Goto(r, "age") /\ UNCHANGED status
          /\ issued' = [issued EXCEPT ![r] = issuedAt[sent[r].id]]
     ELSE Answer(r, 400) /\ UNCHANGED issued
  /\ UNCHANGED <<now, issuedAt, sent, checked, after>>

\* time.Since(issued)
CheckAge(r) ==
  /\ pc[r] = "age"
  /\ Goto(r, "remove")
  /\ checked' = [checked EXCEPT ![r] = now]
  /\ UNCHANGED <<svc, sent, issued, status, after>>

\* The age test; one mutant drops it, one is off by one.
FreshAlways(r) == TRUE
FreshStrict(r) == checked[r] - issued[r] < TTL
Fresh(r) == checked[r] - issued[r] <= TTL

\* ids.Remove, made on both branches; an expired id is refused. The mutant
\* removes the expired ids only.
RemoveExpired(r) ==
  /\ pc[r] = "remove"
  /\ cache' = IF Fresh(r) THEN cache ELSE Without(cache, sent[r].id)
  /\ IF Fresh(r) THEN Goto(r, "finish") /\ UNCHANGED status ELSE Answer(r, 400)
  /\ UNCHANGED <<now, issuedAt, sent, issued, checked, after>>
RemoveId(r) ==
  /\ pc[r] = "remove"
  /\ cache' = Without(cache, sent[r].id)
  /\ IF Fresh(r) THEN Goto(r, "finish") /\ UNCHANGED status ELSE Answer(r, 400)
  /\ UNCHANGED <<now, issuedAt, sent, issued, checked, after>>

\* The rest of HandleVerify: proof of work, the report's total, the token. (Score
\* returns no error and an HMAC over bytes cannot fail: 500 is never answered.)
Outcome(r) == IF ~sent[r].pow THEN 400
              ELSE IF sent[r].score >= DenyThreshold THEN 403 ELSE 302

Finish(r) ==
  /\ pc[r] = "finish"
  /\ Answer(r, Outcome(r))
  /\ UNCHANGED <<svc, sent, issued, checked, after>>

Next == \/ Tick
        \/ HandleChallenge
        \/ \E r \in Requests : \/ Arrive(r)
                               \/ GetId(r)
                               \/ CheckAge(r)
                               \/ RemoveId(r)
                               \/ Finish(r)

Spec == Init /\ [][Next]_vars
-----------------------------------------------------------------------------
\* Every variable and every request field has its type.
TypeOK == /\ now \in Times
          /\ cache \in Seq(Ids)
          /\ issuedAt \in [Ids -> Times \cup {Never}]
          /\ pc \in [Requests -> {"idle", "get", "age", "remove", "finish", "done"}]
          /\ sent \in [Requests -> Sent]
          /\ issued \in [Requests -> Times \cup {Never}]
          /\ checked \in [Requests -> Times]
          /\ status \in [Requests -> {0, 302, 400, 403, 405}]
          /\ after \in [Requests -> SUBSET Requests]

\* The id cache never grows past its capacity, never lists an id twice and
\* holds only ids that were handed out (ChallengeIssuer.ids).
CacheBounded == /\ Distinct(cache)
                /\ Len(cache) <= Capacity
                /\ Range(cache) \subseteq Issued

Hit(r) == issued[r] # Never
Passed(r) == status[r] = 302

\* A request that got past ids.Remove spent its id whatever came of it (a
\* failed proof of work or a high score included), and a spent id is never in
\* the cache again, however lookups, evictions and new ids interleave.
SpentIdsStayGone ==
  \A r \in Requests :
    Hit(r) /\ pc[r] \in {"finish", "done"} => sent[r].id \notin Range(cache)

\* One challenge id buys two tokens only when the two verify requests overlap:
\* a request that arrives after another was answered never redeems the same id.
NoSequentialReuse ==
  \A r, q \in Requests :
    Passed(r) /\ Passed(q) /\ sent[r].id = sent[q].id => r \notin after[q]

\* A token is only ever issued for an id the service handed out no more than
\* TTL before it was checked, with a valid proof and a total under the limit,
\* although the id's age is read in one step and acted on in later ones.
TokenEarned ==
  \A r \in Requests : Passed(r) =>
    /\ sent[r].id \in Issued
    /\ checked[r] - issuedAt[sent[r].id] <= TTL
    /\ sent[r].pow /\ sent[r].score < DenyThreshold

\* A good solution of an id that was handed out is refused only when the id had
\* expired, another request had looked the same id up, or more ids than the
\* cache holds had been handed out: nothing else makes a browser lose its id.
RefusedForCause ==
  \A r \in Requests :
    status[r] = 400 /\ sent[r].pow /\ sent[r].id \in Ids
    => \/ Hit(r) /\ checked[r] - issued[r] > TTL
       \/ \E q \in Requests \ {r} : sent[q].id = sent[r].id /\ Hit(q)
       \/ Cardinality(Issued) > Capacity
=============================================================================
