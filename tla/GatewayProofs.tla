---------------------------- MODULE GatewayProofs ----------------------------
(* Invariance proofs for how requests are served, for every number of      *)
(* handlers, calls, upstreams and requests: the daemon's process           *)
(* (Lifecycle, as L), an application's calls (SdkClient, as S) and a       *)
(* browser's visit (Visit).                                                *)
EXTENDS MCGateway, TLAPS

\* The provers get more than their usual time.
USE SMTT(60)

-----------------------------------------------------------------------------
\* The daemon's process.
Early == {"load", "build", "spawn", "ready", "notify", "wait", "failed", "killed"}

\* The servers main has stopped by the time it stands at p.
StoppedBefore(p) == CASE p = "metrics" -> {"main"}
                      [] p = "admin" -> {"main", "metrics"}
                      [] p \in {"close", "exited"} -> L!Servers
                      [] p \in Early \cup {"main"} -> {}

LTypeOK == /\ main \in Early \cup L!Stopping \cup {"exited"}
           /\ shut \subseteq L!Servers
           /\ active \in [L!Servers -> Nat]
           /\ expired \in BOOLEAN /\ ready \in BOOLEAN

\* The inductive invariant: main stops the servers in turn, and a server it has
\* left behind has no handler running unless the deadline has passed.
LInv == /\ LTypeOK
        /\ main \in Early => shut = {}
        /\ ready => main \in Early
        /\ cache = "closed" => main \in {"close", "exited"}
        /\ \A s \in StoppedBefore(main) : s \in shut /\ (expired \/ active[s] = 0)

USE DEF L!Servers, L!Stopping, Early

\* Each step of main, of the timer and of the servers preserves the invariant.
LEMMA LifecycleInductive == LInv /\ [L!Next]_(L!vars) => LInv'
<1> SUFFICES ASSUME LInv, [L!Next]_(L!vars) PROVE LInv'
  OBVIOUS
<1> USE DEF LInv, LTypeOK, StoppedBefore
<1>1. CASE L!Load \/ L!Build \/ L!Spawn \/ L!SetReady \/ L!Notify
  <2>1. main' \in Early /\ main \in Early \ {"wait"} /\ UNCHANGED <<shut, active, expired>>
        /\ ready' \in BOOLEAN
    BY <1>1, Zenon DEF L!Load, L!Build, L!Spawn, L!SetReady, L!Notify
  <2>2. cache' # "closed" \/ cache' = cache
    BY <1>1 DEF L!Load, L!Build, L!Spawn, L!SetReady, L!Notify
  <2> QED BY <2>1, <2>2
<1>2. CASE L!Wake \/ L!CloseCache \/ L!Exit
  <2>1. CASE L!Wake
    BY <2>1, Zenon DEF L!Wake
  <2>2. CASE L!CloseCache
    BY <2>2 DEF L!CloseCache
  <2>3. CASE L!Exit
    BY <2>3 DEF L!Exit
  <2> QED BY <1>2, <2>1, <2>2, <2>3
<1>3. ASSUME NEW s \in L!Servers, L!Shutdown(s) PROVE LInv'
  BY <1>3 DEF L!Shutdown
<1>4. ASSUME NEW s \in L!Servers, L!StopReturns(s) PROVE LInv'
  BY <1>4 DEF L!StopReturns, L!StopOrder
<1>5. CASE L!Signal
  BY <1>5, Zenon DEF L!Signal, L!Exited
<1>6. CASE L!Expire
  BY <1>6 DEF L!Expire
<1>7. ASSUME NEW s \in L!Servers, L!Listen(s) \/ L!Serve(s) \/ L!ServeReturns(s) PROVE LInv'
  BY <1>7 DEF L!Listen, L!Serve, L!ServeReturns
<1>8. ASSUME NEW s \in L!Servers, L!Accept(s) \/ L!Finish(s) PROVE LInv'
  BY <1>8 DEF L!Accept, L!Finish
<1>9. CASE UNCHANGED L!vars
  BY <1>9 DEF L!vars
<1> QED BY <1>1, <1>2, <1>3, <1>4, <1>5, <1>6, <1>7, <1>8, <1>9, ZenonT(40)
        DEF L!Next, L!MainStep, L!Goroutine

\* Readiness is down before the first listener closes, and neither the cache nor
\* the process ends under a running handler before the deadline.
THEOREM ShutdownIsOrderly == L!Spec => []ShutsDownInOrder
<1>1. L!Init => LInv
  <2> SUFFICES ASSUME L!Init PROVE LInv
    OBVIOUS
  <2>1. main \in Early /\ StoppedBefore(main) = {}
    BY DEF L!Init, StoppedBefore
  <2>2. LTypeOK
    BY Zenon DEF L!Init, LTypeOK
  <2> QED BY <2>1, <2>2 DEF L!Init, LInv
<1>2. LInv /\ [L!Next]_(L!vars) => LInv'
  BY LifecycleInductive
<1>3. LInv => ShutsDownInOrder
  BY DEF LInv, LTypeOK, StoppedBefore, ShutsDownInOrder, L!ShutsDownInOrder
<1> QED BY <1>1, <1>2, <1>3, PTL DEF L!Spec
-----------------------------------------------------------------------------
\* An application's calls. An answer: a verdict of the daemon's, or whatever
\* another service says.
AnswerOK(a) ==
  a # <<>> /\ a[1] = 200 =>
    a[2] \in S!Verdicts \cup IF daemon THEN {} ELSE {"page", "missing", "unknown", "null"}

STypeOK == /\ call \in [Calls -> {"idle", "waiting", "body", "decided", "done"}]
           /\ work \in [Calls -> {"none", "running", "done"}]
           /\ rest \in [Calls -> Nat]
           /\ DOMAIN answer = Calls /\ DOMAIN decided = Calls /\ DOMAIN effect = Calls

\* Without an answer, or with only part of one, or with one the SDK cannot use, it
\* is for failOpen to say.
NoVerdict(c) == S!Received(c) => S!Unusable(Sdk[c], answer[c])

\* What stands behind a decision that lets a request through.
Justified(c) == \/ failOpen /\ NoVerdict(c)
                \/ /\ S!Received(c) /\ answer[c][1] = 200
                   /\ \/ answer[c][2] = "ALLOW"
                      \/ ~daemon /\ answer[c][2] = "missing"
                      \/ ~daemon /\ answer[c][2] = "unknown" /\ Sdk[c] = "node"

\* The inductive invariant: an answer is there once the daemon is done with the
\* call, parts of it are to come for as long as the client has not decided, and a
\* late answer never takes away what justified serving the request.
CallOK(c) ==
  /\ AnswerOK(answer[c])
  /\ call[c] = "idle" => work[c] = "none"
  /\ work[c] = "done" <=> answer[c] # <<>>
  /\ call[c] \in {"waiting", "body"} /\ answer[c] # <<>> => rest[c] > 0
  /\ call[c] = "body" => answer[c] # <<>>
  /\ call[c] \in {"decided", "done"} /\ S!Effect(decided[c]) = "served" => Justified(c)
  /\ effect[c] = "served" => call[c] = "done" /\ S!Effect(decided[c]) = "served"
SInv == STypeOK /\ \A c \in Calls : CallOK(c)

\* A call whose fields a step leaves alone stays as it was.
LEMMA CallStays ==
  ASSUME NEW d \in Calls, CallOK(d), daemon' = daemon, failOpen' = failOpen, call'[d] = call[d],
         work'[d] = work[d], answer'[d] = answer[d], rest'[d] = rest[d],
         decided'[d] = decided[d], effect'[d] = effect[d]
  PROVE  CallOK(d)'
<1>1. Justified(d) => Justified(d)'
  BY DEF Justified, NoVerdict, S!Received
<1>2. AnswerOK(answer[d]) => AnswerOK(answer[d])'
  BY DEF AnswerOK
<1> QED BY <1>1, <1>2 DEF CallOK

\* The middleware asks: nothing has been answered yet.
LEMMA AskInductive == ASSUME SInv, NEW c \in Calls, S!Ask(c) PROVE SInv'
<1>1. STypeOK'
  BY DEF SInv, STypeOK, S!Ask
<1>2. ASSUME NEW d \in Calls \ {c} PROVE CallOK(d)'
  BY CallStays DEF SInv, STypeOK, S!Ask
<1>3. CallOK(c)'
  <2>1. /\ call[c] = "idle" /\ call'[c] = "waiting" /\ work'[c] = "running" /\ work[c] = "none"
        /\ CallOK(c) /\ UNCHANGED <<daemon, answer, effect>>
    BY DEF SInv, STypeOK, S!Ask, CallOK
  <2> QED BY <2>1 DEF CallOK, AnswerOK
<1> QED BY <1>1, <1>2, <1>3 DEF SInv

\* What another service says is an answer.
LEMMA ForeignAnswers == ASSUME ~daemon, NEW a \in S!Foreign PROVE a # <<>> /\ AnswerOK(a)
<1>1. CASE a = <<502>>
  BY <1>1 DEF AnswerOK
<1>2. CASE a = <<200, "page", FALSE>>
  BY <1>2 DEF AnswerOK
<1>3. CASE a = <<200, "missing", FALSE>>
  BY <1>3 DEF AnswerOK
<1>4. CASE a = <<200, "unknown", TRUE>>
  BY <1>4 DEF AnswerOK
<1>5. CASE a = <<200, "null", FALSE>>
  BY <1>5 DEF AnswerOK
<1> QED BY <1>1, <1>2, <1>3, <1>4, <1>5, Zenon DEF S!Foreign

\* The daemon, or another service, answers, perhaps a caller who has given up: its
\* answer is then one of which parts are still to come.
LEMMA ServeInductive ==
  ASSUME SInv, NEW c \in Calls, S!Serve(c) PROVE SInv'
<1>1. PICK n \in 1..MaxParts : rest' = [rest EXCEPT ![c] = n]
  BY Zenon DEF S!Serve
<1>2. /\ work[c] = "running" /\ work' = [work EXCEPT ![c] = "done"]
      /\ UNCHANGED <<daemon, failOpen, call, peer, timer, decided, effect>>
  BY DEF S!Serve
<1>3. \E a : a # <<>> /\ AnswerOK(a) /\ answer' = [answer EXCEPT ![c] = a]
  <2>1. CASE answer' = [answer EXCEPT ![c] = <<400>>]
    <3>1. <<400>> # <<>> /\ AnswerOK(<<400>>)
      BY DEF AnswerOK
    <3> QED BY <2>1, <3>1, Zenon
  <2>2. ASSUME NEW v \in S!Verdicts, NEW r \in BOOLEAN,
               answer' = [answer EXCEPT ![c] = <<200, v, r>>]
        PROVE  \E a : a # <<>> /\ AnswerOK(a) /\ answer' = [answer EXCEPT ![c] = a]
    <3>1. <<200, v, r>> # <<>> /\ AnswerOK(<<200, v, r>>)
      BY DEF AnswerOK
    <3> QED BY <2>2, <3>1, Zenon
  <2>3. ASSUME ~daemon, NEW a \in S!Foreign, answer' = [answer EXCEPT ![c] = a]
        PROVE  a # <<>> /\ AnswerOK(a)
    BY <2>3, ForeignAnswers, Zenon
  <2>4. \/ answer' = [answer EXCEPT ![c] = <<400>>]
        \/ \E v \in S!Verdicts, r \in BOOLEAN : answer' = [answer EXCEPT ![c] = <<200, v, r>>]
        \/ ~daemon /\ \E a \in S!Foreign : answer' = [answer EXCEPT ![c] = a]
    BY Zenon DEF S!Serve
  <2>5. CASE ~daemon /\ \E a \in S!Foreign : answer' = [answer EXCEPT ![c] = a]
    BY <2>3, <2>5, Zenon
  <2>6. CASE \E v \in S!Verdicts, r \in BOOLEAN : answer' = [answer EXCEPT ![c] = <<200, v, r>>]
    BY <2>2, <2>6, Zenon
  <2> QED BY <2>1, <2>4, <2>5, <2>6, Zenon
<1>4. PICK a : a # <<>> /\ AnswerOK(a) /\ answer' = [answer EXCEPT ![c] = a]
  BY <1>3, Zenon
<1>5. n \in Nat /\ n > 0
  BY <1>1, GatewayAssumption
<1>6. STypeOK'
  BY <1>1, <1>2, <1>4, <1>5 DEF SInv, STypeOK
<1>7. ASSUME NEW d \in Calls \ {c} PROVE CallOK(d)'
  BY <1>1, <1>2, <1>4, CallStays DEF SInv, STypeOK
<1>8. CallOK(c)'
  <2>1. /\ rest'[c] = n /\ answer'[c] = a /\ work'[c] = "done"
        /\ answer[c] = <<>> /\ CallOK(c)
    BY <1>1, <1>2, <1>4 DEF SInv, STypeOK, CallOK
  <2>2. Justified(c) => Justified(c)'
    BY <1>2, <1>5, <2>1 DEF Justified, NoVerdict, S!Received
  <2>3. AnswerOK(answer[c])'
    BY <1>2, <1>4, <2>1 DEF AnswerOK
  <2> QED BY <1>2, <1>4, <1>5, <2>1, <2>2, <2>3 DEF CallOK
<1> QED BY <1>6, <1>7, <1>8 DEF SInv

\* decide returns v: every other call and the answer are untouched.
LEMMA ReturnInductive ==
  ASSUME SInv, NEW c \in Calls, NEW v, S!Return(c, v),
         call[c] \in {"waiting", "body"},
         rest' \in [Calls -> Nat], \A d \in Calls \ {c} : rest'[d] = rest[d],
         S!Effect(v) = "served" => Justified(c)'
  PROVE  SInv'
<1>1. STypeOK'
  BY Zenon DEF SInv, STypeOK, S!Return
<1>2. ASSUME NEW d \in Calls \ {c} PROVE CallOK(d)'
  BY CallStays DEF SInv, STypeOK, S!Return
<1>3. CallOK(c)'
  <2>1. /\ call'[c] = "decided" /\ decided'[c] = v /\ CallOK(c)
        /\ UNCHANGED <<daemon, work, answer, effect>>
    BY DEF SInv, STypeOK, S!Return
  <2>2. AnswerOK(answer[c])'
    BY <2>1 DEF CallOK, AnswerOK
  <2> QED BY <2>1, <2>2 DEF CallOK
<1> QED BY <1>1, <1>2, <1>3 DEF SInv

\* Without a verdict decide returns the fallback.
LEMMA FallbackInductive ==
  ASSUME SInv, NEW c \in Calls, S!Return(c, S!Fallback),
         call[c] \in {"waiting", "body"},
         rest' \in [Calls -> Nat], \A d \in Calls \ {c} : rest'[d] = rest[d],
         NoVerdict(c)'
  PROVE  SInv'
<1>1. S!Effect(S!Fallback) = "served" => failOpen
  BY DEF S!Fallback, S!Effect
<1>2. failOpen' = failOpen
  BY DEF S!Return
<1>3. S!Effect(S!Fallback) = "served" => Justified(c)'
  BY <1>1, <1>2 DEF Justified
<1> QED BY <1>3, ReturnInductive

\* The headers: a status other than 200 ends a call of the Node client.
LEMMA HeadersInductive == ASSUME SInv, NEW c \in Calls, S!Headers(c) PROVE SInv'
<1>1. CallOK(c) /\ STypeOK /\ call[c] = "waiting" /\ answer[c] # <<>>
  BY DEF SInv, S!Headers
<1>2. CASE answer[c][1] # 200 /\ S!Return(c, S!Fallback) /\ UNCHANGED rest
  <2>1. NoVerdict(c)'
    BY <1>2 DEF NoVerdict, S!Unusable, S!Return
  <2> QED BY <1>1, <1>2, <2>1, FallbackInductive DEF STypeOK
<1>3. CASE /\ call' = [call EXCEPT ![c] = "body"]
           /\ UNCHANGED <<daemon, failOpen, peer, work, answer, rest, decided, effect>>
  <2>1. STypeOK'
    BY <1>1, <1>3 DEF STypeOK
  <2>2. ASSUME NEW d \in Calls \ {c} PROVE CallOK(d)'
    BY <1>1, <1>3, CallStays DEF SInv, STypeOK
  <2>3. CallOK(c)'
    BY <1>1, <1>3 DEF STypeOK, CallOK, AnswerOK
  <2> QED BY <2>1, <2>2, <2>3 DEF SInv
<1> QED BY <1>2, <1>3 DEF S!Headers

\* The body: the last part brings the decision, or the fallback if it is of no use.
LEMMA BodyInductive == ASSUME SInv, NEW c \in Calls, S!Body(c) PROVE SInv'
<1>1. /\ CallOK(c) /\ STypeOK /\ call[c] = "body" /\ answer[c] # <<>>
      /\ rest[c] \in Nat /\ rest[c] > 0 /\ rest' = [rest EXCEPT ![c] = @ - 1]
  BY DEF SInv, STypeOK, S!Body, CallOK
<1>2. /\ rest' \in [Calls -> Nat] /\ rest'[c] = rest[c] - 1
      /\ \A d \in Calls \ {c} : rest'[d] = rest[d]
  BY <1>1 DEF STypeOK
<1>3. CASE rest[c] = 1 /\ ~S!Unusable(Sdk[c], answer[c])
  <2> DEFINE v == S!Parse(Sdk[c], answer[c])
  <2>1. S!Return(c, v)
    BY <1>3 DEF S!Body
  <2>2. UNCHANGED <<daemon, answer>> /\ S!Received(c)' /\ AnswerOK(answer[c])
    BY <1>1, <1>2, <1>3, <2>1 DEF S!Return, S!Received, CallOK
  <2>3. S!Effect(v) = "served" =>
          \/ answer[c][2] = "ALLOW"
          \/ ~daemon /\ answer[c][2] = "missing"
          \/ ~daemon /\ answer[c][2] = "unknown" /\ Sdk[c] # "python"
    BY <1>1, <1>3, <2>2 DEF S!Parse, S!Effect, S!Unusable, AnswerOK, S!Verdicts
  <2>4. Sdk[c] # "python" => Sdk[c] = "node"
    BY SdkAssumption
  <2>5. S!Effect(v) = "served" => Justified(c)'
    BY <1>3, <2>2, <2>3, <2>4 DEF Justified, S!Unusable
  <2> QED BY <1>1, <1>2, <2>1, <2>5, ReturnInductive
<1>4. CASE rest[c] = 1 /\ S!Unusable(Sdk[c], answer[c])
  <2>1. S!Return(c, S!Fallback)
    BY <1>4 DEF S!Body, S!Parse
  <2>2. NoVerdict(c)'
    BY <1>4, <2>1 DEF NoVerdict, S!Return, S!Unusable
  <2> QED BY <1>1, <1>2, <2>1, <2>2, FallbackInductive
<1>5. CASE rest[c] # 1
  <2>1. UNCHANGED <<daemon, failOpen, call, peer, timer, work, answer, decided, effect>>
    BY <1>5 DEF S!Body
  <2>2. STypeOK'
    BY <1>1, <1>2, <2>1 DEF STypeOK
  <2>3. ASSUME NEW d \in Calls \ {c} PROVE CallOK(d)'
    BY <1>2, <2>1, CallStays DEF SInv
  <2>4. CallOK(c)'
    BY <1>1, <1>2, <1>5, <2>1 DEF CallOK, AnswerOK
  <2> QED BY <2>2, <2>3, <2>4 DEF SInv
<1> QED BY <1>3, <1>4, <1>5

\* A failure or the timer ends a call before the last part of an answer.
LEMMA BreakInductive ==
  ASSUME SInv, NEW c \in Calls, S!Fail(c) \/ S!Timeout(c) PROVE SInv'
<1>1. /\ CallOK(c) /\ STypeOK /\ call[c] \in {"waiting", "body"}
      /\ S!Return(c, S!Fallback) /\ UNCHANGED rest
  BY DEF SInv, S!Fail, S!Timeout
<1>2. NoVerdict(c)'
  BY <1>1 DEF NoVerdict, CallOK, S!Return, S!Received
<1> QED BY <1>1, <1>2, FallbackInductive DEF STypeOK

\* The middleware does what the decision says.
LEMMA EnforceInductive == ASSUME SInv, NEW c \in Calls, S!Enforce(c) PROVE SInv'
<1>1. /\ CallOK(c) /\ STypeOK /\ call[c] = "decided"
      /\ call' = [call EXCEPT ![c] = "done"]
      /\ effect' = [effect EXCEPT ![c] = S!Effect(decided[c])]
      /\ UNCHANGED <<daemon, failOpen, peer, timer, work, answer, rest, decided>>
  BY DEF SInv, S!Enforce
<1>2. STypeOK'
  BY <1>1 DEF STypeOK
<1>3. ASSUME NEW d \in Calls \ {c} PROVE CallOK(d)'
  BY <1>1, CallStays DEF SInv, STypeOK
<1>4. CallOK(c)'
  <2>1. /\ call'[c] = "done" /\ effect'[c] = S!Effect(decided[c])
        /\ Justified(c) => Justified(c)'
    BY <1>1 DEF STypeOK, Justified, NoVerdict, S!Received
  <2> QED BY <1>1, <2>1 DEF CallOK, AnswerOK
<1> QED BY <1>2, <1>3, <1>4 DEF SInv

\* The invariant of the calls holds in every reachable state.
THEOREM CallsAreSound == S!Spec => []SInv
<1>1. S!Init => SInv
  <2> SUFFICES ASSUME S!Init PROVE SInv
    OBVIOUS
  <2>1. STypeOK
    BY DEF S!Init, STypeOK
  <2>2. ASSUME NEW c \in Calls PROVE CallOK(c)
    BY DEF S!Init, CallOK, AnswerOK
  <2> QED BY <2>1, <2>2 DEF SInv
<1>2. SInv /\ [S!Next]_(S!vars) => SInv'
  <2> SUFFICES ASSUME SInv, [S!Next]_(S!vars) PROVE SInv'
    OBVIOUS
  <2>1. ASSUME NEW c \in Calls,
               \/ S!Ask(c) \/ S!Serve(c) \/ S!Headers(c) \/ S!Body(c)
               \/ S!Fail(c) \/ S!Timeout(c) \/ S!Enforce(c)
        PROVE  SInv'
    BY <2>1, AskInductive, ServeInductive, HeadersInductive, BodyInductive,
       BreakInductive, EnforceInductive
  <2>2. CASE UNCHANGED S!vars
    <3>1. STypeOK'
      BY <2>2 DEF S!vars, SInv, STypeOK
    <3>2. ASSUME NEW d \in Calls PROVE CallOK(d)'
      BY <2>2, CallStays DEF S!vars, SInv
    <3> QED BY <3>1, <3>2 DEF SInv
  <2> QED BY <2>1, <2>2 DEF S!Next
<1> QED BY <1>1, <1>2, PTL DEF S!Spec

\* A request is served only on an ALLOW received in whole, without a usable answer
\* where failOpen says so, or on another service's answer without a verdict the SDK
\* knows, for any number of concurrent calls of either SDK (Client.decide and the
\* middleware).
THEOREM ServingHasCause == S!Spec => []ServedForCause
<1>1. SInv => ServedForCause
  BY DEF SInv, CallOK, Justified, NoVerdict, ServedForCause, S!ServedForCause
<1> QED BY <1>1, CallsAreSound, PTL
-----------------------------------------------------------------------------
\* A browser's visit. First what the Director's operators do to a path.

\* Sequences with the same entries are the same.
LEMMA SeqEqual ==
  ASSUME NEW V, NEW s \in Seq(V), NEW t \in Seq(V), Len(s) = Len(t),
         \A i \in 1..Len(s) : s[i] = t[i]
  PROVE  s = t
OBVIOUS

\* What concatenation, Tail and SubSeq return.
LEMMA ConcatEach ==
  ASSUME NEW V, NEW s \in Seq(V), NEW t \in Seq(V)
  PROVE  /\ s \o t \in Seq(V) /\ Len(s \o t) = Len(s) + Len(t)
         /\ \A i \in 1..(Len(s) + Len(t)) : (s \o t)[i] = IF i <= Len(s) THEN s[i] ELSE t[i - Len(s)]
OBVIOUS

LEMMA TailEach ==
  ASSUME NEW V, NEW s \in Seq(V), s # <<>>
  PROVE  /\ Head(s) \in V /\ Tail(s) \in Seq(V) /\ Len(Tail(s)) = Len(s) - 1
         /\ \A i \in 1..Len(Tail(s)) : Tail(s)[i] = s[i + 1]
OBVIOUS

LEMMA PartEach ==
  ASSUME NEW V, NEW s, NEW m \in Int, NEW n \in Int, \A i \in m..n : s[i] \in V
  PROVE  /\ SubSeq(s, m, n) \in Seq(V) /\ Len(SubSeq(s, m, n)) = IF m <= n THEN n - m + 1 ELSE 0
         /\ \A i \in 1..(n - m + 1) : SubSeq(s, m, n)[i] = s[m + i - 1]
OBVIOUS

\* Unescaping leaves no escaped slash behind, so that doing it twice changes
\* nothing, and leaves a path that starts at the root one that does.
LEMMA UnescapeLemma ==
  ASSUME NEW K, "/" \in K, NEW p \in Seq(K)
  PROVE  /\ Unescape(p) \in Seq(K) /\ Len(Unescape(p)) = Len(p)
         /\ \A i \in 1..Len(p) : Unescape(p)[i] # "%2F"
         /\ (\A i \in 1..Len(p) : p[i] # "%2F") => Unescape(p) = p
         /\ p # <<>> /\ Head(p) = "/" => Unescape(p) # <<>> /\ Head(Unescape(p)) = "/"
<1> DEFINE u == Unescape(p)
<1>1. /\ u \in Seq(K) /\ Len(u) = Len(p)
      /\ \A i \in 1..Len(p) : u[i] = IF p[i] = "%2F" THEN "/" ELSE p[i]
  <2>1. /\ Len(p) \in Nat /\ DOMAIN p = 1..Len(p)
        /\ \A i \in 1..Len(p) : p[i] \in K
    OBVIOUS
  <2>2. u = [i \in 1..Len(p) |-> IF p[i] = "%2F" THEN "/" ELSE p[i]]
    BY <2>1 DEF Unescape
  <2>3. u \in [1..Len(p) -> K]
    BY <2>1, <2>2
  <2> QED BY <2>1, <2>2, <2>3
<1> HIDE DEF u
<1>2. \A i \in 1..Len(p) : u[i] # "%2F"
  BY <1>1
<1>3. (\A i \in 1..Len(p) : p[i] # "%2F") => u = p
  BY <1>1, SeqEqual
<1>4. p # <<>> /\ Head(p) = "/" => u # <<>> /\ Head(u) = "/"
  BY <1>1
<1> QED BY <1>1, <1>2, <1>3, <1>4 DEF u

\* Joining a path that starts at the root to the target's adds and loses no slash.
LEMMA JoinPathLemma ==
  ASSUME NEW K, NEW a \in Seq(K), NEW b \in Seq(K), b # <<>>, Head(b) = "/"
  PROVE  JoinPath(a, b) = Prefix(a) \o b /\ Prefix(a) \in Seq(K)
<1>1. CASE a # <<>> /\ Last(a) = "/"
  <2> DEFINE f == SubSeq(a, 1, Len(a) - 1)
             t == Tail(b)
             x == a \o t
             y == f \o b
  <2>1. /\ Len(a) \in Nat \ {0} /\ a[Len(a)] = "/" /\ Prefix(a) = f
        /\ JoinPath(a, b) = x
    BY <1>1 DEF Last, Front, Prefix, JoinPath
  <2>2. f \in Seq(K) /\ Len(f) = Len(a) - 1 /\ \A i \in 1..(Len(a) - 1) : f[i] = a[i]
    <3> DEFINE n == Len(a) - 1
               g == SubSeq(a, 1, n)
    <3>1. n \in Nat /\ \A i \in 1..n : a[i] \in K
      BY <2>1
    <3> HIDE DEF n
    <3>2. /\ g \in Seq(K)
          /\ Len(g) = IF 1 <= n THEN n - 1 + 1 ELSE 0
          /\ \A i \in 1..(n - 1 + 1) : g[i] = a[1 + i - 1]
      BY <3>1, PartEach
    <3> HIDE DEF g
    <3>3. Len(g) = n
      BY <3>1, <3>2
    <3>4. \A i \in 1..n : i \in 1..(n - 1 + 1) /\ 1 + i - 1 = i
      BY <3>1
    <3>5. \A i \in 1..n : g[i] = a[i]
      BY <3>2, <3>4
    <3> QED BY <3>2, <3>3, <3>5 DEF n, g
  <2>3. /\ t \in Seq(K) /\ Len(t) = Len(b) - 1 /\ Len(b) \in Nat \ {0}
        /\ \A i \in 1..(Len(b) - 1) : t[i] = b[i + 1]
        /\ b[1] = "/"
    BY TailEach
  <2> HIDE DEF f, t
  <2>4. /\ x \in Seq(K) /\ Len(x) = Len(a) + Len(t)
        /\ \A i \in 1..(Len(a) + Len(t)) : x[i] = IF i <= Len(a) THEN a[i] ELSE t[i - Len(a)]
    BY <2>3, ConcatEach, Zenon
  <2>5. /\ y \in Seq(K) /\ Len(y) = Len(f) + Len(b)
        /\ \A i \in 1..(Len(f) + Len(b)) : y[i] = IF i <= Len(f) THEN f[i] ELSE b[i - Len(f)]
    BY <2>2, ConcatEach, Zenon
  <2> HIDE DEF x, y
  <2>6. Len(x) = Len(a) + Len(b) - 1 /\ Len(y) = Len(x)
    BY <2>1, <2>2, <2>3, <2>4, <2>5
  <2>7. ASSUME NEW i \in 1..(Len(a) + Len(b) - 1) PROVE x[i] = y[i]
    <3>1. i \in Nat /\ i >= 1 /\ i <= Len(a) + Len(b) - 1
      BY <2>1, <2>3
    <3>2. CASE i < Len(a)
      <4>1. x[i] = a[i] /\ y[i] = f[i] /\ f[i] = a[i]
        BY <2>1, <2>2, <2>3, <2>4, <2>5, <3>1, <3>2
      <4> QED BY <4>1
    <3>3. CASE i = Len(a)
      <4>1. x[i] = a[Len(a)]
        BY <2>1, <2>3, <2>4, <3>1, <3>3
      <4>2. /\ i \in 1..(Len(f) + Len(b)) /\ ~(i <= Len(f)) /\ i - Len(f) = 1
        BY <2>1, <2>2, <2>3, <3>1, <3>3
      <4>3. y[i] = b[1]
        BY <2>5, <4>2
      <4> QED BY <2>1, <2>3, <4>1, <4>3
    <3>4. CASE i > Len(a)
      <4> DEFINE k == i - Len(a)
      <4>1. k \in 1..(Len(b) - 1) /\ i - Len(f) = k + 1
        BY <2>1, <2>2, <2>3, <3>1, <3>4
      <4>2. x[i] = t[k]
        BY <2>1, <2>3, <2>4, <3>1, <3>4
      <4>3. y[i] = b[i - Len(f)]
        BY <2>1, <2>2, <2>3, <2>5, <3>1, <3>4
      <4> HIDE DEF k
      <4> QED BY <2>3, <4>1, <4>2, <4>3
    <3> QED BY <2>1, <3>1, <3>2, <3>3, <3>4
  <2>8. x = y
    BY <2>4, <2>5, <2>6, <2>7, SeqEqual
  <2> QED BY <2>1, <2>2, <2>8 DEF y
<1>2. CASE ~(a # <<>> /\ Last(a) = "/")
  BY <1>2 DEF Prefix, JoinPath
<1> QED BY <1>1, <1>2

\* The path the transport sends stands for the target's path and the request's.
LEMMA DirectorPath ==
  ASSUME NEW K, "/" \in K, NEW target, NEW req, target.path \in Seq(K),
         \A i \in DOMAIN target.path : target.path[i] # "%2F",
         req.path \in Seq(K), req.path # <<>>, Head(req.path) = "/"
  PROVE  Unescape(Director(target, req).path) = Prefix(target.path) \o Unescape(req.path)
<1> DEFINE b == Unescape(req.path)
           f == Prefix(target.path)
           j == f \o b
           u == [ParseURL(req.path) EXCEPT !.path = JoinPath(target.path, @)]
<1>1. /\ b \in Seq(K) /\ b # <<>> /\ Head(b) = "/"
      /\ \A i \in 1..Len(b) : b[i] # "%2F"
  BY UnescapeLemma
<1>2. u.path = JoinPath(target.path, b) /\ Director(target, req).path = EscapedPath(u)
  BY DEF ParseURL, Director
<1> HIDE DEF b
<1>3. JoinPath(target.path, b) = j /\ f \in Seq(K)
  BY <1>1, JoinPathLemma
<1>4. \A i \in 1..Len(f) : f[i] # "%2F"
  BY DEF Prefix, Front
<1> HIDE DEF u, f
<1>5. j \in Seq(K) /\ \A i \in 1..Len(j) : j[i] # "%2F"
  <2>1. /\ j \in Seq(K) /\ Len(j) = Len(f) + Len(b)
        /\ \A i \in 1..(Len(f) + Len(b)) : j[i] = IF i <= Len(f) THEN f[i] ELSE b[i - Len(f)]
    BY <1>1, <1>3, ConcatEach
  <2>2. Len(f) \in Nat /\ Len(b) \in Nat
    BY <1>1, <1>3
  <2> HIDE DEF j
  <2>3. ASSUME NEW i \in 1..Len(j) PROVE j[i] # "%2F"
    <3>1. CASE i <= Len(f)
      <4>1. i \in 1..Len(f) /\ j[i] = f[i]
        BY <2>1, <2>2, <3>1
      <4> QED BY <1>4, <4>1
    <3>2. CASE ~(i <= Len(f))
      <4>1. i - Len(f) \in 1..Len(b) /\ j[i] = b[i - Len(f)]
        BY <2>1, <2>2, <3>2
      <4> QED BY <1>1, <4>1
    <3> QED BY <3>1, <3>2
  <2> QED BY <2>1, <2>3
<1>6. Unescape(j) = j
  BY <1>5, UnescapeLemma, Zenon
<1> HIDE DEF j
<1>7. Unescape(EscapedPath(u)) = j
  BY <1>2, <1>3, <1>6 DEF EscapedPath
<1> QED BY <1>2, <1>7 DEF b, f, j

\* A header's value is the client's or the gateway's.
Written(v) == v \in Seq(STRING) \/ v = <<"gateway">>

\* No connection header gets past the Director, and the gateway's own do.
LEMMA DirectorHeaders ==
  ASSUME NEW hs, NEW listed, \A n \in DOMAIN hs : hs[n] \in Seq(STRING)
  PROVE  LET h == DirectHeaders(hs, listed)
         IN  /\ DOMAIN h \cap HopByHopHeaders = {}
             /\ \A n \in Forwarded : n \in DOMAIN h /\ h[n] = <<"gateway">>
             /\ \A n \in DOMAIN h : Written(h[n])
<1> DEFINE w == WithAgent(hs)
           t == StripHopByHop(w, listed)
           h == Set(t, Forwarded, "gateway")
<1>1. Written(<<"gateway">>) /\ \A n \in DOMAIN hs : Written(hs[n])
  BY DEF Written
<1>2. \A n \in DOMAIN w : Written(w[n])
  BY <1>1 DEF WithAgent, Set
<1> HIDE DEF w
<1>3. /\ DOMAIN t \cap HopByHopHeaders = {}
      /\ \A n \in DOMAIN t : n \in DOMAIN w /\ t[n] = w[n]
  BY DEF StripHopByHop, Restrict
<1> HIDE DEF t
<1>4. DOMAIN h = DOMAIN t \cup Forwarded
      /\ \A n \in DOMAIN h : h[n] = IF n \in Forwarded THEN <<"gateway">> ELSE t[n]
  BY DEF Set
<1>5. Forwarded \cap HopByHopHeaders = {}
  BY DEF Forwarded, HopByHopHeaders
<1> HIDE DEF h
<1>6. DOMAIN h \cap HopByHopHeaders = {}
  BY <1>3, <1>4, <1>5
<1>7. \A n \in Forwarded : n \in DOMAIN h /\ h[n] = <<"gateway">>
  BY <1>4
<1>8. \A n \in DOMAIN h : Written(h[n])
  BY <1>1, <1>2, <1>3, <1>4
<1> QED BY <1>6, <1>7, <1>8 DEF h, t, w, DirectHeaders

\* ReverseProxy adds TE for a client that takes trailers and its word to
\* X-Forwarded-For, and leaves what the Director set alone.
LEMMA ForwardHeaders ==
  ASSUME NEW target, NEW req, \A n \in DOMAIN req.headers : req.headers[n] \in Seq(STRING)
  PROVE  LET h == Forward(target, req).headers
         IN  /\ DOMAIN h \cap HopByHopHeaders
                  \subseteq IF TakesTrailers(req.headers) THEN {"TE"} ELSE {}
             /\ \A n \in Forwarded : n \in DOMAIN h /\ h[n] = <<"gateway">>
             /\ "X-Forwarded-For" \in DOMAIN h /\ Last(h["X-Forwarded-For"]) = "gateway"
<1> DEFINE d == DirectHeaders(req.headers, req.listed)
           te == IF TakesTrailers(req.headers) THEN {"TE"} ELSE {}
           k == Set(Restrict(d, DOMAIN d \ LibraryHopHeaders), Again(d, req), "gateway")
           c == WithClient(k)
           h == WithAgent(c)
           prior == IF "X-Forwarded-For" \in DOMAIN k THEN k["X-Forwarded-For"] ELSE <<>>
<1>1. /\ DOMAIN d \cap HopByHopHeaders = {}
      /\ \A n \in Forwarded : n \in DOMAIN d /\ d[n] = <<"gateway">>
      /\ \A n \in DOMAIN d : Written(d[n])
  BY DirectorHeaders, Zenon
<1> HIDE DEF d
<1>2. Again(d, req) = te
  <2>1. "Upgrade" \notin DOMAIN d
    BY <1>1 DEF HopByHopHeaders
  <2> QED BY <2>1 DEF Again
<1>3. /\ te \subseteq {"TE"}
      /\ Forwarded \cap (LibraryHopHeaders \cup {"TE", "X-Forwarded-For", "User-Agent"}) = {}
      /\ HopByHopHeaders \cap {"X-Forwarded-For", "User-Agent"} = {}
      /\ "TE" # "X-Forwarded-For" /\ "User-Agent" # "X-Forwarded-For"
  BY DEF Forwarded, LibraryHopHeaders, HopByHopHeaders
<1> HIDE DEF te
<1>4. /\ DOMAIN k = (DOMAIN d \ LibraryHopHeaders) \cup te
      /\ \A n \in DOMAIN k : k[n] = IF n \in te THEN <<"gateway">> ELSE d[n]
  BY <1>2 DEF Set, Restrict
<1>5. Written(<<"gateway">>)
  BY DEF Written
<1>6. ASSUME NEW n \in DOMAIN k PROVE Written(k[n])
  <2>1. CASE n \in te
    BY <1>4, <1>5, <2>1, Zenon
  <2>2. CASE n \notin te
    BY <1>1, <1>4, <2>2, Zenon
  <2> QED BY <2>1, <2>2
<1> HIDE DEF k
<1>7. /\ DOMAIN c = DOMAIN k \cup {"X-Forwarded-For"}
      /\ \A n \in DOMAIN k \ {"X-Forwarded-For"} : c[n] = k[n]
      /\ c["X-Forwarded-For"] = Append(prior, "gateway")
  BY DEF WithClient
<1>8. prior \in Seq(STRING) \/ prior = <<"gateway">> \/ prior = <<>>
  BY <1>6 DEF Written
<1> HIDE DEF c, prior
<1>9. Last(Append(prior, "gateway")) = "gateway"
  BY <1>8 DEF Last
<1>10. /\ DOMAIN h \subseteq DOMAIN c \cup {"User-Agent"} /\ DOMAIN c \subseteq DOMAIN h
       /\ \A n \in DOMAIN c : h[n] = c[n]
  BY DEF WithAgent, Set
<1> HIDE DEF h
<1>11. DOMAIN h \cap HopByHopHeaders \subseteq te
  BY <1>1, <1>3, <1>4, <1>7, <1>10
<1>12. \A n \in Forwarded : n \in DOMAIN h /\ h[n] = <<"gateway">>
  BY <1>1, <1>3, <1>4, <1>7, <1>10
<1>13. "X-Forwarded-For" \in DOMAIN h /\ Last(h["X-Forwarded-For"]) = "gateway"
  BY <1>7, <1>9, <1>10, Zenon
<1>14. Forward(target, req).headers = h
  BY DEF Forward, Director, ServeHTTP, h, c, k, d
<1> QED BY <1>11, <1>12, <1>13, <1>14 DEF te

\* What a browser may be asking for: a request it was given, or one it was sent
\* back with after a challenge, to the root.
Browsing(r) ==
  /\ r.path \in Seq(STRING) /\ r.path # <<>> /\ Head(r.path) = "/"
  /\ r = [path |-> r.path, query |-> r.query, headers |-> r.headers, listed |-> r.listed]
  /\ \A n \in DOMAIN r.headers : r.headers[n] \in Seq(STRING)

\* A visit: the upstream is one of those configured and the request one a browser
\* makes; the application's own middleware forwards nothing, and at the gateway a
\* page that was served is the upstream's answer to the request as the proxy
\* forwards it, on a verdict of ALLOW.
VInv ==
  /\ upstream \in Upstreams /\ route \in {"gateway", "node", "python"}
  /\ Browsing(request)
  /\ route # "gateway" => seen = Nothing
  /\ pc = "served" =>
       /\ verdict = "ALLOW"
       /\ route = "gateway" => seen = Forward(upstream, request)

LEMMA VisitInductive == VInv /\ [Next]_vars => VInv'
<1> SUFFICES ASSUME VInv, [Next]_vars PROVE VInv'
  OBVIOUS
<1> USE DEF VInv, setting
<1>1. CASE Navigate
  <2>1. Browsing(request')
    BY <1>1, VisitAssumption DEF Navigate, Browsing
  <2> QED BY <1>1, <2>1 DEF Navigate
<1>2. CASE Lapse
  BY <1>2 DEF Lapse
<1>3. CASE Allow
  BY <1>3 DEF Allow, Judged, Result
<1>4. CASE Challenge
  BY <1>4 DEF Challenge, Judged, Result
<1>5. CASE Deny
  BY <1>5 DEF Deny, Judged, Result
<1>6. CASE HandleChallenge
  BY <1>6 DEF HandleChallenge, Result
<1>7. CASE LoadBundle
  BY <1>7 DEF LoadBundle
<1>8. CASE RunChallenge
  BY <1>8 DEF RunChallenge
<1>9. CASE Verify
  <2>1. Browsing([request EXCEPT !.path = <<"/">>])
    BY DEF Browsing
  <2>2. Browsing(request')
    BY <1>9, <2>1 DEF Verify
  <2> QED BY <1>9, <2>2 DEF Verify
<1>10. CASE UNCHANGED vars
  BY <1>10 DEF vars
<1> HIDE DEF VInv
<1> QED
  BY <1>1, <1>2, <1>3, <1>4, <1>5, <1>6, <1>7, <1>8, <1>9, <1>10, Zenon DEF Next, Step

\* A page a browser is served through the gateway is the answer to a request that
\* was judged ALLOW and reached the upstream on the path that was judged, with
\* none of the connection's headers but TE for a client that takes trailers, and
\* with the gateway's own word on where it came from, for every upstream, request
\* and policy (Proxy.Forward).
THEOREM ServedAsJudged == Spec => []ForwardedAsJudged
<1>1. Init => VInv
  BY VisitAssumption DEF Init, VInv, Browsing
<1>2. VInv => ForwardedAsJudged
  <2> SUFFICES ASSUME VInv, seen # Nothing, pc = "served"
               PROVE  /\ verdict = "ALLOW"
                      /\ Unescape(seen.path) = Prefix(upstream.path) \o Unescape(request.path)
                      /\ DOMAIN seen.headers \cap HopByHopHeaders
                           \subseteq IF TakesTrailers(request.headers) THEN {"TE"} ELSE {}
                      /\ \A n \in Forwarded :
                           n \in DOMAIN seen.headers /\ seen.headers[n] = <<"gateway">>
                      /\ "X-Forwarded-For" \in DOMAIN seen.headers
                      /\ Last(seen.headers["X-Forwarded-For"]) = "gateway"
    BY DEF ForwardedAsJudged
  <2>1. verdict = "ALLOW" /\ seen = Forward(upstream, request)
    BY DEF VInv
  <2>2. Unescape(seen.path) = Prefix(upstream.path) \o Unescape(request.path)
    <3>1. /\ upstream.path \in Seq(STRING)
          /\ \A i \in DOMAIN upstream.path : upstream.path[i] # "%2F"
      BY VisitAssumption DEF VInv
    <3>2. request.path \in Seq(STRING) /\ request.path # <<>> /\ Head(request.path) = "/"
      BY DEF VInv, Browsing
    <3>3. Forward(upstream, request).path = Director(upstream, request).path
      BY DEF Forward, Director
    <3> QED BY <2>1, <3>1, <3>2, <3>3, DirectorPath
  <2>3. \A n \in DOMAIN request.headers : request.headers[n] \in Seq(STRING)
    BY DEF VInv, Browsing
  <2> QED BY <2>1, <2>2, <2>3, ForwardHeaders
<1> QED
  BY <1>1, <1>2, VisitInductive, PTL DEF Spec

\* At the gateway a browser is redirected once at most and never gives up on a
\* loop: the challenge page it is sent to is served, not judged. This is the safety
\* part of NavigationsSettle.
NeverLoops ==
  route = "gateway" => pc # "looping" /\ hops <= 1
OneHop ==
  /\ hops \in Nat
  /\ route = "gateway" => pc # "looping" /\ (hops = 0 \/ (hops = 1 /\ at = "challenge"))

\* NeverLoops holds in every reachable state: the root handler redirects to the
\* challenge page, which it serves without judging it (buildMainHandler).
THEOREM GatewayRedirectsOnce == Spec => []NeverLoops
<1>1. Init => OneHop
  BY DEF Init, OneHop
<1>2. OneHop /\ [Next]_vars => OneHop'
  <2> SUFFICES ASSUME OneHop, [Next]_vars PROVE OneHop'
    OBVIOUS
  <2> USE DEF OneHop, setting
  <2>1. CASE Navigate
    BY <2>1 DEF Navigate
  <2>2. CASE Lapse
    BY <2>2 DEF Lapse
  <2>3. CASE Allow
    BY <2>3 DEF Allow, Judged, Result
  <2>4. CASE Challenge
    BY <2>4, VisitAssumption DEF Challenge, Judged, Routed, Result
  <2>5. CASE Deny
    BY <2>5 DEF Deny, Judged, Result
  <2>6. CASE HandleChallenge
    BY <2>6 DEF HandleChallenge, Result
  <2>7. CASE LoadBundle
    BY <2>7 DEF LoadBundle
  <2>8. CASE RunChallenge
    BY <2>8 DEF RunChallenge
  <2>9. CASE Verify
    BY <2>9 DEF Verify
  <2>10. CASE UNCHANGED vars
    BY <2>10 DEF vars
  <2> QED
    BY <2>1, <2>2, <2>3, <2>4, <2>5, <2>6, <2>7, <2>8, <2>9, <2>10 DEF Next, Step
<1>3. OneHop => NeverLoops
  BY DEF OneHop, NeverLoops
<1> QED
  BY <1>1, <1>2, <1>3, PTL DEF Spec
=============================================================================
