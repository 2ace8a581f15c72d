---------------------------- MODULE ClientProofs ----------------------------
(* What a client shows with every request: its pass token and its headers.  *)
(* The tokens, for any number of instances, keys, clients, addresses and    *)
(* user agents: under the documented deployment (KeyInit) the running       *)
(* instances share the key in the file, the key stays, and live tokens are  *)
(* accepted where and only where the policy's bindings allow. The header    *)
(* checks, for any number of edits of a header list of any length.          *)
EXTENDS PassToken, MCBrowserHeaders, ListProofs

\* The provers get more than their usual time.
USE SMTT(60)

\* One instance at a time may write the file, and only while it holds no key;
\* what it is about to write is a key.
OneWriter ==
  /\ file \notin Keys => \A i, j \in fleet : i = j
  /\ \A i \in Instances :
       /\ boot[i] # "down" => i \in fleet
       /\ boot[i] \in {"create", "write"} => file \notin Keys /\ mem[i] \in Keys
       /\ boot[i] = "up" => file \in Keys

KeyInv == KeyTypeOK /\ OneWriter /\ RunningShareTheFile

\* A cookie is signed with the key in the file and carries exactly the bound
\* part of what the client presented when it was issued.
Honest(c) == cookie[c] # NoToken =>
  /\ file \in Keys /\ cookie[c].key = file
  /\ cookie[c].ip = IF "ip" \in issuedTo[c].bound THEN issuedTo[c].ip ELSE NoText
  /\ cookie[c].ua = IF "ua" \in issuedTo[c].bound THEN issuedTo[c].ua ELSE NoText
  /\ cookie[c].ja3 = NoText /\ cookie[c].ja4 = NoText

TokenTypeOK == /\ cookie = [c \in Clients |-> cookie[c]]
               /\ issuedTo = [c \in Clients |-> issuedTo[c]]
               /\ addr \in [Clients -> Addresses]
               /\ agent \in [Clients -> Agents]
TokenInv == TokenTypeOK /\ \A c \in Clients : Honest(c)

\* A provisioned fleet, or a single instance, starts inside the invariant.
LEMMA KeyInitOK == KeyInit => KeyInv
<1> SUFFICES ASSUME KeyInit PROVE KeyInv
    OBVIOUS
<1>1. CASE fleet = Instances /\ \E k \in Keys : file = k /\ drawn = {k}
      BY <1>1, KeyAssumption, Zenon DEF KeyInit, KeyInv, KeyTypeOK, OneWriter, RunningShareTheFile
<1>2. CASE (\E i \in Instances : fleet = {i}) /\ file = Missing /\ drawn = {}
      BY <1>2, KeyAssumption DEF KeyInit, KeyInv, KeyTypeOK, OneWriter, RunningShareTheFile
<1> QED BY <1>1, <1>2 DEF KeyInit

\* A start touches no file and no key.
LEMMA StartOK == ASSUME KeyInv, NEW i \in Instances, Start(i)
                 PROVE  KeyInv' /\ file' = file
BY KeyAssumption DEF KeyInv, KeyTypeOK, OneWriter, RunningShareTheFile, Start, Boot

\* A read leaves the file as it is; only a missing file makes a writer.
LEMMA ReadFileOK == ASSUME KeyInv, NEW i \in Instances, ReadFile(i)
                    PROVE  KeyInv' /\ file' = file
<1>1. CASE file \in Keys /\ Boot(i, "read", "up") /\ mem' = [mem EXCEPT ![i] = file]
           /\ UNCHANGED <<fleet, file, drawn>>
      BY <1>1, KeyAssumption DEF KeyInv, KeyTypeOK, OneWriter, RunningShareTheFile, Boot
<1>2. CASE file = Empty /\ Boot(i, "read", "down") /\ UNCHANGED <<fleet, file, mem, drawn>>
      BY <1>2, KeyAssumption DEF KeyInv, KeyTypeOK, OneWriter, RunningShareTheFile, Boot
<1>3. CASE /\ file = Missing /\ Boot(i, "read", "create")
           /\ \E k \in Keys \ drawn : mem' = [mem EXCEPT ![i] = k] /\ drawn' = drawn \cup {k}
           /\ UNCHANGED <<fleet, file>>
      BY <1>3, KeyAssumption DEF KeyInv, KeyTypeOK, OneWriter, RunningShareTheFile, Boot
<1> QED BY <1>1, <1>2, <1>3 DEF ReadFile

\* The writer is alone, so creating and writing the file replaces no key.
LEMMA WriterOK == ASSUME KeyInv, NEW i \in Instances, CreateFile(i) \/ WriteFile(i)
                  PROVE  KeyInv' /\ file \notin Keys
<1>1. CASE CreateFile(i)
      BY <1>1, KeyAssumption
         DEF KeyInv, KeyTypeOK, OneWriter, RunningShareTheFile, Boot, CreateFile
<1>2. CASE WriteFile(i)
      BY <1>2, KeyAssumption
         DEF KeyInv, KeyTypeOK, OneWriter, RunningShareTheFile, Boot, WriteFile
<1> QED BY <1>1, <1>2

\* A kill loses the instance's memory only.
LEMMA KillOK == ASSUME KeyInv, NEW i \in Instances, Kill(i)
                PROVE  KeyInv' /\ file' = file
BY KeyAssumption DEF KeyInv, KeyTypeOK, OneWriter, RunningShareTheFile, Kill

\* Steps that leave the key's state alone preserve its invariant.
LEMMA KeyStutter == KeyInv /\ UNCHANGED keyVars => KeyInv' /\ file' = file
BY DEF KeyInv, KeyTypeOK, OneWriter, RunningShareTheFile, keyVars

\* Every step of the composed system keeps the key invariant and a persisted key.
LEMMA KeyStep == KeyInv /\ [Next]_vars => KeyInv' /\ (file \in Keys => file' = file)
<1> SUFFICES ASSUME KeyInv, [Next]_vars
             PROVE  KeyInv' /\ (file \in Keys => file' = file)
    OBVIOUS
<1>1. CASE Tick
      BY <1>1, KeyStutter DEF Tick
<1>2. ASSUME NEW i \in Instances, Restart(i) PROVE KeyInv' /\ file' = file
      BY <1>2, StartOK DEF Restart
<1>3. ASSUME NEW i \in Instances, Keyed(i)
      PROVE  KeyInv' /\ (file \in Keys => file' = file)
      BY <1>3, ReadFileOK, WriterOK, KillOK DEF Keyed
<1>4. ASSUME NEW c \in Clients, Move(c) \/ DropCookie(c) PROVE KeyInv' /\ file' = file
      BY <1>4, KeyStutter DEF Move, DropCookie
<1>5. ASSUME NEW i \in Instances, NEW c \in Clients, Issue(i, c) PROVE KeyInv' /\ file' = file
      BY <1>5, KeyStutter DEF Issue
<1>6. CASE UNCHANGED vars
      BY <1>6, KeyStutter DEF vars
<1> QED BY <1>1, <1>2, <1>3, <1>4, <1>5, <1>6 DEF Next

\* Cookies stay honest: an issue copies the bound fields, and nothing else changes
\* a cookie, its history or a persisted key.
LEMMA TokenStep == KeyInv /\ TokenInv /\ [Next]_vars => TokenInv'
<1> SUFFICES ASSUME KeyInv, TokenInv, [Next]_vars PROVE TokenInv'
    OBVIOUS
<1>k. file \in Keys => file' = file
      BY KeyStep
<1>1. ASSUME UNCHANGED <<cookie, issuedTo, addr, agent>> PROVE TokenInv'
      BY <1>1, <1>k DEF TokenInv, TokenTypeOK, Honest
<1>2. CASE Tick
      BY <1>2, <1>1 DEF Tick
<1>3. ASSUME NEW i \in Instances, Restart(i) \/ Keyed(i) PROVE TokenInv'
      BY <1>3, <1>1 DEF Restart, Keyed, tokenVars
<1>4. ASSUME NEW c \in Clients, Move(c) PROVE TokenInv'
      BY <1>4, <1>k DEF Move, TokenInv, TokenTypeOK, Honest
<1>5. ASSUME NEW c \in Clients, DropCookie(c) PROVE TokenInv'
  <2>1. TokenTypeOK'
        BY <1>5, Zenon DEF DropCookie, TokenInv, TokenTypeOK
  <2>2. ASSUME NEW d \in Clients PROVE Honest(d)'
        BY <1>5, <1>k, Zenon DEF DropCookie, TokenInv, TokenTypeOK, Honest
  <2> QED BY <2>1, <2>2 DEF TokenInv
<1>6. ASSUME NEW i \in Instances, NEW c \in Clients, Issue(i, c) PROVE TokenInv'
  <2>1. TokenTypeOK'
        BY <1>6, Zenon DEF Issue, TokenInv, TokenTypeOK
  <2>2. file' = file /\ file \in Keys /\ mem[i] = file
        BY <1>6 DEF Issue, KeyInv, OneWriter, RunningShareTheFile, keyVars
  <2>3. Honest(c)'
    <3>1. cookie'[c] = Claims(i, c)
          BY <1>6 DEF Issue, TokenInv, TokenTypeOK
    <3>2. issuedTo'[c] = [ip |-> addr[c], ua |-> agent[c], bound |-> bindTo[i]]
          BY <1>6 DEF Issue, TokenInv, TokenTypeOK
    <3> QED BY <3>1, <3>2, <2>2 DEF Honest, Claims, Bound
  <2>4. ASSUME NEW d \in Clients, d # c PROVE Honest(d)'
        BY <1>6, <2>2, <2>4, Zenon DEF Issue, TokenInv, TokenTypeOK, Honest
  <2> QED BY <2>1, <2>3, <2>4 DEF TokenInv
<1>7. CASE UNCHANGED vars
      BY <1>7, <1>1 DEF vars, tokenVars
<1> QED BY <1>2, <1>3, <1>4, <1>5, <1>6, <1>7 DEF Next

\* Nobody holds a cookie at the start.
LEMMA TokenInitOK == Init => TokenInv
BY DEF Init, TokenInit, TokenInv, TokenTypeOK, Honest

\* The two invariants hold together, always.
THEOREM TokensInductive == Spec => [](KeyInv /\ TokenInv)
<1>1. Init => KeyInv /\ TokenInv
      BY KeyInitOK, TokenInitOK DEF Init
<1>2. (KeyInv /\ TokenInv) /\ [Next]_vars => (KeyInv /\ TokenInv)'
      BY KeyStep, TokenStep
<1> QED BY <1>1, <1>2, PTL DEF Spec

\* LoadKey: the running instances of a provisioned fleet, or the only instance,
\* hold the key that is in the file, through any kills and restarts.
THEOREM InstancesShareTheKey == Spec => []RunningShareTheFile
<1>1. KeyInv => RunningShareTheFile
      BY DEF KeyInv
<1> QED BY <1>1, TokensInductive, PTL

\* LoadKey's comment: no start replaces a persisted key.
THEOREM KeyIsPersistent == Spec => PersistedKeyStays
<1>1. KeyInv /\ [Next]_vars => [(file \in Keys) => file' = file]_keyVars
      BY KeyStep
<1> QED BY <1>1, TokensInductive, PTL DEF Spec, PersistedKeyStays

\* Verify accepts a token only under the bindings the verifying policy asks for.
THEOREM AcceptanceIsBound == Spec => []AcceptedIsBound
<1>1. KeyInv /\ TokenInv => AcceptedIsBound
  <2> SUFFICES ASSUME TokenInv, NEW c \in Clients, NEW i \in Instances,
                      NEW via \in Routes, Verify(i, c, via)
               PROVE  /\ now < cookie[c].exp
                      /\ "ip" \in bindTo[i] => "ip" \in issuedTo[c].bound /\ addr[c] = issuedTo[c].ip
                      /\ "ua" \in bindTo[i] => \/ Presented(c, via).ua = NoText
                                               \/ /\ "ua" \in issuedTo[c].bound
                                                  /\ SameAgent(Presented(c, via).ua, issuedTo[c].ua)
      BY DEF AcceptedIsBound
  <2>1. addr[c] # NoText /\ Presented(c, via).ip = addr[c]
        BY TokenAssumption DEF TokenInv, TokenTypeOK, Presented
  <2>2. "ip" \in bindTo[i] => "ip" \in issuedTo[c].bound /\ addr[c] = issuedTo[c].ip
        BY <2>1 DEF Verify, BoundFields, TokenInv, Honest
  <2>3. "ua" \in bindTo[i] => \/ Presented(c, via).ua = NoText
                             \/ /\ "ua" \in issuedTo[c].bound
                                /\ SameAgent(Presented(c, via).ua, issuedTo[c].ua)
        BY DEF Verify, BoundFields, SameAgent, TokenInv, Honest
  <2> QED BY <2>2, <2>3 DEF Verify
<1> QED BY <1>1, TokensInductive, PTL

\* A live token is accepted at the gateway by every running instance with the
\* issuer's bindings.
THEOREM LiveTokensAreAccepted == Spec => []GoodTokensAreAccepted
<1>1. KeyInv /\ TokenInv => GoodTokensAreAccepted
  <2> SUFFICES ASSUME KeyInv, TokenInv, NEW c \in Clients, NEW i \in Instances,
                      boot[i] = "up", cookie[c] # NoToken, now < cookie[c].exp,
                      issuedTo[c].bound = bindTo[i],
                      addr[c] = issuedTo[c].ip, SameAgent(agent[c], issuedTo[c].ua)
               PROVE  Verify(i, c, "gateway")
      BY DEF GoodTokensAreAccepted
  <2>1. cookie[c].key = mem[i]
        BY DEF KeyInv, RunningShareTheFile, TokenInv, Honest
  <2>2. /\ Presented(c, "gateway").ip = addr[c] /\ Presented(c, "gateway").ua = agent[c]
        /\ Presented(c, "gateway").ja3 = NoText /\ Presented(c, "gateway").ja4 = NoText
        BY DEF Presented
  <2>3. BoundFields(cookie[c], Presented(c, "gateway"), bindTo[i])
        BY <2>2 DEF BoundFields, SameAgent, TokenInv, Honest
  <2> QED BY <2>1, <2>3 DEF Verify
<1> QED BY <1>1, TokensInductive, PTL

\* The decide API's answer about a token against the root handler's: no JA3 or JA4
\* is ever claimed, so binding them shuts out whoever presents one, and an agent
\* is never matched by a request that shows none.
THEOREM RoutesAgreeOnTokens == Spec => []RoutesAgree
<1>1. TokenInv => RoutesAgree
  <2> SUFFICES ASSUME TokenInv, NEW c \in Clients, NEW i \in Instances
               PROVE  /\ Verify(i, c, "custom")
                           <=> Verify(i, c, "gateway") /\ bindTo[i] \cap {"ja3", "ja4"} = {}
                      /\ "ua" \notin bindTo[i] => (Verify(i, c, "node") <=> Verify(i, c, "gateway"))
                      /\ "ua" \in bindTo[i] /\ Verify(i, c, "node") => cookie[c].ua = NoText
      BY DEF RoutesAgree
  <2> DEFINE g == Presented(c, "gateway")
             n == Presented(c, "node")
             x == Presented(c, "custom")
  <2>1. /\ g.ip = addr[c] /\ n.ip = addr[c] /\ x.ip = addr[c]
        /\ g.ua = agent[c] /\ n.ua = NoText /\ x.ua = agent[c]
        /\ g.ja3 = NoText /\ n.ja3 = NoText /\ x.ja3 # NoText
        /\ g.ja4 = NoText /\ n.ja4 = NoText /\ x.ja4 # NoText
        BY TokenAssumption DEF Presented
  <2> HIDE DEF g, n, x
  <2>2. cookie[c] # NoToken => cookie[c].ja3 = NoText /\ cookie[c].ja4 = NoText
        BY DEF TokenInv, Honest
  <2>3. cookie[c] # NoToken => (BoundFields(cookie[c], x, bindTo[i])
          <=> BoundFields(cookie[c], g, bindTo[i]) /\ bindTo[i] \cap {"ja3", "ja4"} = {})
        BY <2>1, <2>2 DEF BoundFields
  <2>4. "ua" \notin bindTo[i] => (BoundFields(cookie[c], n, bindTo[i])
                                  <=> BoundFields(cookie[c], g, bindTo[i]))
        BY <2>1 DEF BoundFields
  <2>5. "ua" \in bindTo[i] /\ BoundFields(cookie[c], n, bindTo[i]) => cookie[c].ua = NoText
        BY <2>1 DEF BoundFields, SameAgent
  <2> QED BY <2>3, <2>4, <2>5 DEF Verify, g, n, x
<1> QED BY <1>1, TokensInductive, PTL
-----------------------------------------------------------------------------
(***************************************************************************)
(* Header lists. The score is the last value of the greedy walk along the  *)
(* canonical list, which a header that is skipped does not set back.       *)
(***************************************************************************)
Walks(f, s, c) == /\ f \in [0..Len(s) -> Nat] /\ f[0] = 0
                  /\ \A i \in 1..Len(s) : f[i] = L!Advance(f[i - 1], s[i], c)

LEMMA AdvanceMonotone ==
  ASSUME NEW V, NEW c \in Seq(V), NEW h \in V, NEW a \in Nat, NEW b \in Nat, a <= b
  PROVE  /\ L!Advance(a, h, c) \in Nat /\ L!Advance(a, h, c) >= a
         /\ L!Advance(a, h, c) <= L!Advance(b, h, c)
<1> DEFINE x == L!Advance(a, h, c)
           y == L!Advance(b, h, c)
<1>1. (x = a \/ x = a + 1) /\ (y = b \/ y = b + 1) /\ (a = b => x = y)
  BY Zenon DEF L!Advance
<1> HIDE DEF x, y
<1>2. x \in Nat /\ x >= a /\ x <= y
  BY <1>1
<1> QED BY <1>2, Zenon DEF x, y

LEMMA ScoreWalks ==
  ASSUME NEW V, NEW s \in Seq(V), NEW c \in Seq(V)
  PROVE  \E f : Walks(f, s, c) /\ L!SubsequenceScore(s, c) = f[Len(s)]
<1> DEFINE n == Len(s)
           Steps(f) == f = [i \in 0..Len(s) |-> IF i = 0 THEN 0 ELSE L!Advance(f[i - 1], s[i], c)]
           g == CHOOSE f : f = [i \in 0..Len(s) |-> IF i = 0 THEN 0
                                                    ELSE L!Advance(f[i - 1], s[i], c)]
           step == [i \in 1..n |-> [a \in Nat |-> L!Advance(a, s[i], c)]]
<1>0. n \in Nat
  OBVIOUS
<1>1. step \in [1..n -> [Nat -> Nat]]
  <2> SUFFICES ASSUME NEW i \in 1..n, NEW a \in Nat PROVE L!Advance(a, s[i], c) \in Nat
    OBVIOUS
  <2>1. s[i] \in V /\ a <= a
    OBVIOUS
  <2> QED BY <2>1, AdvanceMonotone, Zenon
<1>2. PICK f : Folds(f, n, Nat, 0, step)
  <2> HIDE DEF step, n
  <2>1. 0 \in Nat
    OBVIOUS
  <2> QED BY <1>0, <1>1, <2>1, FoldExists, Zenon
<1>3. /\ f \in [0..n -> Nat] /\ f[0] = 0
      /\ \A i \in 1..n : f[i] = L!Advance(f[i - 1], s[i], c)
  <2>1. f \in [0..n -> Nat] /\ f[0] = 0 /\ \A i \in 1..n : f[i] = step[i][f[i - 1]]
    BY <1>2, Zenon DEF Folds
  <2>2. ASSUME NEW i \in 1..n PROVE f[i] = L!Advance(f[i - 1], s[i], c)
    <3>1. i - 1 \in 0..n
      BY <1>0
    <3>2. f[i - 1] \in Nat
      BY <2>1, <3>1
    <3>3. step[i][f[i - 1]] = L!Advance(f[i - 1], s[i], c)
      BY <3>2, Zenon
    <3> QED BY <2>1, <3>3, Zenon
  <2> QED BY <2>1, <2>2
<1>4. Steps(f)
  <2>1. ASSUME NEW i \in 0..n PROVE f[i] = IF i = 0 THEN 0 ELSE L!Advance(f[i - 1], s[i], c)
    <3>1. i = 0 \/ i \in 1..n
      BY <1>0
    <3> QED BY <1>3, <3>1
  <2>2. f = [i \in 0..n |-> f[i]]
    BY <1>3
  <2> QED BY <2>1, <2>2, Zenon
<1>5. Steps(g)
  <2>1. g = CHOOSE h : Steps(h)
    OBVIOUS
  <2> HIDE DEF Steps, g
  <2> QED BY <1>4, <2>1
<1>6. L!SubsequenceScore(s, c) = g[n]
  BY DEF L!SubsequenceScore
<1> HIDE DEF g
<1>7. \A i \in 0..n : g[i] = f[i]
  <2> DEFINE D == {i \in 0..n : g[i] # f[i]}
  <2> SUFFICES ASSUME D # {} PROVE FALSE
    OBVIOUS
  <2>1. 0 \in 0..n
    BY <1>0
  <2>2. \A i \in 0..n : g[i] = IF i = 0 THEN 0 ELSE L!Advance(g[i - 1], s[i], c)
    BY <1>5, Zenon
  <2>3. D \in SUBSET (0..n) /\ 0 \notin D
    BY <1>3, <2>1, <2>2, Zenon
  <2>4. PICK k \in D : k \in 1..n /\ k # 0 /\ k - 1 \in 0..n /\ k - 1 \notin D
    BY <1>0, <2>3, Descent, Zenon
  <2>5. g[k - 1] = f[k - 1] /\ k \in 0..n /\ g[k] # f[k]
    BY <2>4, Zenon
  <2> QED BY <1>3, <2>2, <2>4, <2>5, Zenon
<1> QED
  <2>1. n \in 0..n
    BY <1>0
  <2>2. Walks(f, s, c)
    BY <1>3 DEF Walks
  <2> QED BY <1>6, <1>7, <2>1, <2>2

\* order.go's skipping: a list that gets one more header walks at least as far.
LEMMA Inserted ==
  ASSUME NEW V, NEW s \in Seq(V), NEW i \in 1..(Len(s) + 1), NEW h \in V
  PROVE  /\ L!With(s, i, h) \in Seq(V) /\ Len(L!With(s, i, h)) = Len(s) + 1
         /\ \A k \in 1..Len(s) : k < i => L!With(s, i, h)[k] = s[k]
         /\ \A k \in 1..Len(s) : k >= i => L!With(s, i, h)[k + 1] = s[k]
<1> DEFINE a == SubSeq(s, 1, i - 1)
           b == SubSeq(s, i, Len(s))
           t == a \o <<h>> \o b
<1>1. L!With(s, i, h) = t
  BY Zenon DEF L!With
<1>2. /\ a \in Seq(V) /\ Len(a) = i - 1 /\ \A k \in 1..(i - 1) : a[k] = s[k]
      /\ b \in Seq(V) /\ Len(b) = Len(s) - i + 1
      /\ \A k \in 1..(Len(s) - i + 1) : b[k] = s[i + k - 1]
  OBVIOUS
<1> HIDE DEF a, b
<1>3. /\ t \in Seq(V) /\ Len(t) = Len(s) + 1
  <2>1. <<h>> \in Seq(V) /\ Len(<<h>>) = 1
    OBVIOUS
  <2>2. a \o <<h>> \in Seq(V) /\ Len(a \o <<h>>) = i
    BY <1>2, <2>1
  <2> QED BY <1>2, <2>2
<1>4. ASSUME NEW k \in 1..Len(s), k < i PROVE t[k] = s[k]
  BY <1>2, <1>4
<1>5. ASSUME NEW k \in 1..Len(s), k >= i PROVE t[k + 1] = s[k]
  <2>1. k + 1 - i \in 1..(Len(s) - i + 1) /\ t[k + 1] = b[k + 1 - i]
    BY <1>2, <1>5
  <2> QED BY <1>2, <2>1
<1> HIDE DEF t
<1> QED BY <1>1, <1>3, <1>4, <1>5, Zenon

LEMMA InsertionWalksOn ==
  ASSUME NEW V, NEW s \in Seq(V), NEW i \in 1..(Len(s) + 1), NEW h \in V,
         NEW c \in Seq(V)
  PROVE  /\ L!SubsequenceScore(s, c) \in Nat /\ L!SubsequenceScore(L!With(s, i, h), c) \in Nat
         /\ L!SubsequenceScore(L!With(s, i, h), c) >= L!SubsequenceScore(s, c)
<1> DEFINE t == L!With(s, i, h)
<1>1. /\ t \in Seq(V) /\ Len(t) = Len(s) + 1
      /\ \A k \in 1..Len(s) : k < i => t[k] = s[k]
      /\ \A k \in 1..Len(s) : k >= i => t[k + 1] = s[k]
  BY Inserted, Zenon
<1> HIDE DEF t
<1>2. PICK f : Walks(f, s, c) /\ L!SubsequenceScore(s, c) = f[Len(s)]
  BY ScoreWalks, Zenon
<1>3. PICK g : Walks(g, t, c) /\ L!SubsequenceScore(t, c) = g[Len(t)]
  BY <1>1, ScoreWalks, Zenon
<1>4. /\ f \in [0..Len(s) -> Nat] /\ f[0] = 0
      /\ g \in [0..(Len(s) + 1) -> Nat] /\ g[0] = 0
  BY <1>1, <1>2, <1>3, Zenon DEF Walks
<1>5. /\ \A k \in 1..Len(s) : f[k] = L!Advance(f[k - 1], s[k], c)
      /\ \A k \in 1..(Len(s) + 1) : g[k] = L!Advance(g[k - 1], t[k], c)
  BY <1>1, <1>2, <1>3, Zenon DEF Walks
<1>6. ASSUME NEW k \in 1..Len(s), NEW m \in 1..(Len(s) + 1), s[k] = t[m], g[m - 1] >= f[k - 1]
      PROVE  g[m] >= f[k]
  <2>0. k - 1 \in 0..Len(s) /\ m - 1 \in 0..(Len(s) + 1) /\ s[k] \in V
    OBVIOUS
  <2>1. f[k - 1] \in Nat /\ g[m - 1] \in Nat
    BY <1>4, <2>0, Zenon
  <2>5. g[m - 1] >= f[k - 1]
    BY <1>6, Zenon
  <2>6. f[k - 1] <= g[m - 1]
    BY <2>1, <2>5
  <2>2. L!Advance(f[k - 1], s[k], c) <= L!Advance(g[m - 1], s[k], c)
    BY <2>0, <2>1, <2>6, AdvanceMonotone, Zenon
  <2>3. f[k] <= g[m]
    BY <1>5, <1>6, <2>2, Zenon
  <2>4. f[k] \in Nat /\ g[m] \in Nat
    BY <1>4
  <2> QED BY <2>3, <2>4
<1>7. \A k \in 0..(i - 1) : g[k] >= f[k]
  <2> DEFINE D == {k \in 0..(i - 1) : ~(g[k] >= f[k])}
  <2> SUFFICES ASSUME D # {} PROVE FALSE
    OBVIOUS
  <2>1. PICK k \in D : \A j \in D : k <= j
    <3>1. D \in SUBSET Nat
      OBVIOUS
    <3> QED BY <3>1, LeastElement, Zenon
  <2>2. k # 0 /\ k \in 0..(i - 1) /\ ~(g[k] >= f[k])
    BY <1>4, <2>1
  <2>3. k \in 1..Len(s) /\ k \in 1..(Len(s) + 1) /\ k < i /\ k - 1 \in 0..(i - 1) /\ k - 1 \notin D
    BY <2>1, <2>2
  <2>4. g[k - 1] >= f[k - 1] /\ s[k] = t[k]
    BY <1>1, <2>3
  <2> QED BY <1>6, <2>2, <2>3, <2>4, Zenon
<1>8. g[i] >= f[i - 1]
  <2>1. i - 1 \in 0..(i - 1) /\ i - 1 \in 0..(Len(s) + 1) /\ i - 1 \in 0..Len(s)
    OBVIOUS
  <2>2. g[i - 1] >= f[i - 1] /\ g[i - 1] \in Nat /\ g[i] \in Nat /\ f[i - 1] \in Nat
    BY <1>4, <1>7, <2>1
  <2>3. t[i] \in V /\ g[i - 1] <= g[i - 1]
    BY <1>1, <2>2
  <2>4. L!Advance(g[i - 1], t[i], c) >= g[i - 1]
    BY <2>2, <2>3, AdvanceMonotone, Zenon
  <2>5. g[i] >= g[i - 1]
    BY <1>5, <2>4, Zenon
  <2> QED BY <2>2, <2>5
<1>9. \A k \in (i - 1)..Len(s) : g[k + 1] >= f[k]
  <2> DEFINE D == {k \in (i - 1)..Len(s) : ~(g[k + 1] >= f[k])}
  <2> SUFFICES ASSUME D # {} PROVE FALSE
    OBVIOUS
  <2>1. PICK k \in D : \A j \in D : k <= j
    <3>1. D \in SUBSET Nat
      OBVIOUS
    <3> QED BY <3>1, LeastElement, Zenon
  <2>2. k # i - 1 /\ k \in (i - 1)..Len(s) /\ ~(g[k + 1] >= f[k])
    <3>1. (i - 1) + 1 = i
      OBVIOUS
    <3> QED BY <1>8, <2>1, <3>1
  <2>3. /\ k \in 1..Len(s) /\ k + 1 \in 1..(Len(s) + 1) /\ k >= i
        /\ k - 1 \in (i - 1)..Len(s) /\ k - 1 \notin D
        /\ (k - 1) + 1 = k /\ (k + 1) - 1 = k
    BY <2>1, <2>2
  <2>4. g[(k + 1) - 1] >= f[k - 1] /\ s[k] = t[k + 1]
    BY <1>1, <2>3
  <2> QED BY <1>6, <2>2, <2>3, <2>4, Zenon
<1>10. g[Len(s) + 1] >= f[Len(s)] /\ f[Len(s)] \in Nat /\ g[Len(s) + 1] \in Nat
  BY <1>4, <1>9
<1> QED BY <1>1, <1>2, <1>3, <1>10, Zenon DEF t

\* A list follows itself to the end, and nothing is followed nowhere.
LEMMA CanonicalFollowsItself ==
  ASSUME NEW V, NEW c \in Seq(V)
  PROVE  L!SubsequenceScore(c, c) = Len(c)
<1>1. PICK f : Walks(f, c, c) /\ L!SubsequenceScore(c, c) = f[Len(c)]
  BY ScoreWalks, Zenon
<1>2. /\ f \in [0..Len(c) -> Nat] /\ f[0] = 0
      /\ \A k \in 1..Len(c) : f[k] = L!Advance(f[k - 1], c[k], c)
  BY <1>1, Zenon DEF Walks
<1>3. \A k \in 0..Len(c) : f[k] = k
  <2> DEFINE D == {k \in 0..Len(c) : f[k] # k}
  <2> SUFFICES ASSUME D # {} PROVE FALSE
    OBVIOUS
  <2>1. PICK k \in D : \A j \in D : k <= j
    <3>1. D \in SUBSET Nat
      OBVIOUS
    <3> QED BY <3>1, LeastElement, Zenon
  <2>2. k # 0 /\ k \in 0..Len(c) /\ f[k] # k
    BY <1>2, <2>1
  <2>3. /\ k \in 1..Len(c) /\ k - 1 \in 0..Len(c) /\ k - 1 \notin D
        /\ (k - 1) + 1 = k /\ k - 1 < Len(c)
    BY <2>1, <2>2
  <2>4. f[k - 1] = k - 1
    BY <2>3
  <2>5. L!Advance(k - 1, c[k], c) = k
    BY <2>3, Zenon DEF L!Advance
  <2> QED BY <1>2, <2>2, <2>3, <2>4, <2>5, Zenon
<1>4. Len(c) \in 0..Len(c)
  OBVIOUS
<1> QED BY <1>1, <1>3, <1>4, Zenon

LEMMA NothingIsFollowed ==
  ASSUME NEW V, NEW c \in Seq(V)
  PROVE  L!SubsequenceScore(<<>>, c) = 0
<1>1. <<>> \in Seq(V) /\ Len(<<>>) = 0
  OBVIOUS
<1>2. PICK f : Walks(f, <<>>, c) /\ L!SubsequenceScore(<<>>, c) = f[Len(<<>>)]
  BY <1>1, ScoreWalks, Zenon
<1> QED BY <1>1, <1>2, Zenon DEF Walks

\* What the header check reads is a browser's request; the list is one of names, and
\* not an anomaly while it is genuine.
HeaderNames ==
  {"host", "connection", "sec-ch-ua", "sec-ch-ua-mobile", "sec-ch-ua-platform",
   "upgrade-insecure-requests", "user-agent", "accept", "sec-fetch-site", "sec-fetch-mode",
   "sec-fetch-user", "sec-fetch-dest", "accept-encoding", "accept-language", "referer", "cookie"}
ListInv == /\ order \in Seq(HeaderNames)
           /\ \E a \in L!Agents, f \in L!Fetches : headers = L!Merge(a, f)
           /\ genuine \in BOOLEAN
           /\ genuine => ~L!IsOrderAnomaly(order)

LEMMA CanonicalLists ==
  /\ DOMAIN L!CanonicalOrders = {"chrome", "firefox", "safari"}
  /\ \A b \in {"chrome", "firefox", "safari"} :
       /\ L!CanonicalOrders[b] \in Seq(HeaderNames)
       /\ 0 < L!MatchThreshold(L!CanonicalOrders[b])
       /\ L!MatchThreshold(L!CanonicalOrders[b]) <= Len(L!CanonicalOrders[b])
<1>1. DOMAIN L!CanonicalOrders = {"chrome", "firefox", "safari"}
  BY DEF L!CanonicalOrders
<1>2. /\ L!CanonicalOrders["chrome"] \in Seq(HeaderNames) /\ Len(L!CanonicalOrders["chrome"]) = 14
  BY DEF L!CanonicalOrders, HeaderNames
<1>3. /\ L!CanonicalOrders["firefox"] \in Seq(HeaderNames) /\ Len(L!CanonicalOrders["firefox"]) = 11
  BY DEF L!CanonicalOrders, HeaderNames
<1>4. /\ L!CanonicalOrders["safari"] \in Seq(HeaderNames) /\ Len(L!CanonicalOrders["safari"]) = 6
  BY DEF L!CanonicalOrders, HeaderNames
<1>5. /\ 0 < (60 * 14) \div 100 /\ (60 * 14) \div 100 <= 14
      /\ 0 < (60 * 11) \div 100 /\ (60 * 11) \div 100 <= 11
      /\ 0 < (60 * 6) \div 100 /\ (60 * 6) \div 100 <= 6
  OBVIOUS
<1> QED BY <1>1, <1>2, <1>3, <1>4, <1>5, Zenon DEF L!MatchThreshold

LEMMA InsertionIsNoAnomaly ==
  ASSUME NEW s \in Seq(HeaderNames), NEW i \in 1..(Len(s) + 1), NEW h \in HeaderNames,
         ~L!IsOrderAnomaly(s)
  PROVE  ~L!IsOrderAnomaly(L!With(s, i, h))
<1>1. PICK b \in DOMAIN L!CanonicalOrders :
        L!SubsequenceScore(s, L!CanonicalOrders[b]) >= L!MatchThreshold(L!CanonicalOrders[b])
  BY Zenon DEF L!IsOrderAnomaly, L!MatchesAnyCanonical
<1> DEFINE c == L!CanonicalOrders[b]
           x == L!SubsequenceScore(s, c)
           y == L!SubsequenceScore(L!With(s, i, h), c)
           m == L!MatchThreshold(c)
<1>2. c \in Seq(HeaderNames)
  BY CanonicalLists, Zenon
<1>3. x \in Nat /\ y \in Nat /\ y >= x
  BY <1>2, InsertionWalksOn, Zenon
<1>4. Len(c) \in Nat
  BY <1>2
<1>5. m \in Int
  BY <1>4 DEF L!MatchThreshold
<1>6. x >= m
  BY <1>1
<1> HIDE DEF x, y, m
<1>7. y >= m
  BY <1>3, <1>5, <1>6
<1> QED BY <1>7, Zenon DEF L!IsOrderAnomaly, L!MatchesAnyCanonical, y, m

LEMMA CanonicalIsNoAnomaly ==
  ASSUME NEW b \in {"chrome", "firefox", "safari"}
  PROVE  ~L!IsOrderAnomaly(L!CanonicalOrders[b]) /\ L!CanonicalOrders[b] \in Seq(HeaderNames)
<1> DEFINE c == L!CanonicalOrders[b]
           m == L!MatchThreshold(c)
<1>1. c \in Seq(HeaderNames) /\ m <= Len(c) /\ b \in DOMAIN L!CanonicalOrders
  BY CanonicalLists, Zenon
<1>2. L!SubsequenceScore(c, c) = Len(c)
  BY <1>1, CanonicalFollowsItself, Zenon
<1>3. Len(c) \in Nat
  BY <1>1
<1>4. m \in Int
  BY <1>3 DEF L!MatchThreshold
<1> HIDE DEF m
<1>5. Len(c) >= m
  BY <1>1, <1>3, <1>4
<1> QED BY <1>1, <1>2, <1>5, Zenon DEF L!IsOrderAnomaly, L!MatchesAnyCanonical, m

LEMMA NoOrderIsAnomaly == L!IsOrderAnomaly(<<>>)
<1>1. ASSUME NEW b \in DOMAIN L!CanonicalOrders
      PROVE  ~(L!SubsequenceScore(<<>>, L!CanonicalOrders[b])
               >= L!MatchThreshold(L!CanonicalOrders[b]))
  <2> DEFINE c == L!CanonicalOrders[b]
             m == L!MatchThreshold(c)
  <2>1. c \in Seq(HeaderNames) /\ 0 < m
    BY CanonicalLists, Zenon
  <2>2. Len(c) \in Nat
    BY <2>1
  <2>3. m \in Int
    BY <2>2 DEF L!MatchThreshold
  <2>4. L!SubsequenceScore(<<>>, c) = 0
    BY <2>1, NothingIsFollowed, Zenon
  <2> HIDE DEF m
  <2>5. ~(0 >= m)
    BY <2>1, <2>3
  <2> QED BY <2>4, <2>5, Zenon DEF m
<1> QED BY <1>1, Zenon DEF L!IsOrderAnomaly, L!MatchesAnyCanonical

\* What each browser says of itself agrees with its Client Hints.
Consistent(a) == /\ a.style \in {"chrome", "firefox", "safari"}
                 /\ \/ a.hints = {}
                    \/ /\ a.chrome # 0
                       /\ \A b \in a.hints : b.brand \in L!ChromeBrands => b.version = a.chrome
LEMMA AgentsConsistent == ASSUME NEW a \in L!Agents PROVE Consistent(a)
<1>1. ASSUME NEW v, v # 0, NEW own, NEW words,
             \A b \in own : b.brand \in L!ChromeBrands => b.version = v
      PROVE  Consistent(L!Agent(v, words, L!Brands(v, own), "chrome"))
  <2> DEFINE x == L!Agent(v, words, L!Brands(v, own), "chrome")
  <2>1. x.style = "chrome" /\ x.chrome = v /\ x.hints = L!Brands(v, own)
    BY Zenon DEF L!Agent
  <2> HIDE DEF x
  <2>2. ASSUME NEW b \in L!Brands(v, own), b.brand \in L!ChromeBrands PROVE b.version = v
    <3>1. CASE b = [brand |-> "Chromium", version |-> v]
      BY <3>1, Zenon
    <3>2. CASE b = [brand |-> "Not_A Brand", version |-> 24]
      BY <2>2, <3>2, Zenon DEF L!ChromeBrands
    <3>3. CASE b \in own
      BY <1>1, <2>2, <3>3, Zenon
    <3> QED BY <3>1, <3>2, <3>3, Zenon DEF L!Brands
  <2> QED BY <1>1, <2>1, <2>2, Zenon DEF Consistent, x
<1>2. ASSUME NEW words, NEW style \in {"firefox", "safari"}
      PROVE  Consistent(L!Agent(0, words, {}, style))
  <2> DEFINE x == L!Agent(0, words, {}, style)
  <2>1. x.style = style /\ x.hints = {}
    BY Zenon DEF L!Agent
  <2> HIDE DEF x
  <2> QED BY <2>1, Zenon DEF Consistent, x
<1>3. 131 # 0 /\ 130 # 0
  OBVIOUS
<1>4. ASSUME NEW n, NEW v, NEW w, v = w \/ n \notin L!ChromeBrands,
             NEW b \in {[brand |-> n, version |-> v]}, b.brand \in L!ChromeBrands
      PROVE  b.version = w
  <2>1. b = [brand |-> n, version |-> v]
    OBVIOUS
  <2>2. b.brand = n /\ b.version = v
    BY <2>1, Zenon
  <2> QED BY <1>4, <2>2, Zenon
<1>5. "Opera" \notin L!ChromeBrands
  BY Zenon DEF L!ChromeBrands
<1>6. ASSUME NEW n, NEW v, NEW w, v = w \/ n \notin L!ChromeBrands, w # 0, NEW words
      PROVE  Consistent(L!Agent(w, words, L!Brands(w, {[brand |-> n, version |-> v]}), "chrome"))
  <2> DEFINE own == {[brand |-> n, version |-> v]}
  <2>1. \A b \in own : b.brand \in L!ChromeBrands => b.version = w
    BY <1>4, <1>6, Zenon
  <2> HIDE DEF own
  <2>2. Consistent(L!Agent(w, words, L!Brands(w, own), "chrome"))
    BY <1>1, <1>6, <2>1, Zenon
  <2> QED BY <2>2, Zenon DEF own
<1> DEFINE G(w, n, v) == L!Agent(w, {"chrome", "safari"},
                                 L!Brands(w, {[brand |-> n, version |-> v]}), "chrome")
<1>7. \A n, v, w : (v = w \/ n \notin L!ChromeBrands) /\ w # 0 => Consistent(G(w, n, v))
  BY <1>6, Zenon
<1>8. \/ a = G(131, "Google Chrome", 131) \/ a = G(131, "Microsoft Edge", 131)
      \/ a = G(130, "Opera", 115)
      \/ \E words : \E style \in {"firefox", "safari"} : a = L!Agent(0, words, {}, style)
  BY Zenon DEF L!Agents
<1> HIDE DEF G
<1> QED BY <1>2, <1>3, <1>5, <1>7, <1>8, Zenon

Fetched(f) == /\ f.site = "" \/ f.site \in L!ValidSecFetchSite
              /\ f.mode = "" \/ f.mode \in L!ValidSecFetchMode
              /\ f.dest = "" \/ f.dest \in L!ValidSecFetchDest
              /\ f.user = "" \/ f.user = "?1"
              /\ f.site = "none" => f.referer = ""
              /\ f.site \notin {"?0", "?1"}
LEMMA FetchesValid == ASSUME NEW f \in L!Fetches PROVE Fetched(f)
<1>1. ASSUME NEW site, NEW mode, NEW dest, NEW user, NEW referer,
             site = "" \/ site \in L!ValidSecFetchSite, mode = "" \/ mode \in L!ValidSecFetchMode,
             dest = "" \/ dest \in L!ValidSecFetchDest, user = "" \/ user = "?1",
             site = "none" => referer = "", site \notin {"?0", "?1"}
      PROVE  Fetched([site |-> site, mode |-> mode, dest |-> dest, user |-> user,
                      referer |-> referer])
  <2> DEFINE x == [site |-> site, mode |-> mode, dest |-> dest, user |-> user, referer |-> referer]
  <2>1. x.site = site /\ x.mode = mode /\ x.dest = dest /\ x.user = user /\ x.referer = referer
    BY Zenon
  <2> HIDE DEF x
  <2> QED BY <1>1, <2>1, Zenon DEF Fetched, x
<1>2. /\ "navigate" \in L!ValidSecFetchMode /\ "no-cors" \in L!ValidSecFetchMode
      /\ "cors" \in L!ValidSecFetchMode
  BY Zenon DEF L!ValidSecFetchMode
<1>3. /\ "document" \in L!ValidSecFetchDest /\ "iframe" \in L!ValidSecFetchDest
      /\ "image" \in L!ValidSecFetchDest /\ "empty" \in L!ValidSecFetchDest
  BY Zenon DEF L!ValidSecFetchDest
<1>4. \A s \in L!ValidSecFetchSite \cup {""} : s \notin {"?0", "?1"}
  BY Zenon DEF L!ValidSecFetchSite
<1>5. /\ "none" \in L!ValidSecFetchSite /\ "cross-site" \in L!ValidSecFetchSite
      /\ "same-origin" \in L!ValidSecFetchSite /\ "same-site" \in L!ValidSecFetchSite
      /\ "" \in L!ValidSecFetchSite \cup {""}
  BY Zenon DEF L!ValidSecFetchSite
<1>6. CASE f = [site |-> "none", mode |-> "navigate", dest |-> "document",
                user |-> "?1", referer |-> ""]
  BY <1>1, <1>2, <1>3, <1>4, <1>5, <1>6, Zenon
<1>7. CASE f = [site |-> "cross-site", mode |-> "navigate", dest |-> "document",
                user |-> "?1", referer |-> "url"]
  BY <1>1, <1>2, <1>3, <1>4, <1>5, <1>7, Zenon
<1>8. CASE f = [site |-> "same-origin", mode |-> "navigate", dest |-> "iframe",
                user |-> "", referer |-> "url"]
  BY <1>1, <1>2, <1>3, <1>4, <1>5, <1>8, Zenon
<1>9. CASE f = [site |-> "same-site", mode |-> "no-cors", dest |-> "image",
                user |-> "", referer |-> ""]
  BY <1>1, <1>2, <1>3, <1>4, <1>5, <1>9, Zenon
<1>10. CASE f = [site |-> "same-origin", mode |-> "cors", dest |-> "empty",
                 user |-> "", referer |-> "url"]
  BY <1>1, <1>2, <1>3, <1>4, <1>5, <1>10, Zenon
<1>11. CASE f = [site |-> "", mode |-> "", dest |-> "", user |-> "", referer |-> ""]
  BY <1>1, <1>2, <1>3, <1>4, <1>5, <1>11, Zenon
<1> QED BY <1>6, <1>7, <1>8, <1>9, <1>10, <1>11, Zenon DEF L!Fetches

LEMMA BrowsersHeadersAgree ==
  ASSUME NEW a \in L!Agents, NEW f \in L!Fetches
  PROVE  /\ ~L!UACHMismatch(L!Merge(a, f)) /\ ~L!SecFetchInvalid(L!Merge(a, f))
         /\ ~L!BrowserForgeQuirk(L!Merge(a, f))
<1> DEFINE h == L!Merge(a, f)
<1>1. /\ h.chrome = a.chrome /\ h.words = a.words /\ h.hints = a.hints /\ h.site = f.site
      /\ h.mode = f.mode /\ h.dest = f.dest /\ h.user = f.user /\ h.referer = f.referer
  BY DEF L!Merge
<1>2. Consistent(a) /\ Fetched(f)
  BY AgentsConsistent, FetchesValid, Zenon
<1> HIDE DEF h
<1>4. ~L!UACHMismatch(h)
  BY <1>1, <1>2, Zenon DEF L!UACHMismatch, Consistent
<1>5. ~L!SecFetchInvalid(h) /\ ~L!BrowserForgeQuirk(h)
  BY <1>1, <1>2, Zenon DEF L!SecFetchInvalid, L!BrowserForgeQuirk, Fetched
<1> QED BY <1>4, <1>5, Zenon DEF h

LEMMA ListInit == L!Init => ListInv
<1> SUFFICES ASSUME L!Init PROVE ListInv
  OBVIOUS
<1>1. PICK a \in L!Agents, f \in L!Fetches :
        headers = L!Merge(a, f) /\ order = L!CanonicalOrders[a.style]
  BY Zenon DEF L!Init
<1>2. a.style \in {"chrome", "firefox", "safari"}
  BY AgentsConsistent, Zenon DEF Consistent
<1>3. ~L!IsOrderAnomaly(order) /\ order \in Seq(HeaderNames)
  BY <1>1, <1>2, CanonicalIsNoAnomaly, Zenon
<1>4. genuine = TRUE
  BY Zenon DEF L!Init
<1> QED BY <1>1, <1>3, <1>4, Zenon DEF ListInv

\* A step: one more header is no worse, another edit makes the list no longer genuine.
LEMMA ListStep ==
  ASSUME ListInv, [L!Next]_L!vars
  PROVE  /\ ListInv'
         /\ Len(order') > Len(order) => (L!IsOrderAnomaly(order') => L!IsOrderAnomaly(order))
<1>1. order \in Seq(HeaderNames) /\ Len(order) \in Nat
  BY DEF ListInv
<1>2. CASE L!Insert
  <2>1. PICK h \in L!Optional, i \in 1..(Len(order) + 1) : L!Edit(L!With(order, i, h), TRUE)
    BY <1>2, Zenon DEF L!Insert
  <2>2. h \in HeaderNames
    BY Zenon DEF L!Optional, HeaderNames
  <2>3. order' = L!With(order, i, h) /\ genuine' = (genuine /\ TRUE) /\ headers' = headers
    BY <2>1, Zenon DEF L!Edit
  <2>4. order' \in Seq(HeaderNames)
    BY <1>1, <2>2, <2>3, Inserted, Zenon
  <2>5. ~L!IsOrderAnomaly(order) => ~L!IsOrderAnomaly(order')
    BY <1>1, <2>2, <2>3, InsertionIsNoAnomaly, Zenon
  <2> QED BY <2>3, <2>4, <2>5, Zenon DEF ListInv
<1>3. CASE L!Drop
  <2>1. PICK i \in DOMAIN order : L!Edit(L!Without(order, i), FALSE)
    BY <1>3, Zenon DEF L!Drop
  <2>2. order' = L!Without(order, i) /\ genuine' = (genuine /\ FALSE) /\ headers' = headers
    BY <2>1, Zenon DEF L!Edit
  <2>3. order' = SubSeq(order, 1, i - 1) \o SubSeq(order, i + 1, Len(order))
    BY <2>2, Zenon DEF L!Without
  <2>4. order' \in Seq(HeaderNames) /\ ~(Len(order') > Len(order))
    <3>1. ASSUME NEW V, NEW s \in Seq(V), NEW j \in DOMAIN s
          PROVE  /\ SubSeq(s, 1, j - 1) \o SubSeq(s, j + 1, Len(s)) \in Seq(V)
                 /\ ~(Len(SubSeq(s, 1, j - 1) \o SubSeq(s, j + 1, Len(s))) > Len(s))
      OBVIOUS
    <3> QED BY <1>1, <2>3, <3>1, Zenon
  <2> QED BY <2>2, <2>4, Zenon DEF ListInv
<1>4. CASE L!Swap
  <2>1. PICK i \in 1..(Len(order) - 1) :
          L!Edit([order EXCEPT ![i] = order[i + 1], ![i + 1] = order[i]], FALSE)
    BY <1>4, Zenon DEF L!Swap
  <2>2. /\ order' = [order EXCEPT ![i] = order[i + 1], ![i + 1] = order[i]]
        /\ genuine' = (genuine /\ FALSE) /\ headers' = headers
    BY <2>1, Zenon DEF L!Edit
  <2>3. order' \in Seq(HeaderNames) /\ ~(Len(order') > Len(order))
    <3>1. ASSUME NEW V, NEW s \in Seq(V), NEW j \in 1..(Len(s) - 1)
          PROVE  /\ [s EXCEPT ![j] = s[j + 1], ![j + 1] = s[j]] \in Seq(V)
                 /\ ~(Len([s EXCEPT ![j] = s[j + 1], ![j + 1] = s[j]]) > Len(s))
      OBVIOUS
    <3> QED BY <1>1, <2>2, <3>1, Zenon
  <2> QED BY <2>2, <2>3, Zenon DEF ListInv
<1>5. CASE UNCHANGED L!vars
  <2>1. order' = order /\ genuine' = genuine /\ headers' = headers
    BY <1>5, Zenon DEF L!vars
  <2> QED BY <2>1, Zenon DEF ListInv
<1> QED BY <1>2, <1>3, <1>4, <1>5, Zenon DEF L!Next

LEMMA ListInvariant == L!Spec => []ListInv
<1>1. ListInv /\ [L!Next]_L!vars => ListInv'
  BY ListStep, Zenon
<1> QED BY <1>1, ListInit, PTL DEF L!Spec

\* order.go: adding an optional header, at any place in any list that any number of
\* edits made, never turns a match into an anomaly.
THEOREM Insertions == L!Spec => InsertionsNeverHurt
<1>1. ListInv /\ [L!Next]_L!vars =>
        [Len(order') > Len(order) => (L!IsOrderAnomaly(order') => L!IsOrderAnomaly(order))]_L!vars
  BY ListStep, Zenon
<1> QED BY <1>1, ListInvariant, PTL DEF L!Spec, InsertionsNeverHurt, L!InsertionsNeverHurt

\* Collector.Collect (headers): a genuine browser's request raises no signal whatever
\* number of optional headers was put into its list, and without an order the gateway
\* raises that one anomaly.
THEOREM GenuineHeaders == L!Spec => []L!HeadersRaiseNothing
<1>1. ASSUME ListInv, genuine
      PROVE  /\ L!Collect(headers, order) = <<>>
             /\ L!Collect(headers, <<>>) = <<"header_order_anomaly">>
  <2>1. /\ ~L!UACHMismatch(headers) /\ ~L!SecFetchInvalid(headers)
        /\ ~L!BrowserForgeQuirk(headers)
    BY <1>1, BrowsersHeadersAgree, Zenon DEF ListInv
  <2>2. ~L!IsOrderAnomaly(order) /\ L!IsOrderAnomaly(<<>>)
    BY <1>1, NoOrderIsAnomaly, Zenon DEF ListInv
  <2>3. L!Collect(headers, order) = <<>> \o <<>> \o <<>> \o <<>>
    BY <2>1, <2>2, Zenon DEF L!Collect
  <2>4. L!Collect(headers, <<>>) = <<"header_order_anomaly">> \o <<>> \o <<>> \o <<>>
    BY <2>1, <2>2, Zenon DEF L!Collect
  <2>5. /\ <<>> \o <<>> \o <<>> \o <<>> = <<>>
        /\ <<"header_order_anomaly">> \o <<>> \o <<>> \o <<>> = <<"header_order_anomaly">>
    OBVIOUS
  <2> QED BY <2>3, <2>4, <2>5, Zenon
<1>2. ListInv => L!HeadersRaiseNothing
  BY <1>1, Zenon DEF L!HeadersRaiseNothing
<1> QED BY <1>2, ListInvariant, PTL
=============================================================================
