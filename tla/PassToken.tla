----------------------------- MODULE PassToken -----------------------------
(* Pass tokens from issue to verification: a fleet of instances that share *)
(* a key file signs them and binds them to the client's address, user      *)
(* agent and TLS fingerprints as the policy asks; clients move, browsers   *)
(* and tokens age, and instances restart, perhaps with another policy. A   *)
(* token is presented to the gateway or, by an application, to the decide  *)
(* API; a Python application presents none.                                *)
EXTENDS KeyFile

CONSTANTS Clients, Addresses,
          Agents,     \* user agents: [name, case], or NoText for none
          Policies,   \* values of token.bind_to
          Hello,      \* a JA3 or JA4
          TTL, MaxTime, NoToken,
          NoText      \* the empty string
Fields == {"ip", "ua", "ja3", "ja4"}
Routes == {"gateway", "node", "custom"}
Times == 0..MaxTime
ASSUME TokenAssumption ==
  /\ TTL \in Nat /\ MaxTime \in Nat
  /\ NoText \notin Addresses /\ Hello # NoText /\ Policies \subseteq SUBSET Fields

VARIABLES now, bindTo,   \* each instance's token.bind_to, read when it starts
          addr, agent,   \* what each client presents now
          cookie, issuedTo   \* its cookie, and (history) what it presented at issue
tokenVars == <<now, bindTo, addr, agent, cookie, issuedTo>>
vars == <<keyVars, tokenVars>>

TokenInit == /\ now = 0
             /\ bindTo = [i \in Instances |-> {}]
             /\ addr \in [Clients -> Addresses] /\ agent \in [Clients -> Agents]
             /\ cookie = [c \in Clients |-> NoToken]
             /\ issuedTo = [c \in Clients |-> NoToken]
Init == KeyInit /\ TokenInit
InitUnprovisioned == KeyInitUnprovisioned /\ TokenInit

\* An instance that starts reads its policy.
Restart(i) == /\ Start(i)
              /\ \E b \in Policies : bindTo' = [bindTo EXCEPT ![i] = b]
              /\ UNCHANGED <<now, addr, agent, cookie, issuedTo>>
Keyed(i) == /\ ReadFile(i) \/ CreateFile(i) \/ WriteFile(i) \/ Kill(i)
            /\ UNCHANGED tokenVars

Tick == /\ now < MaxTime /\ now' = now + 1
        /\ UNCHANGED <<keyVars, bindTo, addr, agent, cookie, issuedTo>>
Move(c) == /\ \/ (\E a \in Addresses \ {addr[c]} : addr' = [addr EXCEPT ![c] = a])
                 /\ UNCHANGED agent
              \/ (\E u \in Agents \ {agent[c]} : agent' = [agent EXCEPT ![c] = u])
                 /\ UNCHANGED addr
           /\ UNCHANGED <<keyVars, now, bindTo, cookie, issuedTo>>

\* Issue: the claims carry the fields the policy binds, and the expiry. HandleVerify
\* passes no JA3 and no JA4. One mutant drops the user agent, one binds the TLS
\* fingerprints.
Bound(i, field, value) == IF field \in bindTo[i] THEN value ELSE NoText
ClaimsNoAgent(i, c) == [key |-> mem[i], exp |-> now + TTL, ip |-> Bound(i, "ip", addr[c]),
                        ua |-> NoText, ja3 |-> NoText, ja4 |-> NoText]
ClaimsHello(i, c) == [key |-> mem[i], exp |-> now + TTL, ip |-> Bound(i, "ip", addr[c]),
                      ua |-> Bound(i, "ua", agent[c]),
                      ja3 |-> Bound(i, "ja3", Hello), ja4 |-> Bound(i, "ja4", Hello)]
Claims(i, c) == [key |-> mem[i], exp |-> now + TTL, ip |-> Bound(i, "ip", addr[c]),
                 ua |-> Bound(i, "ua", agent[c]),
                 ja3 |-> Bound(i, "ja3", NoText), ja4 |-> Bound(i, "ja4", NoText)]

\* The end of HandleVerify: the cookie is set.
Issue(i, c) == /\ boot[i] = "up"
               /\ cookie' = [cookie EXCEPT ![c] = Claims(i, c)]
               /\ issuedTo' = [issuedTo EXCEPT ![c] =
                                 [ip |-> addr[c], ua |-> agent[c], bound |-> bindTo[i]]]
               /\ UNCHANGED <<keyVars, now, bindTo, addr, agent>>

\* What a request shows with the token. The root handler has no fingerprints. The
\* decide API looks "User-Agent" up among names the Node SDK has sent in lower
\* case; another caller of it may send names as they are and fingerprints too.
Presented(c, via) == [ip |-> addr[c], ua |-> IF via = "node" THEN NoText ELSE agent[c],
                      ja3 |-> IF via = "custom" THEN Hello ELSE NoText,
                      ja4 |-> IF via = "custom" THEN Hello ELSE NoText]

\* BoundFields: user agents are compared without case, the rest exactly. What was
\* not bound at issue is the empty string in the claims.
SameAgent(a, b) == a = b \/ (a # NoText /\ b # NoText /\ a.name = b.name)
BoundFields(t, p, fields) == /\ "ip" \in fields => t.ip = p.ip
                             /\ "ua" \in fields => SameAgent(t.ua, p.ua)
                             /\ "ja3" \in fields => t.ja3 = p.ja3
                             /\ "ja4" \in fields => t.ja4 = p.ja4

\* Verify: signature, expiry, bound fields. The mutant binds the address only if
\* the claims carry it.
VerifyLenient(i, c, via) ==
  /\ cookie[c] # NoToken
  /\ cookie[c].key = mem[i] /\ now < cookie[c].exp
  /\ BoundFields(cookie[c], Presented(c, via),
                 IF cookie[c].ip = NoText THEN bindTo[i] \ {"ip"} ELSE bindTo[i])
Verify(i, c, via) == /\ cookie[c] # NoToken
                     /\ cookie[c].key = mem[i] /\ now < cookie[c].exp
                     /\ BoundFields(cookie[c], Presented(c, via), bindTo[i])

\* The browser drops the cookie at its Max-Age, the token's own life.
DropCookie(c) == /\ cookie[c] # NoToken /\ now >= cookie[c].exp
                 /\ cookie' = [cookie EXCEPT ![c] = NoToken]
                 /\ issuedTo' = [issuedTo EXCEPT ![c] = NoToken]
                 /\ UNCHANGED <<keyVars, now, bindTo, addr, agent>>

Next == \/ Tick
        \/ \E i \in Instances : Restart(i) \/ Keyed(i)
        \/ \E c \in Clients : Move(c) \/ DropCookie(c)
        \/ \E i \in Instances, c \in Clients : Issue(i, c)
Spec == Init /\ [][Next]_vars
SpecUnprovisioned == InitUnprovisioned /\ [][Next]_vars
-----------------------------------------------------------------------------
\* A running instance accepts a token only while it is alive, and only if the
\* client presents in every field the instance's policy binds what it presented
\* at issue: a token that an earlier or a laxer policy left unbound is refused
\* (an absent user agent is the one value that matches an unbound claim).
AcceptedIsBound ==
  \A c \in Clients, i \in Instances, via \in Routes : boot[i] = "up" /\ Verify(i, c, via) =>
    /\ now < cookie[c].exp
    /\ "ip" \in bindTo[i] => "ip" \in issuedTo[c].bound /\ addr[c] = issuedTo[c].ip
    /\ "ua" \in bindTo[i] => \/ Presented(c, via).ua = NoText
                             \/ /\ "ua" \in issuedTo[c].bound
                                /\ SameAgent(Presented(c, via).ua, issuedTo[c].ua)

\* A live token is accepted at the gateway by every running instance whose policy
\* binds what the issuer's did, as long as the client presents the same fields,
\* across kills, restarts and changes of case in the user agent. TLS fingerprints
\* may be bound: issuer and root handler agree on having none.
GoodTokensAreAccepted ==
  \A c \in Clients, i \in Instances :
    /\ boot[i] = "up" /\ cookie[c] # NoToken /\ now < cookie[c].exp
    /\ issuedTo[c].bound = bindTo[i]
    /\ addr[c] = issuedTo[c].ip /\ SameAgent(agent[c], issuedTo[c].ua)
    => Verify(i, c, "gateway")

\* Where the decide API answers otherwise than the gateway for the same client and
\* token: under a policy that binds JA3 or JA4 it refuses every token shown with a
\* fingerprint, and under one that binds the user agent it takes from the Node SDK
\* only tokens that name no user agent. Everywhere else the two agree.
RoutesAgree ==
  \A c \in Clients, i \in Instances :
    /\ Verify(i, c, "custom")
         <=> Verify(i, c, "gateway") /\ bindTo[i] \cap {"ja3", "ja4"} = {}
    /\ "ua" \notin bindTo[i] => (Verify(i, c, "node") <=> Verify(i, c, "gateway"))
    /\ "ua" \in bindTo[i] /\ Verify(i, c, "node") => cookie[c].ua = NoText
=============================================================================
