----------------------------- MODULE SdkClient -----------------------------
(* An application's requests on their way through the Node and the Python  *)
(* SDK: the middleware asks the daemon, under a timeout, and enforces the  *)
(* verdict or, when there is none, the configured fallback. The daemon     *)
(* goes on with a call whose caller has given up. Networks stall and fail, *)
(* and what answers at the configured URL need not be the daemon.          *)
EXTENDS Naturals

CONSTANTS Calls, Sdk,  \* Sdk[c]: "node" or "python"
          MaxParts     \* bound: the parts in which a body arrives

VARIABLES daemon,      \* the configured URL is the daemon's
          failOpen,    \* the clients' configuration
          pc,          \* where each call is
          peer,        \* the request's remote address is known
          timer,       \* armed or not
          work,        \* the daemon's side of each call
          answer,      \* its answer: <<>>, <<status>> or <<200, verdict, has reasons>>
          parts,       \* parts of the answer's body yet to come
          verdict,     \* what decide returned: <<verdict, has reasons>>
          effect       \* what the middleware did
vars == <<daemon, failOpen, pc, peer, timer, work, answer, parts, verdict, effect>>

Verdicts == {"ALLOW", "CHALLENGE", "DENY"}
\* Answers of another service: an error, a page, a JSON object without a verdict,
\* one with a verdict that is none of the three ("allow", say), and JSON's null.
Foreign == {<<502>>, <<200, "page", FALSE>>, <<200, "missing", FALSE>>,
            <<200, "unknown", TRUE>>, <<200, "null", FALSE>>}
Init == /\ daemon \in BOOLEAN /\ failOpen \in BOOLEAN
        /\ pc = [c \in Calls |-> "idle"] /\ peer \in [Calls -> BOOLEAN]
        /\ timer = [c \in Calls |-> FALSE]
        /\ work = [c \in Calls |-> "none"] /\ answer = [c \in Calls |-> <<>>]
        /\ parts = [c \in Calls |-> 0]
        /\ verdict = [c \in Calls |-> <<>>] /\ effect = [c \in Calls |-> "none"]

\* The middleware builds the request (with an empty address if the socket has
\* none) and calls decide, which arms the timer and posts.
Ask(c) == /\ pc[c] = "idle" /\ pc' = [pc EXCEPT ![c] = "waiting"]
          /\ timer' = [timer EXCEPT ![c] = TRUE]
          /\ work' = [work EXCEPT ![c] = "running"]
          /\ UNCHANGED <<daemon, failOpen, peer, answer, parts, verdict, effect>>

\* DecideHandler: an address is required; otherwise Pipeline.Decide (see there). A
\* decision of the thresholds has no reasons, and its JSON says null.
Serve(c) == /\ work[c] = "running" /\ work' = [work EXCEPT ![c] = "done"]
            /\ \/ daemon /\ ~peer[c] /\ answer' = [answer EXCEPT ![c] = <<400>>]
               \/ daemon /\ peer[c] /\ \E v \in Verdicts, r \in BOOLEAN :
                    answer' = [answer EXCEPT ![c] = <<200, v, r>>]
               \/ ~daemon /\ \E a \in Foreign : answer' = [answer EXCEPT ![c] = a]
            /\ \E n \in 1..MaxParts : parts' = [parts EXCEPT ![c] = n]
            /\ UNCHANGED <<daemon, failOpen, pc, peer, timer, verdict, effect>>

\* fallback. The mutant of the Node client lets everything through.
FallbackOpen == <<"ALLOW", TRUE>>
Fallback == <<IF failOpen THEN "ALLOW" ELSE "DENY", TRUE>>

\* The whole answer parsed. Node takes any JSON for a decision; Python takes a
\* missing verdict for ALLOW, missing reasons for none, and raises at another verdict.
Unusable(sdk, a) == \/ a[1] # 200 \/ a[2] = "page"
                    \/ sdk = "python" /\ a[2] \in {"unknown", "null"}
Parse(sdk, a) == IF Unusable(sdk, a) THEN Fallback
                 ELSE IF sdk = "python" THEN <<IF a[2] = "missing" THEN "ALLOW" ELSE a[2], TRUE>>
                 ELSE <<a[2], a[3]>>

\* decide returns; the timer is off.
Return(c, v) == /\ pc' = [pc EXCEPT ![c] = "decided"] /\ timer' = [timer EXCEPT ![c] = FALSE]
                /\ verdict' = [verdict EXCEPT ![c] = v]
                /\ UNCHANGED <<daemon, failOpen, peer, work, answer, effect>>

\* The answer's headers. Node clears the timer and looks at the status; httpx
\* starts it again and reads on.
Headers(c) ==
  /\ pc[c] = "waiting" /\ answer[c] # <<>>
  /\ \/ /\ Sdk[c] = "node" /\ answer[c][1] # 200
        /\ Return(c, Fallback) /\ UNCHANGED parts
     \/ /\ Sdk[c] = "node" => answer[c][1] = 200
        /\ pc' = [pc EXCEPT ![c] = "body"]
        /\ timer' = [timer EXCEPT ![c] = Sdk[c] = "python"]
        /\ UNCHANGED <<daemon, failOpen, peer, work, answer, parts, verdict, effect>>

\* The body, part by part; with the last one it is parsed. A status other than
\* 200 raises in Python only now.
Body(c) ==
  /\ pc[c] = "body" /\ parts[c] > 0
  /\ parts' = [parts EXCEPT ![c] = @ - 1]
  /\ IF parts[c] = 1 THEN Return(c, Parse(Sdk[c], answer[c]))
     ELSE UNCHANGED <<daemon, failOpen, pc, peer, timer, work, answer, verdict, effect>>

\* The connection is refused or breaks; the timer fires and aborts the request.
\* The mutant of the timer is never set while the client waits for an answer.
Fail(c) == /\ pc[c] \in {"waiting", "body"} /\ Return(c, Fallback) /\ UNCHANGED parts
TimeoutBody(c) == /\ pc[c] = "body" /\ timer[c] /\ Return(c, Fallback) /\ UNCHANGED parts
Timeout(c) == /\ pc[c] \in {"waiting", "body"} /\ timer[c]
              /\ Return(c, Fallback) /\ UNCHANGED parts

\* The middleware. Node's joins the reasons for its 403 and throws without them, as
\* it does at a decision that is null; what it has no case for it serves.
Effect(v) == CASE v[1] = "ALLOW" -> "served"
               [] v[1] = "CHALLENGE" -> "redirected"
               [] v[1] = "DENY" -> IF v[2] THEN "denied" ELSE "error"
               [] v[1] = "null" -> "error"
               [] OTHER -> "served"
Enforce(c) == /\ pc[c] = "decided" /\ pc' = [pc EXCEPT ![c] = "done"]
              /\ effect' = [effect EXCEPT ![c] = Effect(verdict[c])]
              /\ UNCHANGED <<daemon, failOpen, peer, timer, work, answer, parts, verdict>>

Next == \E c \in Calls : \/ Ask(c) \/ Serve(c) \/ Headers(c) \/ Body(c)
                         \/ Fail(c) \/ Timeout(c) \/ Enforce(c)

\* Timers fire and the middleware runs; neither the daemon nor the network owes
\* an answer.
Fairness == \A c \in Calls : WF_vars(Timeout(c)) /\ WF_vars(Enforce(c))
Spec == Init /\ [][Next]_vars /\ Fairness
-----------------------------------------------------------------------------
\* Every request of the application is answered although the daemon and the
\* network may stall at any point, with one exception: the Node client clears its
\* timer when the headers are there, so a body that stops waits for ever.
CallsEnd ==
  \A c \in Calls : pc[c] = "waiting" ~> \/ pc[c] = "done"
                                        \/ Sdk[c] = "node" /\ [](pc[c] = "body")

\* A request is served only on an ALLOW for it, received in whole; where failOpen
\* says so, without a usable answer; or, against what failOpen = FALSE promises, on a
\* complete 200 of another service than the daemon that has no verdict, or, in Node,
\* an unknown one. Neither a late answer nor the order of timer, answer and failure
\* adds a way, and a client of the daemon's that fails closed serves nothing the
\* daemon has not allowed.
Received(c) == answer[c] # <<>> /\ parts[c] = 0
ServedForCause ==
  \A c \in Calls : effect[c] = "served" =>
    \/ failOpen /\ (Received(c) => Unusable(Sdk[c], answer[c]))
    \/ /\ Received(c) /\ answer[c][1] = 200
       /\ \/ answer[c][2] = "ALLOW"
          \/ ~daemon /\ answer[c][2] = "missing"
          \/ ~daemon /\ answer[c][2] = "unknown" /\ Sdk[c] = "node"
=============================================================================
