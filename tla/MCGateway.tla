----------------------------- MODULE MCGateway -----------------------------
(* How requests are served: a browser's visits at the gateway and at an    *)
(* application with an SDK (part "visit"), an application's calls of the   *)
(* daemon (part "sdk"), and the daemon's process (part "process"). A       *)
(* behaviour of the run is one of one part.                                *)
EXTENDS Visit, TLC

CONSTANTS Calls, Sdk, MaxParts, MaxActive, Parts
VARIABLES part
VARIABLES daemon, failOpen, call, peer, timer, work, answer, rest, decided, effect
VARIABLES main, srv, shut, active, ended, signal, ready, expired, cache
sdk == <<daemon, failOpen, call, peer, timer, work, answer, rest, decided, effect>>
process == <<main, srv, shut, active, ended, signal, ready, expired, cache>>
all == <<part, vars, sdk, process>>
ASSUME GatewayAssumption == MaxActive \in Nat \ {0} /\ MaxParts \in Nat \ {0}
ASSUME SdkAssumption == Sdk \in [Calls -> {"node", "python"}]

MCSdk == [c \in Calls |-> IF c = CHOOSE x \in Calls : TRUE THEN "node" ELSE "python"]
S == INSTANCE SdkClient WITH pc <- call, parts <- rest, verdict <- decided
L == INSTANCE Lifecycle WITH pc <- main

\* Targets with and without a path; requests as browsers send them, one asking for
\* a WebSocket, some through another proxy.
Upstream(serves, prefix, q) == [serves |-> serves, path |-> prefix, query |-> q]
MCUpstreams == {Upstream("nothing", <<>>, <<>>), Upstream("pages", <<>>, <<>>),
                Upstream("pages", <<"/">>, <<"k">>), Upstream("pages", <<"/", "t">>, <<"k">>),
                Upstream("bundle", <<"/", "t", "/">>, <<>>)}
MCBundle == {u \in MCUpstreams : u.serves = "bundle"}
Request(p, q, names, lists) ==
  [path |-> p, query |-> q, listed |-> lists,
   headers |-> [n \in names |-> IF n = "TE" THEN <<"trailers">> ELSE <<"client">>]]
MCRequests ==
  {Request(p, q, {"User-Agent"}, {}) : p \in {<<"/">>, <<"/", "x">>}, q \in {<<>>, <<"q">>}}
  \cup {Request(<<"/", "x", "%2F", "x">>, <<"q">>, {"User-Agent", "TE"}, {}),
        Request(<<"/">>, <<>>, {"User-Agent", "Connection", "Upgrade"}, {"Upgrade"}),
        Request(<<"/">>, <<>>, {"Connection", "Keep-Alive", "X-Forwarded-Host"}, {"User-Agent"}),
        Request(<<"/">>, <<>>, {"User-Agent", "X-Forwarded-For"}, {}),
        Request(<<"/">>, <<>>, {"User-Agent", "Connection", "X-Forwarded-Host", "X-Forwarded-For"},
                {"X-Forwarded-Host", "X-Forwarded-For", "User-Agent"})}

MCInit == /\ part \in Parts
          /\ Init /\ S!Init /\ L!Init
          /\ part # "visit" => /\ route = "gateway" /\ cookie = "none"
                               /\ policy = [r \in Resources |-> "ALLOW"]
                               /\ upstream = CHOOSE u \in Upstreams : TRUE
          /\ request = CHOOSE r \in Requests : TRUE
          /\ part # "sdk" => daemon /\ failOpen /\ peer = [c \in Calls |-> TRUE]
MCNext == \/ part = "visit" /\ Next /\ UNCHANGED <<part, sdk, process>>
          \/ part = "sdk" /\ S!Next /\ UNCHANGED <<part, vars, process>>
          \/ part = "process" /\ L!Next /\ UNCHANGED <<part, vars, sdk>>

\* The fairness of the three modules, with the other parts at rest.
MCSpec == /\ MCInit /\ [][MCNext]_all
          /\ WF_all(part = "visit" /\ Step /\ UNCHANGED <<part, sdk, process>>)
          /\ \A c \in Calls :
               /\ WF_all(part = "sdk" /\ S!Timeout(c) /\ UNCHANGED <<part, vars, process>>)
               /\ WF_all(part = "sdk" /\ S!Enforce(c) /\ UNCHANGED <<part, vars, process>>)
          /\ WF_all(part = "process" /\ L!MainStep /\ UNCHANGED <<part, vars, sdk>>)
          /\ WF_all(part = "process" /\ L!Expire /\ UNCHANGED <<part, vars, sdk>>)
-----------------------------------------------------------------------------
\* SdkClient: every call ends unless a body stops on its way to the Node client.
CallsEnd == S!CallsEnd

\* SdkClient: a request is served for an ALLOW, for want of one if so configured, or
\* for an answer without a verdict the SDK knows from another service.
ServedForCause == S!ServedForCause

\* Lifecycle: readiness is down before a listener closes, and no handler loses the
\* cache before the shutdown's deadline.
ShutsDownInOrder == L!ShutsDownInOrder

\* Lifecycle: a signal, or a server that ends, brings the process to its exit.
StopsWhenAsked == L!StopsWhenAsked
=============================================================================
