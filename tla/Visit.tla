------------------------------- MODULE Visit -------------------------------
(* A browser's way to a page, in proxy mode (route "gateway": the root     *)
(* handler, the challenge page and its script, the reverse proxy) and in   *)
(* SDK mode (routes "node" and "python": a middleware that judges every    *)
(* request of the application; the Python one sends no token along). The   *)
(* verdict on a request without a valid token is the policy's, a choice    *)
(* per path; with one it is ALLOW (see Decision). The verify endpoint past *)
(* its decoder is in Challenge, tokens in PassToken.                       *)
EXTENDS Proxy, Integers

CONSTANTS Upstreams,     \* [serves, path, query]; serves: "nothing", "pages" or "bundle"
          Requests,      \* what browsers send: [path, query, headers, listed]
          Difficulty, MaxHops, MaxVisits

\* An upstream's path is decoded; a request has a path from the root. A browser
\* follows at least one redirect.
ASSUME VisitAssumption ==
  /\ \A u \in Upstreams : u.path \in Seq(STRING) /\ \A i \in DOMAIN u.path : u.path[i] # "%2F"
  /\ \A r \in Requests : /\ r.path \in Seq(STRING) /\ r.path # <<>> /\ Head(r.path) = "/"
                         /\ r = [path |-> r.path, query |-> r.query,
                                 headers |-> r.headers, listed |-> r.listed]
                         /\ \A n \in DOMAIN r.headers : r.headers[n] \in Seq(STRING)
  /\ MaxHops \in Nat \ {0}

VARIABLES pc, route, policy, upstream,
          cookie,                     \* the pass token: "none", "valid" or "stale"
          at, for, hops,              \* the resource asked for, as what, redirects so far
          request,                    \* an element of Requests
          meta,                       \* the challenge page's meta element
          verdict, seen,              \* the last verdict, the last request at the upstream
          visits
setting == <<route, policy, upstream>>
vars == <<pc, setting, cookie, at, for, hops, request, meta, verdict, seen, visits>>

Resources == {"page", "challenge", "bundle"}
Verdicts == {"ALLOW", "CHALLENGE", "DENY"}
Settled == {"served", "refused", "looping", "inert", "stranded"}
Nothing == [none |-> ""]

Init == /\ pc = "idle" /\ route \in {"gateway", "node", "python"}
        /\ policy \in [Resources -> Verdicts] /\ upstream \in Upstreams
        /\ route # "gateway" => upstream.serves = "pages"
        /\ cookie \in {"none", "valid", "stale"}
        /\ at = "page" /\ for = "navigation" /\ hops = 0
        /\ request \in Requests
        /\ meta = Nothing /\ verdict = "none" /\ seen = Nothing /\ visits = 0

\* The user follows a link or tries again.
Navigate ==
  /\ pc \in {"idle"} \cup Settled /\ visits < MaxVisits /\ visits' = visits + 1
  /\ pc' = "asking" /\ at' = "page" /\ for' = "navigation" /\ hops' = 0
  /\ request' \in Requests
  /\ UNCHANGED <<setting, cookie, meta, verdict, seen>>

\* A token ages, or its holder moves to another network.
Lapse == /\ cookie = "valid" /\ cookie' = "stale"
         /\ UNCHANGED <<pc, setting, at, for, hops, request, meta, verdict, seen, visits>>

\* The mux: the gateway serves the challenge's own page itself, but nothing it
\* routes is the bundle's path in index.html. The mutant has only the root handler.
RoutedNone == FALSE
Routed == route = "gateway" /\ at = "challenge"

Verdict == IF cookie = "valid" /\ route # "python" THEN "ALLOW" ELSE policy[at]

\* What the browser makes of an answer: a navigation ends in it; a module script
\* is run only if it is one.
Result(kind) == IF for = "navigation" THEN kind
                ELSE IF kind = "served" /\ upstream.serves = "bundle" THEN "script" ELSE "inert"

\* The root handler and the SDKs' middleware: judge and enforce; the gateway also
\* records the verdict (see AuditLog).
Judged(v) == /\ pc = "asking" /\ ~Routed /\ Verdict = v /\ verdict' = v
             /\ UNCHANGED <<setting, cookie, for, request, meta, visits>>
Allow == /\ Judged("ALLOW") /\ UNCHANGED <<at, hops>>
         /\ IF route = "gateway" /\ upstream.serves # "nothing"
            THEN seen' = Forward(upstream, request)
            ELSE UNCHANGED seen
         /\ pc' = Result(IF at = "challenge" \/ upstream.serves = "nothing" THEN "refused"
                         ELSE "served")
Challenge == /\ Judged("CHALLENGE") /\ UNCHANGED seen
             /\ IF hops < MaxHops
                THEN hops' = hops + 1 /\ at' = "challenge" /\ UNCHANGED pc
                ELSE pc' = Result("looping") /\ UNCHANGED <<at, hops>>
Deny == Judged("DENY") /\ pc' = Result("refused") /\ UNCHANGED <<at, hops, seen>>

\* HandleChallenge; a script element that is sent here gets a page and fails.
HandleChallenge ==
  /\ pc = "asking" /\ Routed
  /\ pc' = Result("page")
  /\ meta' = IF for = "navigation" THEN [id |-> "id", difficulty |-> Difficulty, origin |-> request]
             ELSE meta
  /\ UNCHANGED <<setting, cookie, at, for, hops, request, verdict, seen, visits>>

\* The page's only script.
LoadBundle == /\ pc = "page" /\ pc' = "asking"
              /\ at' = "bundle" /\ for' = "script" /\ hops' = 0
              /\ UNCHANGED <<setting, cookie, request, meta, verdict, seen, visits>>
-----------------------------------------------------------------------------
\* readChallengeParams: the data attributes, overridden by the content's JSON.
Get(f, name, default) == IF name \in DOMAIN f THEN f[name] ELSE default
ReadChallengeParams(m) ==
  LET content == Get(m, "content", Nothing)
  IN  [id |-> Get(content, "challenge_id", Get(m, "challengeId", "")),
       difficulty |-> Get(content, "difficulty", Get(m, "difficulty", 0))]

\* runChallenge up to its request: a proof of work, an object, or an exception
\* when the nonces run out. Nobody catches it.
Solution(params) == [type |-> "object", id |-> params.id, difficulty |-> params.difficulty]
RunChallenge == /\ pc = "script"
                /\ pc' \in {"verify", "stranded"}
                /\ UNCHANGED <<setting, cookie, at, for, hops, request, meta, verdict, seen, visits>>

\* HandleVerify's decoder wants a string for the solution; then the id counts.
HandleVerify(pow, params) == IF pow.type # "string" \/ params.id # meta.id THEN 400 ELSE 302

\* The answer and followVerifyResponse. A redirect goes to "/", as the page sends
\* no origin_url; anything else that is not a success is ignored.
Verify ==
  LET params == ReadChallengeParams(meta)
      passed == HandleVerify(Solution(params), params) = 302
  IN  /\ pc = "verify"
      /\ pc' = IF passed THEN "asking" ELSE "stranded"
      /\ cookie' = IF passed THEN "valid" ELSE cookie
      /\ at' = "page" /\ for' = "navigation" /\ hops' = 0
      /\ request' = IF passed THEN [request EXCEPT !.path = <<"/">>] ELSE request
      /\ UNCHANGED <<setting, meta, verdict, seen, visits>>

Step == Allow \/ Challenge \/ Deny \/ HandleChallenge \/ LoadBundle \/ RunChallenge \/ Verify
Next == Navigate \/ Lapse \/ Step

\* Servers answer and the browser follows; the user owes nothing.
Spec == Init /\ [][Next]_vars /\ WF_vars(Step)
-----------------------------------------------------------------------------
\* At the gateway every request of a browser is settled after one redirect at
\* most, whatever the policy says of the challenge's own path: the challenge page
\* is never challenged. (A middleware that judges the whole application sends the
\* browser round until it gives up.)
NavigationsSettle ==
  pc = "asking" ~> /\ pc \in {"page", "script"} \cup Settled
                   /\ route = "gateway" => pc # "looping"

\* What the upstream gets was judged ALLOW, on the path it gets: the target's
\* path, less a final slash, and the request's path, so that no slash is lost or
\* doubled. Of the headers that concern the client's connection only TE reaches it,
\* and only if the client takes trailers (ReverseProxy sends it again). Whatever
\* the client's Connection header lists, the protocol and the host the request came
\* with are what the gateway says, and the gateway has the last word in
\* X-Forwarded-For, behind what the client may claim there.
Prefix(p) == IF p # <<>> /\ Last(p) = "/" THEN Front(p) ELSE p
ForwardedAsJudged ==
  seen # Nothing /\ pc = "served" /\ for = "navigation" =>
    /\ verdict = "ALLOW"
    /\ Unescape(seen.path) = Prefix(upstream.path) \o Unescape(request.path)
    /\ DOMAIN seen.headers \cap HopByHopHeaders
         \subseteq IF TakesTrailers(request.headers) THEN {"TE"} ELSE {}
    /\ \A n \in Forwarded : n \in DOMAIN seen.headers /\ seen.headers[n] = <<"gateway">>
    /\ "X-Forwarded-For" \in DOMAIN seen.headers
    /\ Last(seen.headers["X-Forwarded-For"]) = "gateway"

\* docs/04-getting-started.md on a browser whose script has solved the proof of
\* work: it receives a cookie and is redirected to the original URL.
BrowserPassesAfterChallenge ==
  \A r \in Requests : pc = "verify" /\ request = r
                        ~> cookie = "valid" /\ at = "page" /\ request = r
=============================================================================
