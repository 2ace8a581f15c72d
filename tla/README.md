# A TLA+ verification project for anti-scrapling

anti-scrapling is a gate in front of a web application. Every request passes
through a Go daemon that collects signals about it, combines them under a policy,
and lets it through, sends it to a challenge page, or refuses it. A browser that
solves the challenge gets a pass token and is let through while the token lives.

This directory models the daemon's state machines, parsers and decision algorithms,
the browser-side collectors that feed them and the SDKs that call it, checks them
with TLC on small instances, and proves most of the safety properties with TLAPS
for all values of the modules' constants. `PROJECT.json` maps every definition to the lines it translates
(paths below are relative to the repository's root).

## The system

| Part | State | Operations | What makes it hard |
|---|---|---|---|
| challenge service (`internal/challenge`) | LRU of ids with their time of issue | HandleChallenge, HandleVerify | lookup and removal of an id are two calls; ids expire and are evicted; an id is spent even when the solution is wrong |
| pass tokens (`internal/token`) | each instance's key and bindings, the clients' cookies | Issue, Verify, LoadKey | policy changes across restarts; three routes to the verifier that show it different fields; the key file is read, created and written in separate steps by several processes |
| decision pipeline (`internal/pipeline`, `internal/cache`) | LRU of decisions with expiry, or Redis | Decide | collectors run in parallel; an expired entry is removed after it was read; Redis may fail at any call |
| policy and combiner (`internal/policy`, `internal/decision`) | the compiled policy | Evaluate, Combine | rules that fail at run time; textual joins; clamp and thresholds |
| IP and header collectors (`internal/signal/ip`, `.../headers`) | tables; referer rings per address | Collect, Observe | two tables that must agree; double-checked creation of a ring; a one-pass order scan |
| beacons (`internal/challenge/beacon_store.go`, `internal/signal/behavior`, `web/challenge/src/behavior.ts`) | page totals; two indexes of recent beacons | event handlers, Ingest, GetBy..., Score | timers settled by two handlers; windows trimmed and pruned by writes to other keys |
| fingerprint (`web/challenge/src/fingerprint`, `internal/signal/fingerprint`) | none | collect, Score | TypeScript and Go agree on names and meanings by hand; failures become fallbacks |
| audit ring (`internal/observability/audit.go`) | ring, head, count | Record, Since | wrap-around; stamps taken before the lock |
| TLS captures (`internal/server`) | table of captures by address | Read, GetConfigForClient, connState | addresses are reused before the close is reported, and before a handshake the client gave up has stored its capture |
| lifecycle (`cmd/antiscrapling/main.go`, `internal/server`, `health.go`) | main's position, three servers, the gate | start, signal, shutdown | a shared deadline; signals and failures at any time |
| gateway (`cmd/antiscrapling/wire.go`, `internal/proxy`) and the challenge page (`web/challenge/src/main.ts`, `pow.ts`) | the browser's cookie and where it is | the root handler, the Director, the page's script | page, script and service agree on names and types by hand; hop-by-hop headers and the gateway's own are edited by the Director and again by ReverseProxy |
| decide API and SDKs (`internal/api`, `sdk/node`, `sdk/python`) | calls in flight, their timers | DecideHandler, decide, the middlewares | a timer against an answer that arrives in parts; fail-open and fail-closed; answers without a known verdict |
| TLS and HTTP/2 fingerprints (`internal/signal/tls`, `.../http2`) | the HPACK name table of a capture | ParseClientHello, JA3, JA4, ParseFrames, Akamai, JA4H | nested lengths over captures that stop anywhere; a table kept without evictions; Go's map order |
| metrics, certificates, CLI, deployment | | | not modelled, see below |

A request's way through the parts: the listener attaches the captured ClientHello
(`Connections`); the root handler (`Visit`) verifies the cookie (`PassToken`), calls
`Decide` (`Pipeline`), which asks the collectors (`IpReputation`, `Headers`, `RefererTracker`,
`ClientHello`, `Http2` with `Ja4h`, `BeaconStore` with `Behavior`'s scoring) and
combines their signals under the policy (`Policy`, `Decision`); the outcome is recorded (`AuditLog`), and an allowed
request is forwarded (`Proxy`). A challenged browser fetches an id, collects a
report (`Fingerprint`) and redeems both (`Challenge`), which issues a token
(`PassToken`). An application with an SDK (`SdkClient`) asks the decide API instead.

## Modules

| Module | Models | Notes |
|---|---|---|
| `LRU` | golang-lru's Get/Add/Remove on the order of keys | external library, from its use |
| `Challenge` | issuer.go, service.go | one action per access to the shared LRU or the clock: `GetId`, `CheckAge`, `RemoveId`, `Finish` are the steps of HandleVerify |
| `KeyFile`, `PassToken` | key.go; issuer.go, verifier.go, binding.go, cookie.go | `ReadFile`, `CreateFile`, `WriteFile` are the system calls of LoadKey; `Kill` may come between any two; a token is its claims plus the key that signed it; `Presented` is what each route shows the verifier |
| `DecisionService` | what callers of Decide may rely on | abstract specification |
| `Pipeline` | pipeline.go, memory.go, redis.go | `Lookup`, `Check`, `Evict` are memoryCache.Get; `RedisGet` and `RedisSet` are the other backend, each with its failure; `Collect` is one goroutine; a decision is the record of what it was made from |
| `Policy`, `Decision`, `Policies` | compiler.go, evaluator.go, loader.go; combine.go; policies/*.yaml | CEL is three-valued: true, false, error; an error is absorbed by a true disjunct or a false conjunct, as in cel-go |
| `IpReputation` | signal/ip | addresses by what the code can tell about them |
| `Headers`, `RefererTracker` | signal/headers | the checks as operators; the tracker with its two locks |
| `Behavior`, `BeaconStore` | behavior.ts and signal/behavior; beacon_store.go | history variables hold what really happened |
| `Fingerprint` | web/challenge/src/fingerprint and signal/fingerprint | a browser is what the collectors can observe of it |
| `ClientHello` | signal/tls | bytes in, offers and signals out; a parser returns the set of its results, empty after an error |
| `Http2`, `Ja4h` | signal/http2 | the same for frames and HPACK names; JA4H over names in byte order |
| `Subsequence` | the loops that append the entries passing a test | the entries at a set of positions, in order |
| `AuditLog`, `BoundedLog` | audit.go; a log of the last n entries | the second is abstract |
| `Connections` | clienthello.go, server.go, context.go | record lengths and the cap are numbers of bytes; a connection closed in its handshake is `cut`, and its goroutine may still run the callback; an entry's field `late` is history |
| `Lifecycle` | main.go, server.go, health.go | `Shutdown` and `StopReturns` are the two halves of Stop; `active` counts the connections Shutdown waits for, on which a handler runs or is about to |
| `Proxy` | proxy.go, headers.go | paths with escaped slashes, a header's value as the sequence of who wrote its parts; `Director` is the code's, `ServeHTTP` what ReverseProxy does after it; net/url and httputil from their use |
| `Visit` | wire.go's handler, main.ts, pow.ts, the SDKs' enforcement | a browser's navigation from its first request to a settled state, at the gateway or at an application with the Node SDK or the Python SDK (which sends no token) |
| `SdkClient` | client.ts, client.py, the middlewares, decide.go | headers and body of the answer arrive separately; `daemon` says whether the configured URL is the daemon's, and `Foreign` are the answers of anything else |
| `MC...` | the instances for TLC | `MCDecision`, `MCHeaders`, `MCFingerprint`, `MCFormats`, `MCSignals` and `MCGateway` also define the universe of inputs; `MCFormats` has the encoders the parsers are checked against |
| `...Proofs` | the theorems | each extends its component or the MC module that has several, or takes its component with INSTANCE |

Some definitions are preceded by a faulty variant that nothing uses
(`RemoveExpired` before `RemoveId`, for instance; the comment calls it the
mutant). With the variant in place of the definition a property fails, which
shows that the property depends on that code; `PROJECT.json` lists the pairs.

## Runs

All states are explored in every passing run; bounds are CONSTANTS of the cfg.

| Run | Distinct states | What it shows |
|---|---|---|
| `challenge` | 146,148 | Tokens are earned with a fresh id, a valid proof and a total below the limit; a spent id never returns; two redemptions of one id overlap in time; a good solution is refused only for one of three causes. |
| `pipeline` | 132,403 | With the memory cache and with a Redis that may fail: cached decisions belong to their key and are complete; every call ends; `Decide` implements `DecisionService`. |
| `decision` | 35,840 | Under the shipped policies and two custom ones: more evidence never helps, a token always passes, a high score is never let through and gets the documented verdict with one named exception, and the code departs from the documented reading of a policy in three named cases only. |
| `tokens` | 642,816 | In the documented deployment running instances share the persisted key; acceptance respects the bindings in force on every route; live tokens shown by their owner are accepted at the gateway; where the decide API differs from the gateway. |
| `windows` | 167,408 | Four independent in-memory tables: beacons, audit ring (implements `BoundedLog`), referer rings, ClientHello captures. |
| `signals` | 872,455 | Six independent parts. The page's totals are exact and what a beacon is scored for happened; every signal of a report names a trait of the browser or is one of four known exceptions, traits never lower a total, fallbacks are neutral but for four families; genuine browsers raise no header or TLS signal but for two named exceptions; ClientHellos and HTTP/2 frames are read back exactly or refused; fingerprints do not change with GREASE, shuffles, later frames or map order. |
| `gateway` | 132,815 | Three independent parts. What reaches the upstream was allowed, on the path and with the headers intended, and at the gateway a navigation settles after one redirect at most; an SDK's call ends, with one named exception, and serves only for cause, whatever stalls or fails, with the answers of another service that it takes for an ALLOW named; the gate is down before a listener closes, handlers drain unless the deadline passes, and the process exits when asked. |
| `decision_fallthrough` | violation | A request no rule of strict.yaml matches does not get the default. |
| `decision_datacenter` | violation | strict.yaml does not deny datacenter and Tor addresses outright. |
| `tokens_fleet` | violation | Instances that start together without a key file can refuse each other's tokens. |
| `fingerprint_clean` | violation | The page's own report of a clean browser scores 20 or more. |
| `visitor` | violation | A browser that has solved its proof of work gets no cookie and does not return to the URL it asked for. |

### Bounds and why they are enough

- `challenge`: three ids in a cache of two make evictions happen, two concurrent
  requests make both lookups precede both removals, and a lifetime of one within a
  clock of two makes ids of every age; ids and requests are symmetric.
- `pipeline`: a cache of one entry makes every store evict, two requests that may
  call again and again make late removals meet fresh entries, a clock to three
  with a TTL of one lets an entry expire and be replaced. The inputs share a key
  and differ in token state and in what the key leaves out. The Redis cache has no
  capacity of its own; any GET or SET may fail.
- `decision`: all subsets of five signals on top of those the address raises,
  seven sorts of addresses, every path the rules name and one they do not.
- `tokens`: two instances, three keys, one client who moves between two addresses
  and three user agents (two that differ in case and none); policies that bind
  nothing, the user agent, the address too, and JA3 too change at restart; JA4 is
  handled like JA3. Tokens of different clients never interact, so one is enough.
- `windows`: the audit ring holds three entries and wraps; the referer window
  holds six, past the minimum of five; beacon windows hold two; two connections
  share or do not share an address, so that the hook or the callback of the first
  meets the entry of the second; a record is shorter than, as long as or longer
  than the cap. A beacon's age limit of two in a clock to four lets entries expire
  while others stay.
- `signals`: time to four, three clicks and moves, thresholds scaled down with
  them; two edits of a header list; six browsers in secure and insecure contexts,
  up to two traits and one collector that throws (the probes are independent of
  each other except in pairs). ClientHellos of five clients in a record or bare,
  with up to two edits, cut at every byte; `RandomLength` is 2 instead of 32, which
  shortens a field that is skipped. Up to four frames with
  one block of two plain fields among them, or two blocks of two fields of every
  kind, so that an index reaches into the table an earlier block left; captures
  that miss the last byte or two, inside a payload or, for an empty one, inside
  the frame's header. No run sends CONTINUATION frames, or a request after the last
  of these blocks. `MaxShift` is 14 instead of 56.
- `gateway`: redirects to three and two visits, so that a cookie lapses between
  them; targets with and without a path and a trailing slash; one call of each SDK
  with bodies in two parts, from the daemon or from another service; requests with
  their own X-Forwarded-For, with TE for trailers and with a Connection header that
  lists the gateway's headers; up to two connections in service per server.

Deadlock is checked in `pipeline` and `windows`. In the other runs the system may
stop: the process has exited, inputs are decided, or the bounded clock and the
finite ids or edits are used up.

### Fairness

- `Pipeline`: weak fairness of each request's own step. A request runs on its own
  goroutine and waits only for collectors that compute and return; the Go
  scheduler runs every goroutine that can run.
- `Visit`: weak fairness of the servers' answers and the browser's own steps; the
  user owes nothing and tokens may lapse at any time.
- `SdkClient`: weak fairness of the timers, where they are armed, and of the
  middleware. Neither the daemon nor the network owes an answer.
- `Lifecycle`: weak fairness of main's next step and of the deadline's timer.
  Handlers, servers and signals owe nothing: a handler may never finish, and the
  process still exits.
- Everything else is safety.

## Proofs

| Module | Theorems | Inductive invariant |
|---|---|---|
| `ListProofs` | lemmas on the LRU's `Without`, `Touch`, `AddKey` (distinctness, length, range) and on recursion along a sequence (`Descent`, `FoldExists`) | none needed |
| `ChallengeProofs` | `TypeCorrect`, `CacheIsBounded`, `SpentIdsNeverReturn`, `SingleUse`, `TokensAreEarned`, `RefusalsHaveCause` | `IInv`, `RInv` |
| `PipelineProofs` | `TypeCorrect`, `CacheIsBounded`, `EntriesAreOwn`, `Refinement` | `IInv` |
| `ClientProofs` | `InstancesShareTheKey`, `KeyIsPersistent`, `AcceptanceIsBound`, `LiveTokensAreAccepted`, `RoutesAgreeOnTokens`; `Insertions`, `GenuineHeaders` | `KeyInv`, `TokenInv`; `ListInv` |
| `WindowsProofs` | `WindowsStayBounded`, `NewestStaysServed`; `RingImplementsLog`; `AnswersAreRight`; `HelloIsOwn`, `TableIsReclaimed`, `RecordIsWhole` | `BInv`; `AInv`; `TInv`; `CInv` |
| `SignalsProofs` | `TimeStaysAccounted`, `BeaconsAreTrue`; `Causes`, `Traits`, `Fallbacks` | `IInv`; `ReportInv` |
| `GatewayProofs` | `ShutdownIsOrderly`; `ServingHasCause`; `ServedAsJudged`, `GatewayRedirectsOnce` | `LInv`; `SInv`; `VInv`, `OneHop` |
| `DecisionProofs` | `CombineAsDocumented`; `DecidedAsDocumented`, `EvidenceOnlyHurts`, `HighScoresAreStopped`, `NetworksAreStopped`, `TokensPass` | `DInv` |

A theorem about a component that an MC module instantiates is about the component's
own specification (`A!Spec`, `T!Spec`, `C!Spec`, `S!Spec`, `L!Spec`, `F!Spec`), not about
the bounded run. Each inductive invariant was also checked with TLC on a small instance.

**Challenge.** Single use does not follow from the cache alone, because a request
between its lookup and its removal holds a copy of what it read. `LocalOK` ties
that copy to the shared record (a hit read the id's true time of issue; only a hit
gets past the lookup), `AfterOK` says that requests seen answered stay answered,
and `LateMisses` that a request which arrived after another had redeemed its id
never finds it. `SpentIdsStayGone` carries the induction: ids are handed out once.
`RefusalsHaveCause` counts: `KeptUnlessLookedUp` says that until more ids than
`Capacity` have been handed out every id is still in the cache or was looked up, since
an eviction needs a full cache of distinct ids.

**Pipeline.** `LocalOK` says what a request holds at each of its steps: nothing,
or a decision that is good for its own key. A removal can delete a fresh entry, so
the invariant never says that a stored decision stays; it says that whatever is
there belongs to its key. The refinement maps the abstract `held` to what is in
the cache together with what requests have read but not yet checked, which is why
an expired read is dropped by the abstract `Forget`. With Redis a hit is read and
answered in one step, since the server checks the age; a failed GET is a miss and a
failed SET leaves the entry as it was. Each step is an abstract step
or a stutter; fairness plays no part.

**PassToken.** `OneWriter` is the point of the argument: while the file holds no
key the fleet has one instance, so nobody overwrites a key in use. It is exactly
what fails in the run `tokens_fleet`. `Honest` says that a cookie is signed with
the key in the file, carries the bound part of what was presented at issue and
never a JA3 or a JA4, which is what `RoutesAgreeOnTokens` turns on.

**Headers.** `subsequenceScore` walks along the canonical list and advances at each
header it is waiting for. `ScoreWalks` turns the loop into a function of the position,
and a least counterexample shows that the walk over a list with one more header is
never behind (`InsertionWalksOn`), so the score only grows, and with it every match
(`Insertions`). `ListInv` says that a list still called genuine is no anomaly:
a canonical list follows itself to the end; `GenuineHeaders` adds the Client Hints and fetch metadata
of each browser and fetch, which no edit changes.

**Windows.** Four tables, four arguments.
Beacons: pruning keeps the entries younger than the cutoff. Because a window is in
the order of storage these are a suffix (`PruneKeeps`), so the newest entry is the
last to go; `Newest` says that a window ends in it, or is empty because it is over age.
Audit: `Ring` reads the buffer from the head when it is full and from 0 before; one
`Record` appends to that reading and drops its first entry when the ring was full
(`RingGrows`), which is one `Write` of `BoundedLog`. The arithmetic of the wrap-around
is done once, for any size and any values, and used for the tracker too.
Tracker: whoever observes works on the shared window, and windows that lost the
race to be shared are still as they were made; the shared one reads as the last
referers, and the count of the answer is a cardinality carried over by a bijection.
Captures: `OneOwner`, that two open connections never have one address, is what the
operating system gives; `EntriesOwned` and `OwnEntry` follow an entry from its
connection to the hook that deletes it, which may belong to an earlier connection.
A connection that was cut may store its entry when the address has a new owner; such
an entry is marked `late`, and the invariant keeps it apart: it belongs to a connection
of the same address that was closed before it stored.

**Behavior.** `Timed` says that the collector's view of the document is the
document's own and that the totals add up to the time gone by; `Clicked` that the
intervals are the differences of the click times. `Right` is a fact about a beacon
at the moment it was sent, so it outlives later events; `ScoreHas` takes it from the
single checks to the list that `Score` puts together.

**Fingerprint.** The module runs page and server on browsers with up to `MaxTraits`
traits and `MaxFailed` throwing collectors; the theorems have no such bounds. `Cause`
is a closed form: for each signal, what of the browser's kind, its traits, its context
and the collectors that threw makes it fire. One lemma per group of probes
(`NavigatorProbe`, `WebGLProbe`, `RenderProbes`, `AgentProbes`, `FontProbe`, `PageProbes`,
`ScriptProbes`) takes the report through the collectors and the probe to the signals of
`Cause`, and `ScoreOfCauses` puts them in the order of `Score`. The rest is about `Cause`:
it grows with the traits (`TraitsAddCauses`), a collector that throws outside the four
families only takes from it (`FailuresRemoveCauses`), and a larger set of causes has a
larger total (`MoreCauses`, on `TotalConcat`: a total is the sum of the parts' totals).
`ReportInv` says that the signals of a state are those of its browser.

**Gateway.** Lifecycle: `StoppedBefore` gives the servers that main has left behind
at each of its positions; each has no handler running unless the deadline passed.
SDKs: `AnswerOK` says which answers the daemon gives and which only another service
does; `Justified` is what stands behind a verdict that will be served, and a late answer
must not take it away: a call decided for want of an answer may see the answer's headers
afterwards, and parts that are still to come then say that it was not received in whole.
Visit: what is served is what `Forward` makes of the request. `DirectorPath` shows for any
paths that escaping and joining keep the path that was judged; `DirectorHeaders` that
hop-by-hop headers, those the connection lists included, are gone after the Director, and
`ForwardHeaders` what ReverseProxy puts back: TE for trailers, and the client's address at
the end of X-Forwarded-For.

**Decision.** `CombineAsDocumented` is about every policy whose match blocks are built
from the keys that the loader accepts, every list of signals and every request. CEL's three
values make it a case analysis on the first rule that is not false: `EvaluateStops` and
`EvaluateFallsThrough` say what the loop over the rules returns, by a least counterexample,
and `MatchesAsDocumented` that for a block which does not fail and does not mix forms
the compiled expression agrees with the documented reading.
The other theorems are about the policy files of the run, under all subsets of the
signals. `ReportedTotal` turns the sum over the report into `Points`, a sum of weights
over the set that fired; `DefaultRules`, `StrictRules`, `MixedRules` and `LockedRules`
evaluate each file rule by rule for any set, token and path; `Outcome` is the closed
form that results. `EvidenceOnlyHurts` is then `OutcomeGrows`: the closed form is
monotonic in the set although the intermediate results of the rules are not.
For `HighScoresAreStopped` the documented verdict is computed beside it (`DocumentedShipped`):
`FirstMatchAt` finds the first rule that holds, whatever fails ahead of it.
`AddressSignals` computes what `ip.Collect` raises for the addresses concerned.

### Assumptions

The named ASSUMEs of the modules, which TLC evaluates in the runs: capacities and
window sizes are positive, times are natural numbers, the markers for "nothing"
(`NoId`, `NoKey`, `NoDecision`, `NoConn`, `NoWindow`...) differ from real values, and
sessions and addresses, which index two maps in the code, are different keys.
Further:

- `BehaviorAssumption`: the ends of the click band, the number of kept intervals and the
  other thresholds are natural numbers, positive where the code's are (100 to 200 ms,
  the last 32 intervals).
- `VisitAssumption`: a request's path begins with a slash, as Go's server demands of
  what it routes, and the upstream URL of the configuration has no escaped slash in
  its path. The theorem on the forwarded path needs the second. A request's header
  values are sequences of strings.
- `SdkAssumption`: each call is made with the Node or with the Python SDK.
- `PolicyAssumption`: the policies of the instance are among the four the module
  defines, and the loader accepts them.

### What is not proved

- Proved but not checked by a run: well-typedness and the capacities of the id
  cache and the decision cache (`TypeCorrect`, `CacheIsBounded`),
  `CombineAsDocumented` for every policy, and `GatewayRedirectsOnce`, the safety half
  of `NavigationsSettle`.
- Liveness stays with TLC: `EveryRequestAnswered`, `NavigationsSettle`, `CallsEnd`,
  `StopsWhenAsked`. The prover has no rules for fairness and ENABLED.
- The parsers of `ClientHello` and `Http2` read what encoders wrote; `HelloReadExactly`,
  `FramesReadExactly` and `FingerprintsAreStable` are inductions over data, checked
  against the encoders of `MCFormats` on bounded captures.
- The TLS half of `BrowsersRaiseNothing`, for the same reason; `GenuineHeaders` is its
  header half.

## What the checks found

The five violation runs, and disagreements met while modelling that a passing
property states as its exception or that no run shows, are listed with their
quotations under `findings` in `PROJECT.json`: the token bypass and the
unparenthesised join against "first match"; the decision cache against "every
call"; the readiness gate, which is up before a listener is open; the prefix-only
order scan, and the order the gateway does not have; doubly counted resources;
upgrades the proxy strips and the TE it does not; strict.yaml's deny threshold, which
decides although thresholds are documented as informational; a ClientHello stored late
under an address that has a new connection; the Node client's timer, which does not cover the body;
answers without a known verdict, which the SDKs serve, and denials without reasons,
at which the Node middlewares throw;
priorities of later requests in the Akamai fingerprint; TLS fingerprints that bind
nothing; header case, field names and redirects in the SDKs.

The passing properties name further exceptions: Chrome on iOS counts as Chrome with
Safari's TLS (`BrowsersRaiseNothing`), and a Huffman-coded name that enters the
client's HPACK table shifts every index after it (`FramesReadExactly`).

## Not modelled

- A SET that Redis carries out after the client has given up: it stores the same
  decision later than the model does, for at most the client's retry time.
- The order of beacons on the network: a beacon carries no sequence number and the
  store keeps the order of arrival.
- Captured HTTP/2 frames in the daemon: nothing there calls `WithFrameBytes`, so
  the Akamai half of the collector is modelled as the library it is.
- The lists of known JA3, JA4, JA4H and Akamai values: data, constants of the
  modules. The four-part JA4H has no caller.
- Proof-of-work arithmetic, JWT encoding, CEL's parser, MaxMind's format:
  properties of libraries and hash functions.
- The upstream's answer and httputil's copying of it: a library's.
- net/http's race between closing an idle connection in Shutdown and a request that
  arrives on it at that moment: its handler may start on the closed connection, and
  Shutdown does not wait for it.
- Totals under 0: `mobile_ip`, the one negative weight of the shipped files, belongs to a
  category no address gets.
- The cutoff of `Since` in a run: the audit log is read in whole.
- Metrics, logging, certificates, CLI, deployment: nothing reads their state.
- `internal/signal/behavior/ingest.go`: the daemon does not use it.

## Plan

Built so far: the core (challenge, tokens, pipeline, policy and combiner), the
shared tables, the collectors with their parsers, the gateway, the page and the
SDKs, the lifecycle, and eight proof modules. Next, proofs:

1. `EvidenceNeverHelps` for arbitrary weights and thresholds.
2. The order of `HandleChallenge` and `HandleVerify` as an abstract specification of
   single use that `Challenge` implements.
