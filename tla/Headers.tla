------------------------------ MODULE Headers ------------------------------
(* The header collector's checks on one request. Header names are in lower *)
(* case, as the order check compares them; "" stands for an absent header. *)
(* A User-Agent is the Chrome/ version it names (0 for none) and the       *)
(* browser words it contains; Client Hints are the brands and versions     *)
(* Sec-Ch-Ua lists.                                                        *)
EXTENDS Integers, Sequences

CanonicalOrders ==
  [chrome  |-> <<"host", "connection", "sec-ch-ua", "sec-ch-ua-mobile",
                 "sec-ch-ua-platform", "upgrade-insecure-requests", "user-agent",
                 "accept", "sec-fetch-site", "sec-fetch-mode", "sec-fetch-user",
                 "sec-fetch-dest", "accept-encoding", "accept-language">>,
   firefox |-> <<"host", "user-agent", "accept", "accept-language", "accept-encoding",
                 "connection", "upgrade-insecure-requests", "sec-fetch-dest",
                 "sec-fetch-mode", "sec-fetch-site", "sec-fetch-user">>,
   safari  |-> <<"host", "connection", "accept", "user-agent", "accept-language",
                 "accept-encoding">>]

\* subsequenceScore: how far the canonical list was followed, other headers
\* skipped. The mutant gives up at the first header out of place.
Advance(ci, h, canonical) ==
  IF ci < Len(canonical) /\ h = canonical[ci + 1] THEN ci + 1 ELSE ci
SubsequenceScoreStrict(observed, canonical) ==
  LET ci[i \in 0..Len(observed)] ==
        IF i = 0 THEN 0
        ELSE IF ci[i - 1] = i - 1 THEN Advance(i - 1, observed[i], canonical) ELSE ci[i - 1]
  IN  ci[Len(observed)]
SubsequenceScore(observed, canonical) ==
  LET ci[i \in 0..Len(observed)] ==
        IF i = 0 THEN 0 ELSE Advance(ci[i - 1], observed[i], canonical)
  IN  ci[Len(observed)]

\* 60 per cent of the list, rounded down.
MatchThreshold(canonical) == (60 * Len(canonical)) \div 100
MatchesAnyCanonical(observed) ==
  \E b \in DOMAIN CanonicalOrders :
    SubsequenceScore(observed, CanonicalOrders[b]) >= MatchThreshold(CanonicalOrders[b])
IsOrderAnomaly(observed) == ~MatchesAnyCanonical(observed)

\* CheckUACHConsistency; the mutant compares every brand's version.
ChromeBrands == {"Google Chrome", "Chromium", "Microsoft Edge"}
UACHMismatchAnyBrand(h) ==
  /\ h.hints # {}
  /\ IF h.chrome = 0 THEN h.words \cap {"firefox", "safari"} # {}
     ELSE \E b \in h.hints : b.version # h.chrome
UACHMismatch(h) ==
  /\ h.hints # {}
  /\ IF h.chrome = 0 THEN h.words \cap {"firefox", "safari"} # {}
     ELSE \E b \in h.hints : b.brand \in ChromeBrands /\ b.version # h.chrome

ValidSecFetchSite == {"cross-site", "same-origin", "same-site", "none"}
ValidSecFetchMode == {"cors", "navigate", "no-cors", "same-origin", "websocket"}
ValidSecFetchDest ==
  {"audio", "audioworklet", "document", "embed", "empty", "font", "frame", "iframe",
   "image", "manifest", "object", "paintworklet", "report", "script", "serviceworker",
   "sharedworker", "style", "track", "video", "worker", "xslt"}
SecFetchInvalid(h) ==
  \/ h.site # "" /\ h.site \notin ValidSecFetchSite
  \/ h.mode # "" /\ h.mode \notin ValidSecFetchMode
  \/ h.dest # "" /\ h.dest \notin ValidSecFetchDest
  \/ h.user # "" /\ h.user # "?1"
  \/ h.site = "none" /\ h.referer # ""

BrowserForgeQuirk(h) == h.site \in {"?0", "?1"}

\* Collector.Collect, but for the referer tracker's signal (see RefererTracker).
Collect(h, order) ==
  (IF IsOrderAnomaly(order) THEN <<"header_order_anomaly">> ELSE <<>>)
  \o (IF UACHMismatch(h) THEN <<"ua_ch_mismatch">> ELSE <<>>)
  \o (IF SecFetchInvalid(h) THEN <<"secfetch_invalid">> ELSE <<>>)
  \o (IF BrowserForgeQuirk(h) THEN <<"browserforge_quirk">> ELSE <<>>)
=============================================================================
