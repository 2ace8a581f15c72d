----------------------------- MODULE MCHeaders -----------------------------
(* A browser's header list on its way to the check: a proxy or an SDK adds *)
(* headers that a browser may send as well, drops some or swaps two.       *)
EXTENDS Headers

CONSTANT MaxEdits    \* bound

VARIABLES headers,   \* what the check reads of the request
          order,     \* the names, in the order shown to the check
          genuine,   \* the browser's own headers are all there, in its order
          edits
vars == <<headers, order, genuine, edits>>

\* What browsers send. Chrome on iOS is WebKit: no Client Hints, no Chrome/ token.
Brands(chrome, own) == {[brand |-> "Chromium", version |-> chrome],
                        [brand |-> "Not_A Brand", version |-> 24]} \cup own
Agent(chrome, words, hints, style) ==
  [chrome |-> chrome, words |-> words, hints |-> hints, style |-> style]
Agents == {
  Agent(131, {"chrome", "safari"}, Brands(131, {[brand |-> "Google Chrome", version |-> 131]}), "chrome"),
  Agent(131, {"chrome", "safari"}, Brands(131, {[brand |-> "Microsoft Edge", version |-> 131]}), "chrome"),
  Agent(130, {"chrome", "safari"}, Brands(130, {[brand |-> "Opera", version |-> 115]}), "chrome"),
  Agent(0, {"firefox"}, {}, "firefox"),
  Agent(0, {"safari"}, {}, "safari"),
  Agent(0, {"crios", "safari"}, {}, "safari") }
Fetches == {
  [site |-> "none", mode |-> "navigate", dest |-> "document", user |-> "?1", referer |-> ""],
  [site |-> "cross-site", mode |-> "navigate", dest |-> "document", user |-> "?1", referer |-> "url"],
  [site |-> "same-origin", mode |-> "navigate", dest |-> "iframe", user |-> "", referer |-> "url"],
  [site |-> "same-site", mode |-> "no-cors", dest |-> "image", user |-> "", referer |-> ""],
  [site |-> "same-origin", mode |-> "cors", dest |-> "empty", user |-> "", referer |-> "url"],
  [site |-> "", mode |-> "", dest |-> "", user |-> "", referer |-> ""] }
Merge(a, f) == [chrome |-> a.chrome, words |-> a.words, hints |-> a.hints, site |-> f.site,
                mode |-> f.mode, dest |-> f.dest, user |-> f.user, referer |-> f.referer]

Init == /\ \E a \in Agents, f \in Fetches :
             headers = Merge(a, f) /\ order = CanonicalOrders[a.style]
        /\ genuine = TRUE /\ edits = 0

Optional == {"referer", "cookie"}
Edit(new, stillGenuine) == /\ edits < MaxEdits /\ edits' = edits + 1
                           /\ order' = new
                           /\ genuine' = (genuine /\ stillGenuine)
                           /\ UNCHANGED headers
With(s, i, h) == SubSeq(s, 1, i - 1) \o <<h>> \o SubSeq(s, i, Len(s))
Without(s, i) == SubSeq(s, 1, i - 1) \o SubSeq(s, i + 1, Len(s))
Insert == \E h \in Optional, i \in 1..(Len(order) + 1) : Edit(With(order, i, h), TRUE)
Drop == \E i \in DOMAIN order : Edit(Without(order, i), FALSE)
Swap == \E i \in 1..(Len(order) - 1) :
          Edit([order EXCEPT ![i] = order[i + 1], ![i + 1] = order[i]], FALSE)
Next == Insert \/ Drop \/ Swap
Spec == Init /\ [][Next]_vars
-----------------------------------------------------------------------------
\* order.go on its threshold: optional headers are absorbed without false positives.
\* Adding one, at any place in any list, never turns a match into an anomaly.
InsertionsNeverHurt ==
  [][Len(order') > Len(order) => (IsOrderAnomaly(order') => IsOrderAnomaly(order))]_vars

\* A genuine browser's request, with optional headers anywhere in its list, raises
\* no signal: order, Client Hints and fetch metadata are all consistent for each
\* engine, Chromium derivatives with brand versions of their own included. The
\* gateway has no order to show the check (buildRequestContext leaves HeaderOrder
\* out) and raises that anomaly, and that one alone, against all of them.
HeadersRaiseNothing ==
  genuine => /\ Collect(headers, order) = <<>>
             /\ Collect(headers, <<>>) = <<"header_order_anomaly">>
=============================================================================
