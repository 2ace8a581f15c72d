------------------------------ MODULE Decision ------------------------------
(* decision.Combine: the signals' weighted total, the token bypass, the    *)
(* policy's rules and the thresholds that catch what the rules leave open. *)
EXTENDS Policy

Verdicts == {"ALLOW", "CHALLENGE", "DENY"}
Severity(v) == CASE v = "ALLOW" -> 0 [] v = "CHALLENGE" -> 1 [] v = "DENY" -> 2

\* A configured weight replaces the collector's score.
Weighted(signals, policy) ==
  [i \in DOMAIN signals |->
     IF signals[i].name \in DOMAIN policy.weights
     THEN [signals[i] EXCEPT !.score = policy.weights[signals[i].name]]
     ELSE signals[i]]

\* The total is kept within 0..100; the mutant takes a total outside it for invalid.
ClampResets(n) == IF n < 0 \/ n > 100 THEN 0 ELSE n
Clamp(n) == IF n < 0 THEN 0 ELSE IF n > 100 THEN 100 ELSE n
Total(signals) ==
  LET sum[i \in 0..Len(signals)] == IF i = 0 THEN 0 ELSE sum[i - 1] + signals[i].score
  IN  Clamp(sum[Len(signals)])

\* The signals map of the evaluation context: the last of two signals with one
\* name wins.
SignalMap(signals) ==
  [n \in {signals[i].name : i \in DOMAIN signals} |->
     signals[CHOOSE i \in DOMAIN signals :
               /\ signals[i].name = n
               /\ \A j \in DOMAIN signals : signals[j].name = n => j <= i].score]

\* An absent (0) threshold means the default.
DenyAt(policy) == IF policy.deny > 0 THEN policy.deny ELSE 80
ChallengeAt(policy) == IF policy.challenge > 0 THEN policy.challenge ELSE 50

\* The thresholds as the last resort; one mutant swaps their order.
ThresholdSwapped(total, policy) ==
  CASE total >= ChallengeAt(policy) -> "CHALLENGE"
    [] total < ChallengeAt(policy) /\ total >= DenyAt(policy) -> "DENY"
    [] OTHER -> "ALLOW"
Threshold(total, policy) ==
  IF total >= DenyAt(policy) THEN "DENY"
  ELSE IF total >= ChallengeAt(policy) THEN "CHALLENGE" ELSE "ALLOW"

ActionVerdict(action) ==
  CASE action = "allow" -> "ALLOW" [] action = "deny" -> "DENY" [] OTHER -> "CHALLENGE"

\* The evaluation context: buildRequestInfo never fills in the IP category, so
\* policies see "" whatever the address is.
Context(req, token, weighted) ==
  [path |-> req.path, ja3 |-> req.ja3, category |-> "", token |-> token,
   score |-> Total(weighted), signals |-> SignalMap(weighted)]

\* Combine. The token bypass comes before the rules; an evaluation error leaves
\* the verdict to the thresholds.
Combine(signals, policy, req, token) ==
  LET weighted == Weighted(signals, policy)
      total == Total(weighted)
      action == Evaluate(policy, Context(req, token, weighted))
  IN  IF token /\ total < DenyAt(policy) THEN "ALLOW"
      ELSE IF action # "error" THEN ActionVerdict(action)
      ELSE Threshold(total, policy)
=============================================================================
