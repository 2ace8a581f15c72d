----------------------------- MODULE MCDecision -----------------------------
(* Every request of a small universe decided under the shipped policies    *)
(* and two custom ones: a state is a request with its verdict, "" before   *)
(* Combine ran. The IP collector's signals follow from the address; the    *)
(* other collectors' are chosen freely.                                    *)
EXTENDS Policies, Functions

Ip == INSTANCE IpReputation

CONSTANT PolicyNames
PolicyNamed(n) == CASE n = "default" -> DefaultPolicy
                    [] n = "strict"  -> StrictPolicy
                    [] n = "mixed"   -> MixedPolicy
                    [] n = "locked"  -> LockedPolicy
ASSUME PolicyAssumption ==
  /\ PolicyNames \subseteq {"default", "strict", "mixed", "locked"}
  /\ \A n \in PolicyNames : ValidPolicy(PolicyNamed(n))

VARIABLES name, req, fired, token, verdict
vars == <<name, req, fired, token, verdict>>

Config == PolicyNamed(name)
Names == DOMAIN Weights

\* An address of each sort the IP collector tells apart.
Address(parses, local, tor, database, prefix) ==
  [parses |-> parses, local |-> local, tor |-> tor, database |-> database, prefix |-> prefix]
Addresses == [home       |-> Address(TRUE, FALSE, FALSE, 7922, ""),
              office     |-> Address(TRUE, TRUE, FALSE, 0, ""),
              socket     |-> Address(FALSE, FALSE, FALSE, 0, ""),
              cloudflare |-> Address(TRUE, FALSE, FALSE, 0, "1.1.1.0/24"),
              aws        |-> Address(TRUE, FALSE, FALSE, 0, "100.24.0.0/13"),
              ovhTor     |-> Address(TRUE, FALSE, TRUE, 0, "91.121.0.0/16"),
              tor        |-> Address(TRUE, FALSE, TRUE, 0, "")]
IpSignals == {"tor_exit", "datacenter_ip"}
FromAddress(a) == {Ip!Collect(Addresses[a])[i].name : i \in DOMAIN Ip!Collect(Addresses[a])}

\* The collectors report a fired signal under its name with its own score.
InSomeOrder(names) == CHOOSE s \in [1..Cardinality(names) -> names] : IsInjective(s)
Report(names) == LET s == InSomeOrder(names)
                 IN  [i \in DOMAIN s |-> [name |-> s[i], score |-> 20]]
Verdict(names, tok) == Combine(Report(names), Config, req, tok)

Init == /\ name \in PolicyNames
        /\ req \in [path : Paths, ja3 : {"", "curl"}, address : DOMAIN Addresses]
        /\ \E S \in SUBSET (Names \ IpSignals) : fired = S \cup FromAddress(req.address)
        /\ token \in BOOLEAN
        /\ verdict = ""
Decide == /\ verdict = ""
          /\ verdict' = Verdict(fired, token)
          /\ UNCHANGED <<name, req, fired, token>>
Spec == Init /\ [][Decide]_vars
-----------------------------------------------------------------------------
Decided == verdict # ""
Shipped == name \in {"default", "strict"}
Ordinary == req.path = "/page" /\ ~token

\* Firing one more signal with a non-negative weight never earns a milder verdict,
\* although it can turn a rule's error into a match or move the total across a
\* threshold (decision.Combine, policy.Evaluate).
EvidenceNeverHelps ==
  Decided => \A n \in Names \ fired :
    Weights[n] >= 0 => Severity(Verdict(fired \cup {n}, token)) >= Severity(verdict)

\* A pass-token holder is let through whatever the signals say: below the deny
\* threshold by the bypass, above it by the allow-valid-token rule, which stands
\* before the first rule that can fail.
TokenAlwaysPasses == Decided /\ Shipped /\ token => verdict = "ALLOW"

\* The rule over signals fails whenever none of its signals fired, and the rules
\* over the score behind it are then never read; the thresholds, which are
\* documented as informational, decide instead. For an ordinary request whose total
\* reaches the challenge threshold this changes the documented verdict in one case
\* only: under strict.yaml, whose documented verdict without a high-weight signal is
\* a challenge, a total that reaches the deny threshold is denied. No such request is
\* allowed (decision.Combine, policy.Evaluate).
HighScoreNeverAllowed ==
  LET weighted   == Weighted(Report(fired), Config)
      total      == Total(weighted)
      documented == ActionVerdict(FirstMatch(Config, Context(req, token, weighted)))
  IN  Decided /\ Shipped /\ Ordinary /\ total >= Config.challenge
        => /\ verdict # "ALLOW"
           /\ \/ verdict = documented
              \/ /\ name = "strict" /\ total >= Config.deny
                 /\ documented = "CHALLENGE" /\ verdict = "DENY"

\* Combine departs from the documented reading of a policy (the first rule whose
\* conditions all hold decides, a signal that did not fire reads as 0, otherwise
\* policy.default) in three cases only: the token bypass, a rule at or ahead of
\* the deciding one that fails on an absent signal, and a rule that mixes an
\* expression with shorthand keys.
DocumentedUnlessExcepted ==
  LET weighted == Weighted(Report(fired), Config)
      ctx      == Context(req, token, weighted)
      hits     == {i \in DOMAIN Config.rules : Matches(Config.rules[i].match, ctx)}
      ahead    == {i \in DOMAIN Config.rules : \A j \in hits : i <= j}
      bypass   == token /\ Total(weighted) < DenyAt(Config)
      fails    == \E i \in ahead : EvalExpr(Compile(Config.rules[i].match), ctx) = "error"
      mixes    == \E i \in ahead : /\ Len(Config.rules[i].match.expr) > 1
                                  /\ Config.rules[i].match.keys # {}
  IN  Decided /\ ~bypass /\ ~fails /\ ~mixes => verdict = ActionVerdict(FirstMatch(Config, ctx))

\* What the address alone guarantees under the shipped policies, since no rule sees
\* its category: an ordinary request from a Tor exit is never let through, and
\* under strict.yaml none from a datacenter either, whatever rule fails first.
NetworkNeverAllowed ==
  Decided /\ Ordinary
    => /\ Shipped /\ req.address \in {"tor", "ovhTor"} => verdict # "ALLOW"
       /\ name = "strict" /\ req.address \in {"aws", "ovhTor"} => verdict # "ALLOW"

\* policies/README.md on strict.yaml: a request no rule matches is denied, and on
\* default.yaml it is challenged.
FallThroughGetsDefault ==
  LET ctx == Context(req, token, Weighted(Report(fired), Config))
  IN  Decided /\ ~token
        /\ (\A i \in DOMAIN Config.rules : ~Matches(Config.rules[i].match, ctx))
      => verdict = ActionVerdict(Config.default)

\* policies/README.md on strict.yaml: datacenter and Tor addresses are denied
\* outright regardless of score.
DatacenterAndTorDenied ==
  Decided /\ Ordinary /\ req.address \in {"aws", "ovhTor", "tor"} => verdict = "DENY"
=============================================================================
