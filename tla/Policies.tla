------------------------------ MODULE Policies ------------------------------
(* The shipped policy files and two small custom ones, as data.            *)
EXTENDS Decision

Key(k, v) == [key |-> k, val |-> v]
Score(op, n) == [key |-> "score", op |-> op, val |-> n]
Sig(name) == Key("signal", name)
When(keys) == [expr |-> <<>>, keys |-> keys]
Expr(disjuncts) == [expr |-> disjuncts, keys |-> {}]
Rule(match, action) == [match |-> match, action |-> action]

Paths == {"/healthz", "/readyz", "/metrics", "/__as/challenge.bundle.js", "/page"}
Token == Rule(When({Key("has_valid_token", TRUE)}), "allow")
Probe(p) == Rule(When({Key("path", p)}), "allow")
Assets == Rule(When({Key("path_prefix", {"/__as/challenge.bundle.js"})}), "allow")

\* The weights of the signals the runs use, the same in both files.
Weights == [ja3_known_scraper |-> 100, behavior_turnstile_clicker |-> 60,
            tor_exit |-> 50, browserforge_quirk |-> 40, datacenter_ip |-> 30,
            header_order_anomaly |-> 20, google_referer_anomaly |-> 10]

DefaultPolicy ==
  [default |-> "challenge", challenge |-> 40, deny |-> 80, weights |-> Weights,
   rules |-> << Probe("/healthz"), Probe("/readyz"),
                Rule(When({Key("path_prefix", {"/metrics"})}), "allow"),
                Assets, Token,
                Rule(Expr(<< {Sig("ja3_known_scraper")},
                             {Sig("runtime_error_stack_pw_signature")} >>), "deny"),
                Rule(Expr(<< {Score(">=", 80)} >>), "deny"),
                Rule(Expr(<< {Score(">=", 40)} >>), "challenge") >>]

StrictPolicy ==
  [default |-> "deny", challenge |-> 10, deny |-> 50, weights |-> Weights,
   rules |-> << Probe("/healthz"), Probe("/readyz"), Assets, Token,
                Rule(Expr(<< {Key("ip_category", "datacenter")},
                             {Key("ip_category", "tor")} >>), "deny"),
                Rule(Expr(<< {Sig("ja3_known_scraper")},
                             {Sig("runtime_error_stack_pw_signature")},
                             {Sig("runtime_console_debug_disabled")},
                             {Sig("canvas_seeded_noise")},
                             {Sig("nav_webdriver_set")} >>), "deny"),
                Rule(Expr(<< {Score(">=", 10)} >>), "challenge"),
                Rule(Expr(<< {Key("ip_category", "residential"),
                              Score("<", 10)} >>), "allow") >>]

\* A rule that mixes an expression with a shorthand key, and a rule ahead of any
\* token rule; neither indexes the signals map.
MixedPolicy ==
  [default |-> "allow", challenge |-> 40, deny |-> 80, weights |-> Weights,
   rules |-> << Rule([expr |-> << {Score(">=", 30)}, {Key("ja3_in", {"curl"})} >>,
                      keys |-> {Key("path", "/page")}], "deny") >>]
LockedPolicy ==
  [default |-> "allow", challenge |-> 40, deny |-> 80, weights |-> Weights,
   rules |-> << Rule(When({Key("path", "/page")}), "challenge"), Token >>]
=============================================================================
