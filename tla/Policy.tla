------------------------------- MODULE Policy -------------------------------
(* Policy rules: how a match block becomes a CEL expression, how CEL       *)
(* evaluates it with errors as a third truth value, and how the evaluator  *)
(* walks the rules. An expression is a sequence of disjuncts, each a set   *)
(* of atoms; a match block is an optional expression ("expr") and a set of *)
(* atoms, one per shorthand key. Paths belong to a small set and a         *)
(* path_prefix atom carries the members that have the prefix.              *)
EXTENDS Integers, Sequences, FiniteSets

Actions == {"allow", "challenge", "deny"}

Compare(a, op, b) == CASE op = ">=" -> a >= b
                       [] op = "<=" -> a <= b
                       [] op = "!=" -> a # b
                       [] op = ">"  -> a > b
                       [] op = "<"  -> a < b
                       [] op = "==" -> a = b

Truth(b) == IF b THEN "true" ELSE "false"

\* One comparison in an evaluation context. Indexing the signals map by a name
\* that is not there is a CEL error; every other variable is always bound.
Atom(a, ctx) ==
  CASE a.key = "path"            -> Truth(ctx.path = a.val)
    [] a.key = "path_prefix"     -> Truth(ctx.path \in a.val)
    [] a.key = "ja3_in"          -> Truth(ctx.ja3 \in a.val)
    [] a.key = "score"           -> Truth(Compare(ctx.score, a.op, a.val))
    [] a.key = "ip_category"     -> Truth(ctx.category = a.val)
    [] a.key = "has_valid_token" -> Truth(ctx.token = a.val)
    [] a.key = "signal"          -> IF a.val \in DOMAIN ctx.signals
                                    THEN Truth(ctx.signals[a.val] > 0)
                                    ELSE "error"

\* CEL's && and ||: the absorbing value wins over an error on either side.
CelAnd(S) == IF "false" \in S THEN "false" ELSE IF "error" \in S THEN "error" ELSE "true"
CelOr(S)  == IF "true" \in S THEN "true" ELSE IF "error" \in S THEN "error" ELSE "false"

\* matchMapToExpr: the parts, in key order ("expr" sorts first), are joined with
\* " && " and no parentheses, so the shorthand keys bind to the last disjunct of
\* the expression only.
Compile(m) ==
  IF m.expr = <<>> THEN << m.keys >>
  ELSE [m.expr EXCEPT ![Len(m.expr)] = @ \cup m.keys]

EvalExpr(e, ctx) == CelOr({CelAnd({Atom(a, ctx) : a \in e[i]}) : i \in DOMAIN e})

\* Evaluate: the first rule that is not false decides, by its action or by an
\* error that ends the evaluation; past the last rule the default applies. The
\* mutant evaluates every rule before it looks for the match.
EvaluateAll(policy, ctx) ==
  LET Result(i) == EvalExpr(Compile(policy.rules[i].match), ctx)
      hit == {i \in DOMAIN policy.rules : Result(i) = "true"}
  IN  IF \E i \in DOMAIN policy.rules : Result(i) = "error" THEN "error"
      ELSE IF hit = {} THEN policy.default
      ELSE policy.rules[CHOOSE i \in hit : \A j \in hit : i <= j].action
Evaluate(policy, ctx) ==
  LET Result(i) == EvalExpr(Compile(policy.rules[i].match), ctx)
      stop == {i \in DOMAIN policy.rules : Result(i) # "false"}
      first == CHOOSE i \in stop : \A j \in stop : i <= j
  IN  IF stop = {} THEN policy.default
      ELSE IF Result(first) = "error" THEN "error"
      ELSE policy.rules[first].action

\* What the documentation says of a match block: all its conditions hold, a
\* signal that did not fire reads as 0.
Holds(a, ctx) == IF a.key = "signal" /\ a.val \notin DOMAIN ctx.signals
                 THEN FALSE ELSE Atom(a, ctx) = "true"
Matches(m, ctx) ==
  /\ \A a \in m.keys : Holds(a, ctx)
  /\ m.expr # <<>> => \E i \in DOMAIN m.expr : \A a \in m.expr[i] : Holds(a, ctx)
FirstMatch(policy, ctx) ==
  LET hit == {i \in DOMAIN policy.rules : Matches(policy.rules[i].match, ctx)}
  IN  IF hit = {} THEN policy.default
      ELSE policy.rules[CHOOSE i \in hit : \A j \in hit : i <= j].action

\* validateConfig: the actions a policy file may name.
ValidPolicy(policy) ==
  /\ policy.default \in Actions
  /\ \A i \in DOMAIN policy.rules : policy.rules[i].action \in Actions
=============================================================================
