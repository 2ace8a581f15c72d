--------------------------- MODULE DecisionProofs ---------------------------
(* What Combine decides. First for every policy, every list of signals and *)
(* every request: when the rules are read as they are documented. Then for *)
(* the policy files of MCDecision, where the totals and the rules that     *)
(* fail are known.                                                         *)
EXTENDS MCDecision, FiniteSetTheorems, WellFoundedInduction, TLAPS

\* The provers get more than their usual time.
USE SMTT(60)

\* Every non-empty set of naturals has a least element.
LEMMA LeastElement ==
  ASSUME NEW D \in SUBSET Nat, D # {}
  PROVE  \E x \in D : \A y \in D : x <= y
<1> DEFINE R == OpToRel(<, Nat)
<1>1. IsWellFoundedOn(R, Nat)
  BY NatLessThanWellFounded, Zenon
<1>2. \A x, y \in Nat : y < x => <<y, x>> \in R
  BY DEF OpToRel
<1> HIDE DEF R
<1>3. PICK x \in D : \A y \in D : ~(<<y, x>> \in R)
  BY <1>1, WFMin, Zenon
<1>4. ASSUME NEW y \in D PROVE x <= y
  <2>1. x \in Nat /\ y \in Nat /\ ~(<<y, x>> \in R)
    BY <1>3
  <2>2. ~(y < x)
    BY <1>2, <2>1
  <2> QED BY <2>1, <2>2
<1> QED BY <1>4

-----------------------------------------------------------------------------
(***************************************************************************)
(* Rules. An atom has one of the keys a match block may use; a rule is a   *)
(* match block of atoms of A with an action.                               *)
(***************************************************************************)
AtomKeys == {"path", "path_prefix", "ja3_in", "score", "ip_category", "has_valid_token", "signal"}
AreAtoms(A) == \A a \in A : a.key \in AtomKeys
MatchBlocks(A) == [expr : Seq(SUBSET A), keys : SUBSET A]
Rules(A) == [match : MatchBlocks(A), action : Actions]
IsPolicy(policy, A) == policy.default \in Actions /\ policy.rules \in Seq(Rules(A))

TruthValues == {"true", "false", "error"}

LEMMA AtomValue ==
  ASSUME NEW a, a.key \in AtomKeys, NEW ctx
  PROVE  Atom(a, ctx) \in TruthValues
BY DEF AtomKeys, Atom, Truth, TruthValues

\* Conjunctions and disjunctions of CEL, with errors as the third value.
LEMMA CelValue ==
  ASSUME NEW V \in SUBSET TruthValues
  PROVE  /\ CelAnd(V) \in TruthValues /\ CelOr(V) \in TruthValues
         /\ CelAnd(V) = "true" <=> \A v \in V : v = "true"
         /\ CelAnd(V) = "false" <=> "false" \in V
         /\ CelOr(V) = "true" <=> "true" \in V
         /\ CelOr(V) = "false" <=> \A v \in V : v = "false"
BY DEF CelAnd, CelOr, TruthValues

\* An expression holds when one of its disjuncts does and is false when each has
\* an atom that is; a signal that is absent makes what is neither an error.
LEMMA EvalValue ==
  ASSUME NEW A, AreAtoms(A), NEW e \in Seq(SUBSET A), NEW ctx
  PROVE  /\ EvalExpr(e, ctx) \in TruthValues
         /\ EvalExpr(e, ctx) = "true"
              <=> \E i \in 1..Len(e) : \A a \in e[i] : Atom(a, ctx) = "true"
         /\ EvalExpr(e, ctx) = "false"
              <=> \A i \in 1..Len(e) : \E a \in e[i] : Atom(a, ctx) = "false"
<1> DEFINE V(i) == {Atom(a, ctx) : a \in e[i]}
           D == {CelAnd(V(i)) : i \in 1..Len(e)}
<1>1. DOMAIN e = 1..Len(e) /\ \A i \in 1..Len(e) : e[i] \subseteq A
  OBVIOUS
<1>2. EvalExpr(e, ctx) = CelOr(D)
  BY <1>1 DEF EvalExpr
<1>3. ASSUME NEW i \in 1..Len(e) PROVE V(i) \in SUBSET TruthValues
  <2>1. \A a \in e[i] : a.key \in AtomKeys
    BY <1>1 DEF AreAtoms
  <2> QED BY <2>1, AtomValue
<1> HIDE DEF V
<1>4. \A i \in 1..Len(e) : CelAnd(V(i)) \in TruthValues
  BY <1>3, CelValue
<1>5. D \in SUBSET TruthValues
  BY <1>4
<1>6. ASSUME NEW i \in 1..Len(e)
      PROVE  /\ CelAnd(V(i)) = "true" <=> \A a \in e[i] : Atom(a, ctx) = "true"
             /\ CelAnd(V(i)) = "false" <=> \E a \in e[i] : Atom(a, ctx) = "false"
  <2>1. /\ CelAnd(V(i)) = "true" <=> \A v \in V(i) : v = "true"
        /\ CelAnd(V(i)) = "false" <=> "false" \in V(i)
    BY <1>3, CelValue
  <2> QED BY <2>1 DEF V
<1>7. /\ "true" \in D <=> \E i \in 1..Len(e) : CelAnd(V(i)) = "true"
      /\ (\A v \in D : v = "false") <=> \A i \in 1..Len(e) : CelAnd(V(i)) = "false"
  OBVIOUS
<1> HIDE DEF D
<1>8. /\ CelOr(D) \in TruthValues
      /\ CelOr(D) = "true" <=> "true" \in D
      /\ CelOr(D) = "false" <=> \A v \in D : v = "false"
  BY <1>5, CelValue
<1> QED BY <1>2, <1>6, <1>7, <1>8

\* The expression of a match block is an expression of its atoms.
LEMMA CompileType ==
  ASSUME NEW A, NEW m \in MatchBlocks(A)
  PROVE  /\ Compile(m) \in Seq(SUBSET A)
         /\ Len(Compile(m)) = IF m.expr = <<>> THEN 1 ELSE Len(m.expr)
         /\ \A i \in 1..Len(Compile(m)) :
              Compile(m)[i] = (IF m.expr = <<>> THEN {} ELSE m.expr[i])
                                \cup (IF i = Len(Compile(m)) THEN m.keys ELSE {})
<1>1. m.expr \in Seq(SUBSET A) /\ m.keys \in SUBSET A
  BY DEF MatchBlocks
<1>2. CASE m.expr = <<>>
  <2>1. Compile(m) = << m.keys >>
    BY <1>2 DEF Compile
  <2> QED BY <1>1, <1>2, <2>1
<1>3. CASE m.expr # <<>>
  <2> DEFINE e == m.expr
             n == Len(e)
             c == [e EXCEPT ![n] = e[n] \cup m.keys]
  <2>1. Compile(m) = c
    BY <1>3 DEF Compile
  <2>2. n \in Nat /\ n \in 1..n /\ e[n] \in SUBSET A /\ DOMAIN e = 1..n
    BY <1>1, <1>3
  <2>3. e[n] \cup m.keys \in SUBSET A
    BY <1>1, <2>2
  <2>4. c \in Seq(SUBSET A) /\ Len(c) = n
    BY <1>1, <2>2, <2>3
  <2>5. \A i \in 1..n : c[i] = IF i = n THEN e[n] \cup m.keys ELSE e[i]
    BY <2>2
  <2> HIDE DEF c
  <2>6. \A i \in 1..n : c[i] = e[i] \cup (IF i = n THEN m.keys ELSE {})
    BY <2>5
  <2> QED BY <1>3, <2>1, <2>4, <2>6
<1> QED BY <1>2, <1>3

Mixes(m) == Len(m.expr) > 1 /\ m.keys # {}
Result(rule, ctx) == EvalExpr(Compile(rule.match), ctx)

\* A rule that does not mix an expression with shorthand keys matches as it is
\* documented.
LEMMA MatchesAsDocumented ==
  ASSUME NEW A, AreAtoms(A), NEW rule \in Rules(A), NEW ctx, ~Mixes(rule.match)
  PROVE  Result(rule, ctx) = "true" <=> Matches(rule.match, ctx)
<1> DEFINE m == rule.match
           e == Compile(m)
<1>1. m \in MatchBlocks(A) /\ m.expr \in Seq(SUBSET A) /\ m.keys \in SUBSET A
  BY DEF Rules, MatchBlocks
<1> HIDE DEF m
<1>2. \A a \in A : Holds(a, ctx) <=> Atom(a, ctx) = "true"
  <2> SUFFICES ASSUME NEW a \in A PROVE Holds(a, ctx) <=> Atom(a, ctx) = "true"
    OBVIOUS
  <2>1. CASE a.key = "signal" /\ a.val \notin DOMAIN ctx.signals
    <3>1. Atom(a, ctx) = "error"
      BY <2>1 DEF Atom
    <3> QED BY <2>1, <3>1 DEF Holds
  <2>2. CASE ~(a.key = "signal" /\ a.val \notin DOMAIN ctx.signals)
    BY <2>2 DEF Holds
  <2> QED BY <2>1, <2>2
<1>3. /\ e \in Seq(SUBSET A)
      /\ Len(e) = IF m.expr = <<>> THEN 1 ELSE Len(m.expr)
      /\ \A i \in 1..Len(e) :
           e[i] = (IF m.expr = <<>> THEN {} ELSE m.expr[i])
                    \cup (IF i = Len(e) THEN m.keys ELSE {})
  BY <1>1, CompileType
<1> HIDE DEF e
<1>4. \A i \in 1..Len(e) : e[i] \subseteq A
  BY <1>3
<1>5. EvalExpr(e, ctx) = "true" <=> \E i \in 1..Len(e) : \A a \in e[i] : Holds(a, ctx)
  <2>1. EvalExpr(e, ctx) = "true" <=> \E i \in 1..Len(e) : \A a \in e[i] : Atom(a, ctx) = "true"
    BY <1>3, EvalValue
  <2> QED BY <1>2, <1>4, <2>1
<1>6. CASE m.expr = <<>>
  <2>1. Len(e) = 1 /\ e[1] = m.keys
    BY <1>3, <1>6
  <2>2. EvalExpr(e, ctx) = "true" <=> \A a \in m.keys : Holds(a, ctx)
    BY <1>5, <2>1
  <2> QED BY <1>6, <2>2 DEF Matches, Result, e, m
<1>7. CASE m.expr # <<>> /\ m.keys = {}
  <2>1. Len(e) = Len(m.expr) /\ \A i \in 1..Len(e) : e[i] = m.expr[i]
    BY <1>3, <1>7
  <2>2. DOMAIN m.expr = 1..Len(e)
    BY <1>1, <2>1
  <2> QED BY <1>5, <1>7, <2>1, <2>2 DEF Matches, Result, e, m
<1>8. CASE m.expr # <<>> /\ m.keys # {}
  <2>1. Len(m.expr) = 1 /\ DOMAIN m.expr = {1}
    <3>1. ~(Len(m.expr) > 1)
      BY <1>8 DEF Mixes, m
    <3>2. Len(m.expr) \in Nat /\ Len(m.expr) # 0 /\ DOMAIN m.expr = 1..Len(m.expr)
      BY <1>1, <1>8
    <3> DEFINE n == Len(m.expr)
    <3>3. n \in Nat /\ n # 0 /\ ~(n > 1)
      BY <3>1, <3>2
    <3> HIDE DEF n
    <3>4. n = 1 /\ 1..1 = {1}
      BY <3>3
    <3> QED BY <3>2, <3>4 DEF n
  <2>2. Len(e) = 1 /\ e[1] = m.expr[1] \cup m.keys
    BY <1>3, <1>8, <2>1
  <2>3. EvalExpr(e, ctx) = "true" <=> \A a \in m.expr[1] \cup m.keys : Holds(a, ctx)
    BY <1>5, <2>2
  <2> QED BY <1>8, <2>1, <2>3 DEF Matches, Result, e, m
<1> QED BY <1>6, <1>7, <1>8

\* The evaluator stops at the first rule that is not false.
LEMMA EvaluateStops ==
  ASSUME NEW policy, NEW n \in Nat, DOMAIN policy.rules = 1..n, NEW ctx,
         NEW k \in 1..n, Result(policy.rules[k], ctx) # "false",
         \A j \in 1..n : j < k => Result(policy.rules[j], ctx) = "false"
  PROVE  Evaluate(policy, ctx) = IF Result(policy.rules[k], ctx) = "error" THEN "error"
                                 ELSE policy.rules[k].action
<1> DEFINE stop == {i \in DOMAIN policy.rules : Result(policy.rules[i], ctx) # "false"}
           first == CHOOSE i \in stop : \A j \in stop : i <= j
<1>1. k \in stop
  OBVIOUS
<1>2. \A j \in stop : j \in 1..n /\ k <= j
  OBVIOUS
<1>3. \A i \in stop : (\A j \in stop : i <= j) => i = k
  BY <1>1, <1>2
<1> HIDE DEF stop
<1>4. first = k
  BY <1>1, <1>2, <1>3, Zenon
<1>5. Evaluate(policy, ctx) = IF stop = {} THEN policy.default
                              ELSE IF Result(policy.rules[first], ctx) = "error" THEN "error"
                              ELSE policy.rules[first].action
  BY DEF Evaluate, Result, stop
<1> QED BY <1>1, <1>4, <1>5, Zenon

Stops(policy, n, ctx, k) ==
  /\ n \in Nat /\ DOMAIN policy.rules = 1..n /\ k \in 1..n
  /\ Result(policy.rules[k], ctx) # "false"
  /\ \A j \in 1..n : j < k => Result(policy.rules[j], ctx) = "false"
LEMMA StopsAt ==
  ASSUME NEW policy, NEW n, NEW ctx, NEW k, Stops(policy, n, ctx, k)
  PROVE  Evaluate(policy, ctx) = IF Result(policy.rules[k], ctx) = "error" THEN "error"
                                 ELSE policy.rules[k].action
BY EvaluateStops DEF Stops

LEMMA EvaluateFallsThrough ==
  ASSUME NEW policy, NEW n \in Nat, DOMAIN policy.rules = 1..n, NEW ctx,
         \A j \in 1..n : Result(policy.rules[j], ctx) = "false"
  PROVE  Evaluate(policy, ctx) = policy.default
BY DEF Evaluate, Result

\* The rules that stand at or ahead of the deciding one.
Hits(policy, ctx) == {i \in DOMAIN policy.rules : Matches(policy.rules[i].match, ctx)}
Ahead(policy, ctx) == {i \in DOMAIN policy.rules : \A j \in Hits(policy, ctx) : i <= j}
Fails(policy, ctx) == \E i \in Ahead(policy, ctx) : Result(policy.rules[i], ctx) = "error"
MixesAhead(policy, ctx) == \E i \in Ahead(policy, ctx) : Mixes(policy.rules[i].match)

\* For every policy the evaluator decides as documented, unless a rule at or ahead
\* of the deciding one fails or mixes (policy.Evaluate, matchMapToExpr).
LEMMA RulesAsDocumented ==
  ASSUME NEW A, AreAtoms(A), NEW policy, IsPolicy(policy, A), NEW ctx,
         ~Fails(policy, ctx), ~MixesAhead(policy, ctx)
  PROVE  Evaluate(policy, ctx) = FirstMatch(policy, ctx) /\ FirstMatch(policy, ctx) \in Actions
<1> DEFINE n == Len(policy.rules)
           H == Hits(policy, ctx)
           R(i) == Result(policy.rules[i], ctx)
           M(i) == Matches(policy.rules[i].match, ctx)
<1>1. /\ n \in Nat /\ DOMAIN policy.rules = 1..n
      /\ \A i \in 1..n : policy.rules[i] \in Rules(A)
  BY DEF IsPolicy
<1> HIDE DEF n
<1>2. /\ H = {i \in 1..n : M(i)}
      /\ \A i \in 1..n : (\A j \in H : i <= j) => i \in Ahead(policy, ctx)
  BY <1>1 DEF Hits, Ahead
<1>3. ASSUME NEW i \in Ahead(policy, ctx), i \in 1..n
      PROVE  R(i) # "error" /\ (R(i) = "true" <=> M(i)) /\ R(i) \in TruthValues
  <2>1. R(i) # "error" /\ ~Mixes(policy.rules[i].match)
    BY <1>3 DEF Fails, MixesAhead
  <2>2. policy.rules[i] \in Rules(A)
    BY <1>1, <1>3
  <2>3. R(i) = "true" <=> M(i)
    BY <2>1, <2>2, MatchesAsDocumented
  <2>4. Compile(policy.rules[i].match) \in Seq(SUBSET A)
    <3>1. policy.rules[i].match \in MatchBlocks(A)
      BY <2>2 DEF Rules
    <3> QED BY <3>1, CompileType
  <2>5. R(i) \in TruthValues
    BY <2>4, EvalValue DEF Result
  <2> QED BY <2>1, <2>3, <2>5
<1>4. FirstMatch(policy, ctx) = IF H = {} THEN policy.default
                                ELSE policy.rules[CHOOSE i \in H : \A j \in H : i <= j].action
  BY DEF FirstMatch, Hits
<1> HIDE DEF R, M, H
<1>5. CASE H = {}
  <2>1. \A j \in 1..n : R(j) = "false"
    <3> SUFFICES ASSUME NEW j \in 1..n PROVE R(j) = "false"
      OBVIOUS
    <3>1. j \in Ahead(policy, ctx) /\ ~M(j)
      BY <1>2, <1>5
    <3> QED BY <1>3, <3>1 DEF TruthValues
  <2>2. Evaluate(policy, ctx) = policy.default
    BY <1>1, <2>1, EvaluateFallsThrough DEF R
  <2> QED BY <1>4, <1>5, <2>2 DEF IsPolicy
<1>6. CASE H # {}
  <2>1. H \in SUBSET Nat
    BY <1>1, <1>2
  <2>2. PICK k \in H : \A j \in H : k <= j
    BY <1>6, <2>1, LeastElement
  <2>3. k \in 1..n /\ M(k) /\ k \in Ahead(policy, ctx)
    BY <1>2, <2>2
  <2>4. R(k) = "true"
    BY <1>3, <2>3
  <2>5. \A j \in 1..n : j < k => R(j) = "false"
    <3> SUFFICES ASSUME NEW j \in 1..n, j < k PROVE R(j) = "false"
      OBVIOUS
    <3>1. j \notin H /\ \A i \in H : j <= i
      BY <1>1, <2>1, <2>2, <2>3
    <3>2. j \in Ahead(policy, ctx) /\ ~M(j)
      BY <1>2, <3>1
    <3> QED BY <1>3, <3>2 DEF TruthValues
  <2>6. (CHOOSE i \in H : \A j \in H : i <= j) = k
    <3>1. \A i \in H : (\A j \in H : i <= j) => i = k
      BY <2>1, <2>2
    <3> QED BY <2>2, <3>1
  <2>7. Evaluate(policy, ctx) = policy.rules[k].action
    BY <1>1, <2>3, <2>4, <2>5, EvaluateStops DEF R
  <2>8. policy.rules[k].action \in Actions
    BY <1>1, <2>3 DEF Rules
  <2> QED BY <1>4, <1>6, <2>6, <2>7, <2>8, Zenon
<1> QED BY <1>5, <1>6

\* The first rule that holds is the documented one, whatever fails ahead of it.
HoldsFirst(policy, n, ctx, k) ==
  /\ n \in Nat /\ DOMAIN policy.rules = 1..n /\ k \in 1..n
  /\ \A j \in 1..n : ~Mixes(policy.rules[j].match)
  /\ Result(policy.rules[k], ctx) = "true"
  /\ \A j \in 1..n : j < k => Result(policy.rules[j], ctx) # "true"
LEMMA FirstMatchAt ==
  ASSUME NEW A, AreAtoms(A), NEW policy, IsPolicy(policy, A), NEW ctx, NEW n, NEW k,
         HoldsFirst(policy, n, ctx, k)
  PROVE  FirstMatch(policy, ctx) = policy.rules[k].action
<1> USE DEF HoldsFirst
<1> DEFINE H == Hits(policy, ctx)
<1>1. ASSUME NEW j \in 1..n
      PROVE  Result(policy.rules[j], ctx) = "true" <=> Matches(policy.rules[j].match, ctx)
  <2>1. policy.rules[j] \in Rules(A)
    BY DEF IsPolicy
  <2> QED BY <2>1, MatchesAsDocumented
<1>2. H = {j \in 1..n : Result(policy.rules[j], ctx) = "true"}
  BY <1>1 DEF Hits
<1>3. FirstMatch(policy, ctx) = IF H = {} THEN policy.default
                                ELSE policy.rules[CHOOSE i \in H : \A j \in H : i <= j].action
  BY DEF FirstMatch, Hits
<1> HIDE DEF H
<1>4. k \in H /\ \A j \in H : j \in Int /\ k <= j
  BY <1>2
<1>5. \A i \in H : (\A j \in H : i <= j) => i = k
  BY <1>4
<1>6. (CHOOSE i \in H : \A j \in H : i <= j) = k
  BY <1>4, <1>5, Zenon
<1> QED BY <1>3, <1>4, <1>6, Zenon

\* Combine departs from the documented reading of a policy in three cases only, for
\* every policy, every list of signals and every request: the token bypass, a rule
\* at or ahead of the deciding one that fails, and one that mixes an expression with
\* shorthand keys (decision.Combine).
THEOREM CombineAsDocumented ==
  ASSUME NEW A, AreAtoms(A), NEW policy, IsPolicy(policy, A),
         NEW signals, NEW r, NEW tok,
         ~(tok /\ Total(Weighted(signals, policy)) < DenyAt(policy)),
         ~Fails(policy, Context(r, tok, Weighted(signals, policy))),
         ~MixesAhead(policy, Context(r, tok, Weighted(signals, policy)))
  PROVE  Combine(signals, policy, r, tok)
           = ActionVerdict(FirstMatch(policy, Context(r, tok, Weighted(signals, policy))))
<1> DEFINE ctx == Context(r, tok, Weighted(signals, policy))
<1>1. Evaluate(policy, ctx) = FirstMatch(policy, ctx) /\ FirstMatch(policy, ctx) \in Actions
  BY RulesAsDocumented
<1> HIDE DEF ctx
<1>2. FirstMatch(policy, ctx) # "error"
  BY <1>1 DEF Actions
<1> QED BY <1>1, <1>2 DEF Combine, ctx

-----------------------------------------------------------------------------
(***************************************************************************)
(* Totals. The recursive sum of Total exists and is the one whose steps    *)
(* add the scores; over a report it adds the weights of what fired.        *)
(***************************************************************************)
IsSum(f, n, w) == /\ f \in [0..n -> Int] /\ f[0] = 0
                  /\ \A i \in 1..n : f[i] = f[i - 1] + w[i]

LEMMA SumExists ==
  ASSUME NEW n \in Nat, NEW w \in [1..n -> Int]
  PROVE  \E f : IsSum(f, n, w)
<1> DEFINE D == {k \in 0..n : ~\E f : IsSum(f, k, w)}
<1>0. n \in 0..n
  OBVIOUS
<1> SUFFICES ASSUME D # {} PROVE FALSE
  BY <1>0, Zenon
<1>1. D \in SUBSET Nat
  OBVIOUS
<1>2. PICK k \in D : \A j \in D : k <= j
  BY <1>1, LeastElement, Zenon
<1>3. IsSum([i \in 0..0 |-> 0], 0, w)
  BY DEF IsSum
<1>4. k # 0 /\ k \in 0..n /\ ~\E f : IsSum(f, k, w)
  BY <1>2, <1>3
<1>5. k - 1 \in 0..n /\ k - 1 \notin D /\ k \in 1..n /\ k - 1 \in Nat
  BY <1>2, <1>4
<1>6. PICK f : IsSum(f, k - 1, w)
  BY <1>5
<1> DEFINE g == [i \in 0..k |-> IF i = k THEN f[k - 1] + w[k] ELSE f[i]]
<1>7. f \in [0..(k - 1) -> Int] /\ f[0] = 0 /\ (\A i \in 1..(k - 1) : f[i] = f[i - 1] + w[i])
  BY <1>6 DEF IsSum
<1>8. f[k - 1] + w[k] \in Int
  BY <1>5, <1>7
<1>9. g \in [0..k -> Int]
  <2> SUFFICES ASSUME NEW i \in 0..k PROVE g[i] \in Int
    OBVIOUS
  <2>1. CASE i = k
    BY <1>8, <2>1
  <2>2. CASE i # k
    BY <1>5, <1>7, <2>2
  <2> QED BY <2>1, <2>2
<1>10. g[0] = 0
  BY <1>5, <1>7
<1>11. ASSUME NEW i \in 1..k PROVE g[i] = g[i - 1] + w[i]
  <2>1. i - 1 \in 0..k /\ i - 1 # k /\ i \in 0..k
    BY <1>5
  <2>2. g[i - 1] = f[i - 1] /\ g[i] = IF i = k THEN f[k - 1] + w[k] ELSE f[i]
    BY <2>1
  <2>3. CASE i = k
    BY <2>2, <2>3
  <2>4. CASE i # k
    <3>1. i \in 1..(k - 1)
      BY <1>5, <2>4
    <3> QED BY <1>7, <2>2, <2>4, <3>1
  <2> QED BY <2>3, <2>4
<1> HIDE DEF g
<1>12. IsSum(g, k, w)
  BY <1>9, <1>10, <1>11 DEF IsSum
<1> QED BY <1>4, <1>12

SumsTo(signals, n, w) == \E f : IsSum(f, n, w) /\ Total(signals) = Clamp(f[n])
LEMMA TotalIsSum ==
  ASSUME NEW signals, NEW n \in Nat, Len(signals) = n, NEW w \in [1..n -> Int],
         \A i \in 1..n : signals[i].score = w[i]
  PROVE  SumsTo(signals, n, w)
<1> DEFINE Steps(f) == f = [i \in 0..Len(signals) |-> IF i = 0 THEN 0
                                                      ELSE f[i - 1] + signals[i].score]
           g == CHOOSE f : f = [i \in 0..Len(signals) |-> IF i = 0 THEN 0
                                                          ELSE f[i - 1] + signals[i].score]
<1>1. PICK f : IsSum(f, n, w)
  BY SumExists
<1>2. Steps(f)
  <2>1. \A i \in 0..n : f[i] = IF i = 0 THEN 0 ELSE f[i - 1] + signals[i].score
    <3> SUFFICES ASSUME NEW i \in 0..n PROVE f[i] = IF i = 0 THEN 0 ELSE f[i - 1] + signals[i].score
      BY Zenon
    <3>1. CASE i = 0
      BY <1>1, <3>1 DEF IsSum
    <3>2. CASE i # 0
      <4>1. i \in 1..n
        BY <3>2
      <4> QED BY <1>1, <3>2, <4>1 DEF IsSum
    <3> QED BY <3>1, <3>2
  <2>2. f = [i \in 0..n |-> f[i]]
    BY <1>1 DEF IsSum
  <2>3. f = [i \in 0..n |-> IF i = 0 THEN 0 ELSE f[i - 1] + signals[i].score]
    BY <2>1, <2>2, Zenon
  <2> QED BY <2>3
<1>3. Steps(g)
  <2>1. g = CHOOSE h : Steps(h)
    OBVIOUS
  <2> HIDE DEF Steps, g
  <2> QED BY <1>2, <2>1
<1>4. Total(signals) = Clamp(g[n])
  BY DEF Total
<1> HIDE DEF g
<1>5. g[0] = 0 /\ \A i \in 1..n : g[i] = g[i - 1] + w[i]
  <2>1. \A i \in 0..n : g[i] = IF i = 0 THEN 0 ELSE g[i - 1] + signals[i].score
    BY <1>3
  <2>2. g[0] = 0
    BY <2>1
  <2>3. ASSUME NEW i \in 1..n PROVE g[i] = g[i - 1] + w[i]
    <3>1. i \in 0..n /\ i # 0
      OBVIOUS
    <3>2. g[i] = g[i - 1] + signals[i].score
      BY <2>1, <3>1
    <3> QED BY <3>2
  <2> QED BY <2>2, <2>3
<1>6. \A i \in 0..n : g[i] \in Int
  <2> DEFINE D == {i \in 0..n : g[i] \notin Int}
  <2> SUFFICES ASSUME D # {} PROVE FALSE
    OBVIOUS
  <2>1. D \in SUBSET Nat
    OBVIOUS
  <2>2. PICK k \in D : \A j \in D : k <= j
    BY <2>1, LeastElement, Zenon
  <2>3. k \in 0..n /\ g[k] \notin Int
    BY <2>2
  <2>4. k # 0
    BY <1>5, <2>3
  <2>5. k \in 1..n /\ k - 1 \in 0..n /\ k - 1 \notin D
    BY <2>2, <2>3, <2>4
  <2>6. g[k - 1] \in Int /\ w[k] \in Int
    BY <2>5
  <2> QED BY <1>5, <2>3, <2>5, <2>6
<1>7. g \in [0..n -> Int]
  <2>1. DOMAIN g = 0..n /\ g = [i \in 0..n |-> g[i]]
    BY <1>3
  <2> QED BY <1>6, <2>1
<1> QED BY <1>4, <1>5, <1>7 DEF IsSum, SumsTo

Points(S) ==
  (IF "ja3_known_scraper" \in S THEN 100 ELSE 0)
  + (IF "behavior_turnstile_clicker" \in S THEN 60 ELSE 0)
  + (IF "tor_exit" \in S THEN 50 ELSE 0) + (IF "browserforge_quirk" \in S THEN 40 ELSE 0)
  + (IF "datacenter_ip" \in S THEN 30 ELSE 0) + (IF "header_order_anomaly" \in S THEN 20 ELSE 0)
  + (IF "google_referer_anomaly" \in S THEN 10 ELSE 0)

LEMMA NamesAre ==
  /\ Names = {"ja3_known_scraper", "behavior_turnstile_clicker", "tor_exit", "browserforge_quirk",
              "datacenter_ip", "header_order_anomaly", "google_referer_anomaly"}
  /\ \A n \in Names : Weights[n] \in Nat /\ Weights[n] > 0
BY DEF Names, Weights

LEMMA PointsGrow ==
  ASSUME NEW S, NEW x \in Names
  PROVE  /\ Points(S) \in Nat
         /\ x \notin S => Points(S \cup {x}) = Points(S) + Weights[x]
<1>1. Points(S) \in Nat
  BY DEF Points
<1>2. ASSUME x \notin S PROVE Points(S \cup {x}) = Points(S) + Weights[x]
  BY <1>2, NamesAre DEF Points, Weights
<1> QED BY <1>1, <1>2

\* What is reported of a set of names: each once, with its weight.
Reported(S) == [i \in DOMAIN InSomeOrder(S) |->
                  [name |-> InSomeOrder(S)[i], score |-> Weights[InSomeOrder(S)[i]]]]

LEMMA ListOfNames ==
  ASSUME NEW S \in SUBSET Names
  PROVE  LET s == InSomeOrder(S) IN
         /\ Len(s) \in Nat /\ s \in [1..Len(s) -> S] /\ s \in Seq(S)
         /\ \A i, j \in 1..Len(s) : s[i] = s[j] => i = j
         /\ \A x \in S : \E i \in 1..Len(s) : s[i] = x
<1> DEFINE n == Cardinality(S)
           s == InSomeOrder(S)
<1>1. IsFiniteSet(S)
  <2>1. IsFiniteSet(Names)
    <3> DEFINE A1 == {} \cup {"ja3_known_scraper"}
               A2 == A1 \cup {"behavior_turnstile_clicker"}
               A3 == A2 \cup {"tor_exit"}
               A4 == A3 \cup {"browserforge_quirk"}
               A5 == A4 \cup {"datacenter_ip"}
               A6 == A5 \cup {"header_order_anomaly"}
               A7 == A6 \cup {"google_referer_anomaly"}
    <3>1. A7 = Names
      BY NamesAre
    <3> HIDE DEF A1, A2, A3, A4, A5, A6, A7
    <3>2. IsFiniteSet(A1)
      BY FS_EmptySet, FS_AddElement DEF A1
    <3>3. IsFiniteSet(A2)
      BY <3>2, FS_AddElement DEF A2
    <3>4. IsFiniteSet(A3)
      BY <3>3, FS_AddElement DEF A3
    <3>5. IsFiniteSet(A4)
      BY <3>4, FS_AddElement DEF A4
    <3>6. IsFiniteSet(A5)
      BY <3>5, FS_AddElement DEF A5
    <3>7. IsFiniteSet(A6)
      BY <3>6, FS_AddElement DEF A6
    <3>8. IsFiniteSet(A7)
      BY <3>7, FS_AddElement DEF A7
    <3> QED BY <3>1, <3>8
  <2> QED BY <2>1, FS_Subset
<1>2. n \in Nat /\ ExistsBijection(1..n, S)
  BY <1>1, FS_CardinalityType
<1> HIDE DEF n
<1>3. PICK b : b \in Bijection(1..n, S)
  BY <1>2 DEF ExistsBijection
<1>4. b \in [1..n -> S] /\ IsInjective(b)
  BY <1>3 DEF Bijection, Injection
<1>5. s \in [1..n -> S] /\ IsInjective(s)
  BY <1>4 DEF InSomeOrder, n
<1> HIDE DEF s
<1>6. s \in Seq(S) /\ Len(s) = n
  BY <1>2, <1>5
<1>7. \A i, j \in 1..n : s[i] = s[j] => i = j
  BY <1>5 DEF IsInjective
<1>8. \A x \in S : \E i \in 1..n : s[i] = x
  <2> DEFINE R == {s[i] : i \in 1..n}
  <2>1. R \in SUBSET S
    BY <1>5
  <2>2. s \in Bijection(1..n, R)
    <3>1. s \in [1..n -> R]
      BY <1>5
    <3>2. s \in Injection(1..n, R)
      BY <1>5, <3>1 DEF Injection
    <3>3. s \in Surjection(1..n, R)
      BY <3>1 DEF Surjection
    <3> QED BY <3>2, <3>3 DEF Bijection
  <2>3. IsFiniteSet(R) /\ Cardinality(R) = n
    <3>1. ExistsBijection(1..n, R)
      BY <2>2 DEF ExistsBijection
    <3> HIDE DEF R
    <3>2. IsFiniteSet(R)
      BY <1>1, <2>1, FS_Subset
    <3> QED BY <1>2, <3>1, <3>2, FS_CountingElements
  <2> HIDE DEF R
  <2>4. R = S
    BY <1>1, <2>1, <2>3, FS_Subset DEF n
  <2> QED BY <2>4 DEF R
<1> QED BY <1>2, <1>5, <1>6, <1>7, <1>8 DEF s

LEMMA WeightedReport ==
  ASSUME NEW S \in SUBSET Names, NEW policy, policy.weights = Weights
  PROVE  Weighted(Report(S), policy) = Reported(S)
<1> DEFINE s == InSomeOrder(S)
           r == [i \in DOMAIN s |-> [name |-> s[i], score |-> 20]]
<1>1. DOMAIN s = 1..Len(s) /\ \A i \in DOMAIN s : s[i] \in Names
  BY ListOfNames
<1>2. Report(S) = r
  BY DEF Report
<1>3. \A i \in DOMAIN s : s[i] \in DOMAIN policy.weights
  BY <1>1 DEF Names
<1> HIDE DEF s
<1>4. DOMAIN r = DOMAIN s
  OBVIOUS
<1>5. \A i \in DOMAIN s : /\ r[i].name = s[i]
                          /\ [r[i] EXCEPT !.score = policy.weights[s[i]]]
                               = [name |-> s[i], score |-> Weights[s[i]]]
  OBVIOUS
<1> HIDE DEF r
<1>6. Weighted(r, policy) = [i \in DOMAIN s |-> [name |-> s[i], score |-> Weights[s[i]]]]
  BY <1>3, <1>4, <1>5, Zenon DEF Weighted
<1> QED BY <1>2, <1>6 DEF Reported, s

\* The total of a report is the capped sum of the weights.
LEMMA ReportedTotal ==
  ASSUME NEW S \in SUBSET Names
  PROVE  Total(Reported(S)) = Clamp(Points(S))
<1> DEFINE s == InSomeOrder(S)
           n == Len(s)
           w == [i \in 1..n |-> Weights[s[i]]]
           q == Reported(S)
           U(i) == {s[j] : j \in 1..i}
<1>1. /\ n \in Nat /\ s \in [1..n -> S] /\ DOMAIN s = 1..n
      /\ \A i, j \in 1..n : s[i] = s[j] => i = j
      /\ \A x \in S : \E i \in 1..n : s[i] = x
  BY ListOfNames, Zenon
<1>2. q = [i \in 1..n |-> [name |-> s[i], score |-> Weights[s[i]]]]
  BY <1>1 DEF Reported
<1> HIDE DEF s, n, q
<1>3. Len(q) = n /\ \A i \in 1..n : q[i].score = w[i]
  <2> DEFINE R(i) == [name |-> s[i], score |-> Weights[s[i]]]
             E == {R(i) : i \in 1..n}
  <2>1. q = [i \in 1..n |-> R(i)] /\ \A i \in 1..n : R(i) \in E /\ R(i).score = w[i]
    BY <1>2
  <2> HIDE DEF R, E, w
  <2>2. q \in [1..n -> E] /\ \A i \in 1..n : q[i].score = w[i]
    BY <2>1
  <2>3. Len(q) = n
    BY <1>1, <2>2
  <2> QED BY <2>2, <2>3
<1>4. w \in [1..n -> Int]
  <2>1. \A i \in 1..n : s[i] \in Names
    BY <1>1
  <2> QED BY <2>1, NamesAre
<1> HIDE DEF w
<1>5. PICK f : IsSum(f, n, w) /\ Total(q) = Clamp(f[n])
  <2>1. SumsTo(q, n, w)
    BY <1>1, <1>3, <1>4, TotalIsSum, Zenon
  <2> QED BY <2>1 DEF SumsTo
<1>6. f \in [0..n -> Int] /\ f[0] = 0 /\ \A i \in 1..n : f[i] = f[i - 1] + w[i]
  BY <1>5 DEF IsSum
<1>7. \A i \in 0..n : f[i] = Points(U(i))
  <2> DEFINE D == {i \in 0..n : f[i] # Points(U(i))}
  <2> SUFFICES ASSUME D # {} PROVE FALSE
    BY Zenon
  <2>1. D \in SUBSET Nat
    BY <1>1
  <2>2. PICK k \in D : \A j \in D : k <= j
    BY <2>1, LeastElement, Zenon
  <2>3. k \in 0..n /\ f[k] # Points(U(k))
    BY <2>2
  <2>4. U(0) = {}
    OBVIOUS
  <2>5. Points({}) = 0
    BY DEF Points
  <2>6. k # 0
    BY <1>6, <2>3, <2>4, <2>5, Zenon
  <2>7. k \in 1..n /\ k - 1 \in 0..n /\ k \in Nat /\ k - 1 \notin D
    BY <1>1, <2>2, <2>3, <2>6
  <2>8. f[k - 1] = Points(U(k - 1))
    BY <2>7
  <2>9. U(k) = U(k - 1) \cup {s[k]}
    <3>1. 1..k = 1..(k - 1) \cup {k}
      BY <2>7
    <3> QED BY <3>1
  <2>10. s[k] \notin U(k - 1) /\ s[k] \in Names
    <3>1. \A j \in 1..(k - 1) : j \in 1..n /\ j # k
      BY <1>1, <2>7
    <3> QED BY <1>1, <2>7, <3>1
  <2> HIDE DEF U
  <2>11. Points(U(k)) = Points(U(k - 1)) + Weights[s[k]]
    BY <2>9, <2>10, PointsGrow
  <2>12. w[k] = Weights[s[k]]
    BY <2>7 DEF w
  <2> QED BY <1>6, <2>3, <2>7, <2>8, <2>11, <2>12
<1>8. U(n) = S
  BY <1>1
<1>9. n \in 0..n
  BY <1>1
<1> HIDE DEF U
<1> QED BY <1>5, <1>7, <1>8, <1>9 DEF q

\* The signals map of a report has the weights of what fired.
LEMMA ReportedSignals ==
  ASSUME NEW S \in SUBSET Names
  PROVE  /\ DOMAIN SignalMap(Reported(S)) = S
         /\ \A x \in S : SignalMap(Reported(S))[x] = Weights[x]
<1> DEFINE s == InSomeOrder(S)
           n == Len(s)
           q == Reported(S)
<1>1. /\ n \in Nat /\ s \in [1..n -> S] /\ DOMAIN s = 1..n
      /\ \A i, j \in 1..n : s[i] = s[j] => i = j
      /\ \A x \in S : \E i \in 1..n : s[i] = x
  BY ListOfNames, Zenon
<1>2. q = [i \in 1..n |-> [name |-> s[i], score |-> Weights[s[i]]]]
  BY <1>1 DEF Reported
<1> HIDE DEF s, n, q
<1>3. DOMAIN q = 1..n /\ \A i \in 1..n : q[i].name = s[i] /\ q[i].score = Weights[s[i]]
  BY <1>2
<1>4. {q[i].name : i \in DOMAIN q} = S
  BY <1>1, <1>3
<1> DEFINE last(x) == CHOOSE i \in DOMAIN q : /\ q[i].name = x
                                              /\ \A j \in DOMAIN q : q[j].name = x => j <= i
<1>5. SignalMap(q) = [x \in S |-> q[last(x)].score]
  BY <1>4 DEF SignalMap
<1>6. ASSUME NEW x \in S PROVE q[last(x)].score = Weights[x]
  <2>1. PICK i \in 1..n : s[i] = x
    BY <1>1
  <2>2. i \in DOMAIN q /\ q[i].name = x /\ \A j \in DOMAIN q : q[j].name = x => j <= i
    BY <1>1, <1>3, <2>1
  <2>3. last(x) \in DOMAIN q /\ q[last(x)].name = x
    BY <2>2
  <2> HIDE DEF last
  <2> QED BY <1>3, <2>3
<1> HIDE DEF last
<1> QED BY <1>5, <1>6 DEF q

-----------------------------------------------------------------------------
(***************************************************************************)
(* The policy files. What the rules of each come to for a request whose    *)
(* evaluation context is ctx and where the signals S fired.                *)
(***************************************************************************)
Seen(ctx, r, tok, S) ==
  /\ ctx.path = r.path /\ ctx.ja3 = r.ja3 /\ ctx.category = "" /\ ctx.token = tok
  /\ ctx.score = Clamp(Points(S))
  /\ DOMAIN ctx.signals = S /\ \A x \in S : ctx.signals[x] > 0

LEMMA SeenReport ==
  ASSUME NEW S \in SUBSET Names, NEW r, NEW tok
  PROVE  Seen(Context(r, tok, Reported(S)), r, tok, S)
<1>1. Total(Reported(S)) = Clamp(Points(S))
  BY ReportedTotal
<1>2. \A x \in S : SignalMap(Reported(S))[x] > 0
  BY ReportedSignals, NamesAre
<1> QED BY <1>1, <1>2, ReportedSignals DEF Seen, Context

LEMMA CombineReport ==
  ASSUME NEW S \in SUBSET Names, NEW policy, policy.weights = Weights, NEW r, NEW tok
  PROVE  \E ctx :
           /\ Seen(ctx, r, tok, S)
           /\ Combine(Report(S), policy, r, tok)
                = IF tok /\ Clamp(Points(S)) < DenyAt(policy) THEN "ALLOW"
                  ELSE IF Evaluate(policy, ctx) # "error" THEN ActionVerdict(Evaluate(policy, ctx))
                  ELSE Threshold(Clamp(Points(S)), policy)
<1> DEFINE ctx == Context(r, tok, Reported(S))
<1>1. Weighted(Report(S), policy) = Reported(S) /\ Total(Reported(S)) = Clamp(Points(S))
  BY WeightedReport, ReportedTotal
<1>3. Seen(ctx, r, tok, S)
  BY SeenReport, Zenon
<1> HIDE DEF ctx
<1>4. Combine(Report(S), policy, r, tok)
        = IF tok /\ Clamp(Points(S)) < DenyAt(policy) THEN "ALLOW"
          ELSE IF Evaluate(policy, ctx) # "error" THEN ActionVerdict(Evaluate(policy, ctx))
          ELSE Threshold(Clamp(Points(S)), policy)
  BY <1>1 DEF Combine, ctx
<1> QED BY <1>3, <1>4

\* The expression of a rule.
LEMMA RuleResult ==
  ASSUME NEW act, NEW ctx
  PROVE  /\ \A K : Result(Rule(When(K), act), ctx) = EvalExpr(<<K>>, ctx)
         /\ \A A : \A e \in Seq(SUBSET A) : e # <<>> =>
              Result(Rule(Expr(e), act), ctx) = EvalExpr(e, ctx)
         /\ \A m : Rule(m, act).action = act
<1>1. ASSUME NEW K PROVE Result(Rule(When(K), act), ctx) = EvalExpr(<<K>>, ctx)
  <2>1. Compile(Rule(When(K), act).match) = <<K>>
    BY DEF Compile, Rule, When
  <2> QED BY <2>1 DEF Result
<1>2. ASSUME NEW A, NEW e \in Seq(SUBSET A), e # <<>>
      PROVE  Result(Rule(Expr(e), act), ctx) = EvalExpr(e, ctx)
  <2>1. Compile(Rule(Expr(e), act).match) = [e EXCEPT ![Len(e)] = e[Len(e)] \cup {}]
    BY <1>2, Zenon DEF Compile, Rule, Expr
  <2>2. e[Len(e)] \cup {} = e[Len(e)]
    OBVIOUS
  <2>3. [e EXCEPT ![Len(e)] = e[Len(e)]] = e
    BY <1>2
  <2> QED BY <2>1, <2>2, <2>3 DEF Result
<1> QED BY <1>1, <1>2 DEF Rule

\* A rule of one atom.
Says(rule, act, ctx, v) == rule.action = act /\ Result(rule, ctx) = v
LEMMA OneAtom ==
  ASSUME NEW a, a.key \in AtomKeys, NEW act, NEW ctx
  PROVE  /\ Says(Rule(When({a}), act), act, ctx, Atom(a, ctx))
         /\ Says(Rule(Expr(<<{a}>>), act), act, ctx, Atom(a, ctx))
<1> DEFINE A == {a}
           e == <<A>>
<1>1. /\ AreAtoms(A) /\ e \in Seq(SUBSET A) /\ e # <<>> /\ Len(e) = 1 /\ e[1] = A
  BY DEF AreAtoms
<1>2. Atom(a, ctx) \in TruthValues
  BY AtomValue
<1>3. /\ EvalExpr(e, ctx) \in TruthValues
      /\ EvalExpr(e, ctx) = "true"
           <=> \E i \in 1..Len(e) : \A b \in e[i] : Atom(b, ctx) = "true"
      /\ EvalExpr(e, ctx) = "false"
           <=> \A i \in 1..Len(e) : \E b \in e[i] : Atom(b, ctx) = "false"
  BY <1>1, EvalValue, Zenon
<1>4. Result(Rule(When(A), act), ctx) = EvalExpr(e, ctx) /\ Result(Rule(Expr(e), act), ctx) = EvalExpr(e, ctx)
  BY <1>1, RuleResult, ZenonT(40)
<1> HIDE DEF e
<1>5. /\ EvalExpr(e, ctx) = "true" <=> Atom(a, ctx) = "true"
      /\ EvalExpr(e, ctx) = "false" <=> Atom(a, ctx) = "false"
  BY <1>1, <1>3
<1>6. EvalExpr(e, ctx) = Atom(a, ctx)
  BY <1>2, <1>3, <1>5 DEF TruthValues
<1> QED BY <1>4, <1>6, RuleResult DEF e, Says

\* A rule over signals one of which did not fire: it holds when another did and
\* fails otherwise.
OneAbsent(X, d, ctx) ==
  /\ d \in Seq({{Sig(x)} : x \in X}) /\ \A x \in DOMAIN ctx.signals : ctx.signals[x] > 0
  /\ \E k \in 1..Len(d) : \E y \in X : d[k] = {Sig(y)} /\ y \notin DOMAIN ctx.signals
Found(X, d, ctx) == \E i \in 1..Len(d) : \E x \in X : d[i] = {Sig(x)} /\ x \in DOMAIN ctx.signals
LEMMA SignalRule ==
  ASSUME NEW X, NEW d, NEW act, NEW ctx, OneAbsent(X, d, ctx)
  PROVE  Result(Rule(Expr(d), act), ctx) = IF Found(X, d, ctx) THEN "true" ELSE "error"
<1> DEFINE A == {Sig(x) : x \in X}
<1>0. d \in Seq({{Sig(x)} : x \in X}) /\ \A x \in DOMAIN ctx.signals : ctx.signals[x] > 0
  BY DEF OneAbsent
<1>1. \A x : Sig(x).key = "signal" /\ Sig(x).val = x
  BY DEF Sig, Key
<1>2. \A x : Atom(Sig(x), ctx) = IF x \in DOMAIN ctx.signals THEN "true" ELSE "error"
  <2> SUFFICES ASSUME NEW x PROVE Atom(Sig(x), ctx) = IF x \in DOMAIN ctx.signals THEN "true" ELSE "error"
    OBVIOUS
  <2> DEFINE a == Sig(x)
  <2>1. a.key = "signal" /\ a.val = x
    BY <1>1
  <2> HIDE DEF a
  <2>2. Atom(a, ctx) = IF x \in DOMAIN ctx.signals THEN Truth(ctx.signals[x] > 0) ELSE "error"
    BY <2>1 DEF Atom
  <2> QED BY <1>0, <2>2 DEF Truth, a
<1>3. AreAtoms(A)
  BY <1>1 DEF AreAtoms, AtomKeys
<1>4. d \in Seq(SUBSET A) /\ d # <<>> /\ \A i \in 1..Len(d) : \E x \in X : d[i] = {Sig(x)}
  <2>1. {{Sig(x)} : x \in X} \subseteq SUBSET A
    OBVIOUS
  <2>2. DOMAIN d = 1..Len(d) /\ Len(d) \in Nat /\ \A i \in 1..Len(d) : d[i] \in {{Sig(x)} : x \in X}
    BY <1>0
  <2>3. \A i \in 1..Len(d) : \E x \in X : d[i] = {Sig(x)}
    BY <2>2
  <2>4. d \in Seq(SUBSET A)
    <3>1. \A i \in 1..Len(d) : d[i] \in SUBSET A
      BY <2>1, <2>2
    <3> HIDE DEF A
    <3> QED BY <1>0, <2>2, <3>1
  <2>5. d # <<>>
    BY <2>2 DEF OneAbsent
  <2> QED BY <2>3, <2>4, <2>5
<1> HIDE DEF A
<1>5. Result(Rule(Expr(d), act), ctx) = EvalExpr(d, ctx)
  BY <1>4, RuleResult, Zenon
<1>6. /\ EvalExpr(d, ctx) \in TruthValues
      /\ EvalExpr(d, ctx) = "true"
           <=> \E i \in 1..Len(d) : \A b \in d[i] : Atom(b, ctx) = "true"
      /\ EvalExpr(d, ctx) = "false"
           <=> \A i \in 1..Len(d) : \E b \in d[i] : Atom(b, ctx) = "false"
  BY <1>3, <1>4, EvalValue
<1>7. EvalExpr(d, ctx) # "false"
  <2>1. PICK k \in 1..Len(d), y \in X : d[k] = {Sig(y)} /\ y \notin DOMAIN ctx.signals
    BY DEF OneAbsent
  <2> QED BY <1>2, <1>6, <2>1
<1>8. EvalExpr(d, ctx) = "true"
        <=> \E i \in 1..Len(d) : \E x \in X : d[i] = {Sig(x)} /\ x \in DOMAIN ctx.signals
  <2>1. ASSUME NEW i \in 1..Len(d)
        PROVE  (\A b \in d[i] : Atom(b, ctx) = "true")
                 <=> \E x \in X : d[i] = {Sig(x)} /\ x \in DOMAIN ctx.signals
    <3>1. PICK x \in X : d[i] = {Sig(x)}
      BY <1>4
    <3>2. (\A b \in d[i] : Atom(b, ctx) = "true") <=> x \in DOMAIN ctx.signals
      BY <1>2, <3>1
    <3>3. \A z \in X : d[i] = {Sig(z)} => z = x
      <4> SUFFICES ASSUME NEW z \in X, d[i] = {Sig(z)} PROVE z = x
        OBVIOUS
      <4>1. Sig(z) = Sig(x)
        BY <3>1
      <4> QED BY <1>1, <4>1
    <3> QED BY <3>1, <3>2, <3>3
  <2> QED BY <1>6, <2>1
<1> QED BY <1>5, <1>6, <1>7, <1>8 DEF TruthValues, Found

\* Rules that allow, one of which holds before any can fail.
Allows(policy, n, ctx, k) ==
  /\ n \in Nat /\ DOMAIN policy.rules = 1..n /\ k \in 1..n
  /\ \A j \in 1..k : /\ policy.rules[j].action = "allow"
                      /\ Result(policy.rules[j], ctx) \in {"true", "false"}
  /\ \E j \in 1..k : Result(policy.rules[j], ctx) = "true"
LEMMA AllowFirst ==
  ASSUME NEW policy, NEW n, NEW ctx, NEW k, Allows(policy, n, ctx, k)
  PROVE  Evaluate(policy, ctx) = "allow"
<1> USE DEF Allows
<1> DEFINE D == {j \in 1..k : Result(policy.rules[j], ctx) = "true"}
<1>1. D \in SUBSET Nat /\ D # {}
  OBVIOUS
<1>2. PICK j \in D : \A i \in D : j <= i
  BY <1>1, LeastElement, Zenon
<1>3. j \in 1..k /\ j \in 1..n /\ Result(policy.rules[j], ctx) = "true"
  BY <1>2
<1>4. \A i \in 1..n : i < j => Result(policy.rules[i], ctx) = "false"
  <2> SUFFICES ASSUME NEW i \in 1..n, i < j PROVE Result(policy.rules[i], ctx) = "false"
    OBVIOUS
  <2>1. i \in 1..k /\ i \notin D
    BY <1>2, <1>3
  <2> QED BY <2>1
<1>5. Evaluate(policy, ctx) = policy.rules[j].action
  BY <1>3, <1>4, EvaluateStops
<1> QED BY <1>3, <1>5

\* The atoms of the files.
LEMMA AtomsAre ==
  ASSUME NEW ctx
  PROVE  /\ \A p : Atom(Key("path", p), ctx) = Truth(ctx.path = p) /\ Key("path", p).key \in AtomKeys
         /\ \A P : /\ Atom(Key("path_prefix", P), ctx) = Truth(ctx.path \in P)
                   /\ Key("path_prefix", P).key \in AtomKeys
         /\ \A P : /\ Atom(Key("ja3_in", P), ctx) = Truth(ctx.ja3 \in P)
                   /\ Key("ja3_in", P).key \in AtomKeys
         /\ \A c : /\ Atom(Key("ip_category", c), ctx) = Truth(ctx.category = c)
                   /\ Key("ip_category", c).key \in AtomKeys
         /\ \A t : /\ Atom(Key("has_valid_token", t), ctx) = Truth(ctx.token = t)
                   /\ Key("has_valid_token", t).key \in AtomKeys
         /\ \A n : /\ Atom(Score(">=", n), ctx) = Truth(ctx.score >= n)
                   /\ Score(">=", n).key \in AtomKeys
<1>1. \A k, v : Key(k, v).key = k /\ Key(k, v).val = v
  BY DEF Key
<1>2. \A n : /\ Score(">=", n).key = "score" /\ Score(">=", n).op = ">=" /\ Score(">=", n).val = n
  BY DEF Score
<1>3. ASSUME NEW p
      PROVE  Atom(Key("path", p), ctx) = Truth(ctx.path = p) /\ Key("path", p).key \in AtomKeys
  BY <1>1 DEF Atom, AtomKeys
<1>4. ASSUME NEW p
      PROVE  /\ Atom(Key("path_prefix", p), ctx) = Truth(ctx.path \in p)
             /\ Key("path_prefix", p).key \in AtomKeys
  BY <1>1 DEF Atom, AtomKeys
<1>5. ASSUME NEW p
      PROVE  /\ Atom(Key("ja3_in", p), ctx) = Truth(ctx.ja3 \in p)
             /\ Key("ja3_in", p).key \in AtomKeys
  BY <1>1 DEF Atom, AtomKeys
<1>6. ASSUME NEW p
      PROVE  /\ Atom(Key("ip_category", p), ctx) = Truth(ctx.category = p)
             /\ Key("ip_category", p).key \in AtomKeys
  BY <1>1 DEF Atom, AtomKeys
<1>7. ASSUME NEW p
      PROVE  /\ Atom(Key("has_valid_token", p), ctx) = Truth(ctx.token = p)
             /\ Key("has_valid_token", p).key \in AtomKeys
  BY <1>1 DEF Atom, AtomKeys
<1>8. ASSUME NEW p
      PROVE  /\ Atom(Score(">=", p), ctx) = Truth(ctx.score >= p)
             /\ Score(">=", p).key \in AtomKeys
  BY <1>2 DEF Atom, AtomKeys, Compare
<1> QED BY <1>3, <1>4, <1>5, <1>6, <1>7, <1>8

LEMMA AllowRules ==
  ASSUME NEW ctx
  PROVE  /\ \A p : Says(Probe(p), "allow", ctx, Truth(ctx.path = p))
         /\ \A p : Says(Rule(When({Key("path_prefix", {p})}), "allow"), "allow", ctx, Truth(ctx.path = p))
         /\ Says(Token, "allow", ctx, Truth(ctx.token = TRUE))
<1>1. ASSUME NEW p PROVE Says(Probe(p), "allow", ctx, Truth(ctx.path = p))
  <2> DEFINE a == Key("path", p)
  <2>1. a.key \in AtomKeys /\ Atom(a, ctx) = Truth(ctx.path = p)
    BY AtomsAre DEF Truth
  <2> HIDE DEF a
  <2>2. Says(Rule(When({a}), "allow"), "allow", ctx, Atom(a, ctx))
    BY <2>1, OneAtom, Zenon
  <2> QED BY <2>1, <2>2, Zenon DEF Probe, a
<1>2. ASSUME NEW p
      PROVE  Says(Rule(When({Key("path_prefix", {p})}), "allow"), "allow", ctx, Truth(ctx.path = p))
  <2> DEFINE a == Key("path_prefix", {p})
  <2>1. a.key \in AtomKeys /\ Atom(a, ctx) = Truth(ctx.path \in {p})
    BY AtomsAre DEF Truth
  <2> HIDE DEF a
  <2>2. Says(Rule(When({a}), "allow"), "allow", ctx, Atom(a, ctx))
    BY <2>1, OneAtom, Zenon
  <2>3. Truth(ctx.path \in {p}) = Truth(ctx.path = p)
    BY DEF Truth
  <2> QED BY <2>1, <2>2, <2>3, Zenon DEF a
<1>3. Says(Token, "allow", ctx, Truth(ctx.token = TRUE))
  <2> DEFINE a == Key("has_valid_token", TRUE)
  <2>1. a.key \in AtomKeys /\ Atom(a, ctx) = Truth(ctx.token = TRUE)
    BY AtomsAre, Zenon
  <2> HIDE DEF a
  <2>2. Says(Rule(When({a}), "allow"), "allow", ctx, Atom(a, ctx))
    BY <2>1, OneAtom, Zenon
  <2> QED BY <2>1, <2>2, Zenon DEF Token, a
<1> QED BY <1>1, <1>2, <1>3, Zenon

DefaultOpen == {"/healthz", "/readyz", "/metrics", "/__as/challenge.bundle.js"}
StrictOpen == {"/healthz", "/readyz", "/__as/challenge.bundle.js"}

\* default.yaml: what each rule says. One of the signals of the sixth rule never
\* fires here, so it holds or fails.
DefaultSays(p, ctx, r, tok, S) ==
  /\ DOMAIN p.rules = 1..8
  /\ Result(p.rules[1], ctx) = (IF r.path = "/healthz" THEN "true" ELSE "false")
  /\ Result(p.rules[2], ctx) = (IF r.path = "/readyz" THEN "true" ELSE "false")
  /\ Result(p.rules[3], ctx) = (IF r.path = "/metrics" THEN "true" ELSE "false")
  /\ Result(p.rules[4], ctx) = (IF r.path = "/__as/challenge.bundle.js" THEN "true" ELSE "false")
  /\ Result(p.rules[5], ctx) = (IF tok THEN "true" ELSE "false")
  /\ \A i \in 1..5 : p.rules[i].action = "allow"
  /\ Result(p.rules[6], ctx) = (IF "ja3_known_scraper" \in S THEN "true" ELSE "error")
  /\ p.rules[6].action = "deny"
LEMMA DefaultResults ==
  ASSUME NEW S \in SUBSET Names, NEW r, NEW tok \in BOOLEAN, NEW ctx, Seen(ctx, r, tok, S)
  PROVE  DefaultSays(DefaultPolicy, ctx, r, tok, S)
<1> DEFINE p == DefaultPolicy
           d == << {Sig("ja3_known_scraper")}, {Sig("runtime_error_stack_pw_signature")} >>
           X == {"ja3_known_scraper", "runtime_error_stack_pw_signature"}
           R(i) == Result(p.rules[i], ctx)
           M == Rule(When({Key("path_prefix", {"/metrics"})}), "allow")
<1>1. /\ DOMAIN p.rules = 1..8
      /\ p.rules[1] = Probe("/healthz") /\ p.rules[2] = Probe("/readyz") /\ p.rules[3] = M
      /\ p.rules[4] = Assets /\ p.rules[5] = Token /\ p.rules[6] = Rule(Expr(d), "deny")
  BY DEF DefaultPolicy
<1> HIDE DEF p, M
<1>2. /\ Says(p.rules[1], "allow", ctx, Truth(ctx.path = "/healthz"))
      /\ Says(p.rules[2], "allow", ctx, Truth(ctx.path = "/readyz"))
      /\ Says(p.rules[3], "allow", ctx, Truth(ctx.path = "/metrics"))
      /\ Says(p.rules[4], "allow", ctx, Truth(ctx.path = "/__as/challenge.bundle.js"))
      /\ Says(p.rules[5], "allow", ctx, Truth(ctx.token = TRUE))
  <2>1. Says(Probe("/healthz"), "allow", ctx, Truth(ctx.path = "/healthz"))
    BY AllowRules, Zenon
  <2>2. Says(Probe("/readyz"), "allow", ctx, Truth(ctx.path = "/readyz"))
    BY AllowRules, Zenon
  <2>3. Says(M, "allow", ctx, Truth(ctx.path = "/metrics"))
    BY AllowRules, Zenon DEF M
  <2>4. Says(Assets, "allow", ctx, Truth(ctx.path = "/__as/challenge.bundle.js"))
    BY AllowRules, Zenon DEF Assets
  <2>5. Says(Token, "allow", ctx, Truth(ctx.token = TRUE))
    BY AllowRules, Zenon
  <2> QED BY <1>1, <2>1, <2>2, <2>3, <2>4, <2>5, Zenon
<1>3. /\ R(1) = (IF r.path = "/healthz" THEN "true" ELSE "false")
      /\ R(2) = (IF r.path = "/readyz" THEN "true" ELSE "false")
      /\ R(3) = (IF r.path = "/metrics" THEN "true" ELSE "false")
      /\ R(4) = (IF r.path = "/__as/challenge.bundle.js" THEN "true" ELSE "false")
      /\ R(5) = (IF tok THEN "true" ELSE "false")
      /\ \A i \in 1..5 : p.rules[i].action = "allow"
  <2>1. ctx.path = r.path /\ ctx.token = tok
    BY Zenon DEF Seen
  <2>2. \A i \in 1..5 : i = 1 \/ i = 2 \/ i = 3 \/ i = 4 \/ i = 5
    OBVIOUS
  <2> QED BY <1>2, <2>1, <2>2 DEF Says, Truth
<1>4. R(6) = (IF "ja3_known_scraper" \in S THEN "true" ELSE "error") /\ p.rules[6].action = "deny"
  <2>1. d \in Seq({{Sig(x)} : x \in X}) /\ Len(d) = 2
        /\ d[1] = {Sig("ja3_known_scraper")} /\ d[2] = {Sig("runtime_error_stack_pw_signature")}
    OBVIOUS
  <2>2. DOMAIN ctx.signals = S /\ "runtime_error_stack_pw_signature" \notin S
    BY NamesAre, Zenon DEF Seen
  <2>3. \A x \in DOMAIN ctx.signals : ctx.signals[x] > 0
    BY Zenon DEF Seen
  <2> HIDE DEF d
  <2>4. 1 \in 1..Len(d) /\ 2 \in 1..Len(d)
        /\ "runtime_error_stack_pw_signature" \in X /\ "ja3_known_scraper" \in X
    BY <2>1
  <2> HIDE DEF X
  <2>5. R(6) = IF Found(X, d, ctx) THEN "true" ELSE "error"
    <3>1. OneAbsent(X, d, ctx)
      BY <2>1, <2>2, <2>3, <2>4 DEF OneAbsent
    <3>2. Result(Rule(Expr(d), "deny"), ctx) = IF Found(X, d, ctx) THEN "true" ELSE "error"
      BY <3>1, SignalRule
    <3> QED BY <1>1, <3>2
  <2>6. Found(X, d, ctx) <=> "ja3_known_scraper" \in S
    <3>1. ASSUME "ja3_known_scraper" \in S PROVE Found(X, d, ctx)
      BY <2>1, <2>2, <2>4, <3>1 DEF Found
    <3>2. ASSUME NEW x \in X, x \in DOMAIN ctx.signals PROVE "ja3_known_scraper" \in S
      BY <2>2, <3>2 DEF X
    <3> QED BY <3>1, <3>2 DEF Found
  <2>7. p.rules[6].action = "deny"
    BY <1>1, RuleResult
  <2> QED BY <2>5, <2>6, <2>7
<1>5. DefaultSays(p, ctx, r, tok, S)
  BY <1>1, <1>3, <1>4, Zenon DEF DefaultSays
<1> QED BY <1>5 DEF p

\* default.yaml: its open paths and a token are allowed, and the rule over signals
\* decides or fails for everything else.
LEMMA DefaultRules ==
  ASSUME NEW S \in SUBSET Names, NEW r, NEW tok \in BOOLEAN, NEW ctx, Seen(ctx, r, tok, S)
  PROVE  Evaluate(DefaultPolicy, ctx)
           = IF r.path \in DefaultOpen \/ tok THEN "allow"
             ELSE IF "ja3_known_scraper" \in S THEN "deny" ELSE "error"
<1> DEFINE p == DefaultPolicy
           R(i) == Result(p.rules[i], ctx)
<1>0. DefaultSays(p, ctx, r, tok, S)
  BY DefaultResults, Zenon
<1> HIDE DEF p
<1>1. DOMAIN p.rules = 1..8
  BY <1>0, Zenon DEF DefaultSays
<1>3. /\ R(1) = (IF r.path = "/healthz" THEN "true" ELSE "false")
      /\ R(2) = (IF r.path = "/readyz" THEN "true" ELSE "false")
      /\ R(3) = (IF r.path = "/metrics" THEN "true" ELSE "false")
      /\ R(4) = (IF r.path = "/__as/challenge.bundle.js" THEN "true" ELSE "false")
      /\ R(5) = (IF tok THEN "true" ELSE "false")
      /\ \A i \in 1..5 : p.rules[i].action = "allow"
  BY <1>0, Zenon DEF DefaultSays
<1>4. R(6) = (IF "ja3_known_scraper" \in S THEN "true" ELSE "error") /\ p.rules[6].action = "deny"
  BY <1>0, Zenon DEF DefaultSays
<1> HIDE DEF R
<1>5. CASE r.path \in DefaultOpen \/ tok
  <2>1. \E j \in 1..5 : R(j) = "true"
    <3>1. R(1) = "true" \/ R(2) = "true" \/ R(3) = "true" \/ R(4) = "true" \/ R(5) = "true"
      BY <1>3, <1>5 DEF DefaultOpen, Truth
    <3> QED BY <3>1
  <2>2. \A j \in 1..5 : R(j) \in {"true", "false"}
    <3>1. \A j \in 1..5 : j = 1 \/ j = 2 \/ j = 3 \/ j = 4 \/ j = 5
      OBVIOUS
    <3> QED BY <1>3, <3>1 DEF Truth
  <2>3. Evaluate(p, ctx) = "allow"
    <3>1. Allows(p, 8, ctx, 5)
      BY <1>1, <1>3, <2>1, <2>2 DEF R, Allows
    <3> QED BY <3>1, AllowFirst
  <2> QED BY <1>5, <2>3 DEF p
<1>6. CASE ~(r.path \in DefaultOpen \/ tok)
  <2>1. \A j \in 1..8 : j < 6 => R(j) = "false"
    <3>1. \A j \in 1..8 : j < 6 => j = 1 \/ j = 2 \/ j = 3 \/ j = 4 \/ j = 5
      OBVIOUS
    <3>2. R(1) = "false" /\ R(2) = "false" /\ R(3) = "false" /\ R(4) = "false" /\ R(5) = "false"
      BY <1>3, <1>6 DEF DefaultOpen, Truth
    <3> QED BY <3>1, <3>2
  <2>2. R(6) # "false"
    BY <1>4
  <2>3. Evaluate(p, ctx) = IF R(6) = "error" THEN "error" ELSE p.rules[6].action
    <3>1. Stops(p, 8, ctx, 6)
      BY <1>1, <2>1, <2>2 DEF R, Stops
    <3> QED BY <3>1, StopsAt DEF R
  <2> QED BY <1>4, <1>6, <2>3 DEF p
<1> QED BY <1>5, <1>6

\* strict.yaml: the same with its own open paths, and a rule over the IP category
\* that never holds.
StrictSays(p, ctx, r, tok, S) ==
  /\ DOMAIN p.rules = 1..8
  /\ Result(p.rules[1], ctx) = (IF r.path = "/healthz" THEN "true" ELSE "false")
  /\ Result(p.rules[2], ctx) = (IF r.path = "/readyz" THEN "true" ELSE "false")
  /\ Result(p.rules[3], ctx) = (IF r.path = "/__as/challenge.bundle.js" THEN "true" ELSE "false")
  /\ Result(p.rules[4], ctx) = (IF tok THEN "true" ELSE "false")
  /\ \A i \in 1..4 : p.rules[i].action = "allow"
  /\ Result(p.rules[5], ctx) = "false"
  /\ Result(p.rules[6], ctx) = (IF "ja3_known_scraper" \in S THEN "true" ELSE "error")
  /\ p.rules[6].action = "deny"
LEMMA StrictResults ==
  ASSUME NEW S \in SUBSET Names, NEW r, NEW tok \in BOOLEAN, NEW ctx, Seen(ctx, r, tok, S)
  PROVE  StrictSays(StrictPolicy, ctx, r, tok, S)
<1> DEFINE p == StrictPolicy
           d == << {Sig("ja3_known_scraper")}, {Sig("runtime_error_stack_pw_signature")},
                   {Sig("runtime_console_debug_disabled")}, {Sig("canvas_seeded_noise")},
                   {Sig("nav_webdriver_set")} >>
           X == {"ja3_known_scraper", "runtime_error_stack_pw_signature",
                 "runtime_console_debug_disabled", "canvas_seeded_noise", "nav_webdriver_set"}
           c == << {Key("ip_category", "datacenter")}, {Key("ip_category", "tor")} >>
           C == {Key("ip_category", "datacenter"), Key("ip_category", "tor")}
           R(i) == Result(p.rules[i], ctx)
<1>1. /\ DOMAIN p.rules = 1..8
      /\ p.rules[1] = Probe("/healthz") /\ p.rules[2] = Probe("/readyz")
      /\ p.rules[3] = Assets /\ p.rules[4] = Token /\ p.rules[5] = Rule(Expr(c), "deny")
      /\ p.rules[6] = Rule(Expr(d), "deny")
  BY DEF StrictPolicy
<1> HIDE DEF p
<1>2. /\ Says(p.rules[1], "allow", ctx, Truth(ctx.path = "/healthz"))
      /\ Says(p.rules[2], "allow", ctx, Truth(ctx.path = "/readyz"))
      /\ Says(p.rules[3], "allow", ctx, Truth(ctx.path = "/__as/challenge.bundle.js"))
      /\ Says(p.rules[4], "allow", ctx, Truth(ctx.token = TRUE))
  <2>1. Says(Probe("/healthz"), "allow", ctx, Truth(ctx.path = "/healthz"))
    BY AllowRules, Zenon
  <2>2. Says(Probe("/readyz"), "allow", ctx, Truth(ctx.path = "/readyz"))
    BY AllowRules, Zenon
  <2>4. Says(Assets, "allow", ctx, Truth(ctx.path = "/__as/challenge.bundle.js"))
    BY AllowRules, Zenon DEF Assets
  <2>5. Says(Token, "allow", ctx, Truth(ctx.token = TRUE))
    BY AllowRules, Zenon
  <2> QED BY <1>1, <2>1, <2>2, <2>4, <2>5, ZenonT(40)
<1>3. /\ R(1) = (IF r.path = "/healthz" THEN "true" ELSE "false")
      /\ R(2) = (IF r.path = "/readyz" THEN "true" ELSE "false")
      /\ R(3) = (IF r.path = "/__as/challenge.bundle.js" THEN "true" ELSE "false")
      /\ R(4) = (IF tok THEN "true" ELSE "false")
      /\ \A i \in 1..4 : p.rules[i].action = "allow"
  <2>1. ctx.path = r.path /\ ctx.token = tok
    BY Zenon DEF Seen
  <2>2. \A i \in 1..4 : i = 1 \/ i = 2 \/ i = 3 \/ i = 4
    OBVIOUS
  <2> QED BY <1>2, <2>1, <2>2 DEF Says, Truth
<1>4. R(5) = "false"
  <2>1. c \in Seq(SUBSET C) /\ c # <<>> /\ Len(c) = 2
        /\ c[1] = {Key("ip_category", "datacenter")} /\ c[2] = {Key("ip_category", "tor")}
    OBVIOUS
  <2>2. \A v : /\ Atom(Key("ip_category", v), ctx) = Truth(ctx.category = v)
               /\ Key("ip_category", v).key \in AtomKeys
    BY AtomsAre, Zenon
  <2>3. AreAtoms(C)
    BY <2>2 DEF AreAtoms
  <2>4. ctx.category = ""
    BY Zenon DEF Seen
  <2>5. /\ Atom(Key("ip_category", "datacenter"), ctx) = "false"
        /\ Atom(Key("ip_category", "tor"), ctx) = "false"
    BY <2>2, <2>4, Zenon DEF Truth
  <2> HIDE DEF c, C
  <2>6. \A i \in 1..Len(c) : \E a \in c[i] : Atom(a, ctx) = "false"
    BY <2>1, <2>5
  <2>7. EvalExpr(c, ctx) = "false"
    BY <2>1, <2>3, <2>6, EvalValue
  <2>8. Result(Rule(Expr(c), "deny"), ctx) = EvalExpr(c, ctx)
    BY <2>1, RuleResult, Zenon
  <2> QED BY <1>1, <2>7, <2>8
<1>5. R(6) = (IF "ja3_known_scraper" \in S THEN "true" ELSE "error") /\ p.rules[6].action = "deny"
  <2>1. /\ d \in Seq({{Sig(x)} : x \in X}) /\ Len(d) = 5
        /\ d[1] = {Sig("ja3_known_scraper")} /\ d[2] = {Sig("runtime_error_stack_pw_signature")}
    OBVIOUS
  <2>2. DOMAIN ctx.signals = S /\ S \cap X \subseteq {"ja3_known_scraper"}
    BY NamesAre, Zenon DEF Seen
  <2>3. \A x \in DOMAIN ctx.signals : ctx.signals[x] > 0
    BY Zenon DEF Seen
  <2> HIDE DEF d
  <2>4. 1 \in 1..Len(d) /\ 2 \in 1..Len(d)
        /\ "runtime_error_stack_pw_signature" \in X /\ "ja3_known_scraper" \in X
    BY <2>1
  <2> HIDE DEF X
  <2>5. R(6) = IF Found(X, d, ctx) THEN "true" ELSE "error"
    <3>1. OneAbsent(X, d, ctx)
      BY <2>1, <2>2, <2>3, <2>4 DEF OneAbsent
    <3>2. Result(Rule(Expr(d), "deny"), ctx) = IF Found(X, d, ctx) THEN "true" ELSE "error"
      BY <3>1, SignalRule
    <3> QED BY <1>1, <3>2
  <2>6. Found(X, d, ctx) <=> "ja3_known_scraper" \in S
    <3>1. ASSUME "ja3_known_scraper" \in S PROVE Found(X, d, ctx)
      BY <2>1, <2>2, <2>4, <3>1 DEF Found
    <3>2. ASSUME NEW x \in X, x \in DOMAIN ctx.signals PROVE "ja3_known_scraper" \in S
      BY <2>2, <3>2
    <3> QED BY <3>1, <3>2 DEF Found
  <2>7. p.rules[6].action = "deny"
    BY <1>1, RuleResult, Zenon
  <2> QED BY <2>5, <2>6, <2>7
<1>6. StrictSays(p, ctx, r, tok, S)
  BY <1>1, <1>3, <1>4, <1>5, Zenon DEF StrictSays
<1> QED BY <1>6 DEF p

LEMMA StrictRules ==
  ASSUME NEW S \in SUBSET Names, NEW r, NEW tok \in BOOLEAN, NEW ctx, Seen(ctx, r, tok, S)
  PROVE  Evaluate(StrictPolicy, ctx)
           = IF r.path \in StrictOpen \/ tok THEN "allow"
             ELSE IF "ja3_known_scraper" \in S THEN "deny" ELSE "error"
<1> DEFINE p == StrictPolicy
           R(i) == Result(p.rules[i], ctx)
<1>0. StrictSays(p, ctx, r, tok, S)
  BY StrictResults, Zenon
<1> HIDE DEF p
<1>1. DOMAIN p.rules = 1..8
  BY <1>0, Zenon DEF StrictSays
<1>3. /\ R(1) = (IF r.path = "/healthz" THEN "true" ELSE "false")
      /\ R(2) = (IF r.path = "/readyz" THEN "true" ELSE "false")
      /\ R(3) = (IF r.path = "/__as/challenge.bundle.js" THEN "true" ELSE "false")
      /\ R(4) = (IF tok THEN "true" ELSE "false")
      /\ \A i \in 1..4 : p.rules[i].action = "allow"
  BY <1>0, Zenon DEF StrictSays
<1>4. R(5) = "false"
  BY <1>0, Zenon DEF StrictSays
<1>5. R(6) = (IF "ja3_known_scraper" \in S THEN "true" ELSE "error") /\ p.rules[6].action = "deny"
  BY <1>0, Zenon DEF StrictSays
<1> HIDE DEF R
<1>6. CASE r.path \in StrictOpen \/ tok
  <2>1. \E j \in 1..4 : R(j) = "true"
    <3>1. R(1) = "true" \/ R(2) = "true" \/ R(3) = "true" \/ R(4) = "true"
      BY <1>3, <1>6 DEF StrictOpen, Truth
    <3> QED BY <3>1
  <2>2. \A j \in 1..4 : R(j) \in {"true", "false"}
    <3>1. \A j \in 1..4 : j = 1 \/ j = 2 \/ j = 3 \/ j = 4
      OBVIOUS
    <3> QED BY <1>3, <3>1
  <2>3. Evaluate(p, ctx) = "allow"
    <3>1. Allows(p, 8, ctx, 4)
      BY <1>1, <1>3, <2>1, <2>2 DEF R, Allows
    <3> QED BY <3>1, AllowFirst
  <2> QED BY <1>6, <2>3 DEF p
<1>7. CASE ~(r.path \in StrictOpen \/ tok)
  <2>1. \A j \in 1..8 : j < 6 => R(j) = "false"
    <3>1. \A j \in 1..8 : j < 6 => j = 1 \/ j = 2 \/ j = 3 \/ j = 4 \/ j = 5
      OBVIOUS
    <3>2. R(1) = "false" /\ R(2) = "false" /\ R(3) = "false" /\ R(4) = "false" /\ R(5) = "false"
      BY <1>3, <1>4, <1>7 DEF StrictOpen
    <3> QED BY <3>1, <3>2
  <2>2. R(6) # "false"
    BY <1>5
  <2>3. Evaluate(p, ctx) = IF R(6) = "error" THEN "error" ELSE p.rules[6].action
    <3>1. Stops(p, 8, ctx, 6)
      BY <1>1, <2>1, <2>2 DEF R, Stops
    <3> QED BY <3>1, StopsAt DEF R
  <2> QED BY <1>5, <1>7, <2>3 DEF p
<1> QED BY <1>6, <1>7

\* The two custom policies: the shorthand key of the mixed rule binds to its last
\* disjunct only, and the locked page is closed to token holders too.
LEMMA MixedRules ==
  ASSUME NEW S \in SUBSET Names, NEW r, NEW tok \in BOOLEAN, NEW ctx, Seen(ctx, r, tok, S)
  PROVE  Evaluate(MixedPolicy, ctx)
           = IF Clamp(Points(S)) >= 30 \/ (r.ja3 = "curl" /\ r.path = "/page") THEN "deny" ELSE "allow"
<1> DEFINE p == MixedPolicy
           a == Score(">=", 30)
           b == Key("ja3_in", {"curl"})
           c == Key("path", "/page")
           A == {a, b, c}
           m == [expr |-> << {a}, {b} >>, keys |-> {c}]
           e == << {a}, {b, c} >>
<1>1. DOMAIN p.rules = 1..1 /\ p.rules[1] = Rule(m, "deny") /\ p.default = "allow"
  BY DEF MixedPolicy
<1>2. /\ a.key \in AtomKeys /\ b.key \in AtomKeys /\ c.key \in AtomKeys
      /\ Atom(a, ctx) = Truth(ctx.score >= 30) /\ Atom(b, ctx) = Truth(ctx.ja3 \in {"curl"})
      /\ Atom(c, ctx) = Truth(ctx.path = "/page")
  <2>1. a.key \in AtomKeys /\ Atom(a, ctx) = Truth(ctx.score >= 30)
    BY AtomsAre
  <2>2. b.key \in AtomKeys /\ Atom(b, ctx) = Truth(ctx.ja3 \in {"curl"})
    <3> DEFINE P == {"curl"}
    <3> HIDE DEF P
    <3>1. \A Q : /\ Atom(Key("ja3_in", Q), ctx) = Truth(ctx.ja3 \in Q)
                 /\ Key("ja3_in", Q).key \in AtomKeys
      BY AtomsAre
    <3>2. Key("ja3_in", P).key \in AtomKeys /\ Atom(Key("ja3_in", P), ctx) = Truth(ctx.ja3 \in P)
      BY <3>1, Zenon
    <3> QED BY <3>2 DEF P
  <2>3. c.key \in AtomKeys /\ Atom(c, ctx) = Truth(ctx.path = "/page")
    BY AtomsAre, Zenon
  <2> QED BY <2>1, <2>2, <2>3, ZenonT(40)
<1> HIDE DEF p, a, b, c
<1>3. Compile(Rule(m, "deny").match) = e
  <2> DEFINE x == << {a}, {b} >>
  <2>1. Rule(m, "deny").match = m /\ m.expr = x /\ m.keys = {c}
    BY DEF Rule
  <2>2. x # <<>> /\ Len(x) = 2 /\ x[2] = {b}
    OBVIOUS
  <2>3. [x EXCEPT ![2] = {b} \cup {c}] = e
    OBVIOUS
  <2> HIDE DEF m, e, x
  <2>4. Compile(m) = [x EXCEPT ![2] = x[2] \cup {c}]
    BY <2>1, <2>2, Zenon DEF Compile
  <2> QED BY <2>1, <2>2, <2>3, <2>4, Zenon
<1>4. AreAtoms(A)
  BY <1>2 DEF AreAtoms
<1>5. e \in Seq(SUBSET A) /\ Len(e) = 2 /\ e[1] = {a} /\ e[2] = {b, c}
  OBVIOUS
<1> HIDE DEF e, A
<1>6. /\ EvalExpr(e, ctx) \in TruthValues
      /\ EvalExpr(e, ctx) = "true"
           <=> \E i \in 1..Len(e) : \A x \in e[i] : Atom(x, ctx) = "true"
      /\ EvalExpr(e, ctx) = "false"
           <=> \A i \in 1..Len(e) : \E x \in e[i] : Atom(x, ctx) = "false"
  BY <1>4, <1>5, EvalValue
<1>7. 1..Len(e) = {1, 2}
  BY <1>5
<1>8. /\ EvalExpr(e, ctx) = "true"
           <=> Atom(a, ctx) = "true" \/ (Atom(b, ctx) = "true" /\ Atom(c, ctx) = "true")
      /\ EvalExpr(e, ctx) = "false"
           <=> Atom(a, ctx) = "false" /\ (Atom(b, ctx) = "false" \/ Atom(c, ctx) = "false")
  BY <1>5, <1>6, <1>7
<1> DEFINE hit == Clamp(Points(S)) >= 30 \/ (r.ja3 = "curl" /\ r.path = "/page")
<1>9. EvalExpr(e, ctx) = IF hit THEN "true" ELSE "false"
  <2>1. ctx.path = r.path /\ ctx.ja3 = r.ja3 /\ ctx.score = Clamp(Points(S))
    BY Zenon DEF Seen
  <2>2. /\ Atom(a, ctx) = (IF Clamp(Points(S)) >= 30 THEN "true" ELSE "false")
        /\ Atom(b, ctx) = (IF r.ja3 = "curl" THEN "true" ELSE "false")
        /\ Atom(c, ctx) = (IF r.path = "/page" THEN "true" ELSE "false")
    BY <1>2, <2>1 DEF Truth
  <2> QED BY <1>8, <2>2
<1>10. Result(p.rules[1], ctx) = (IF hit THEN "true" ELSE "false") /\ p.rules[1].action = "deny"
  <2>1. Result(p.rules[1], ctx) = EvalExpr(e, ctx)
    BY <1>1, <1>3 DEF Result
  <2>2. p.rules[1].action = "deny"
    BY <1>1, RuleResult
  <2> QED BY <1>9, <2>1, <2>2
<1> HIDE DEF hit
<1>11. CASE hit
  <2>1. Stops(p, 1, ctx, 1)
    BY <1>1, <1>10, <1>11 DEF Stops
  <2>2. Evaluate(p, ctx) = "deny"
    BY <1>10, <1>11, <2>1, StopsAt
  <2> QED BY <1>11, <2>2 DEF p, hit
<1>12. CASE ~hit
  <2>1. \A j \in 1..1 : Result(p.rules[j], ctx) = "false"
    BY <1>10, <1>12
  <2>2. Evaluate(p, ctx) = "allow"
    BY <1>1, <2>1, EvaluateFallsThrough, Zenon
  <2> QED BY <1>12, <2>2 DEF p, hit
<1> QED BY <1>11, <1>12

LEMMA LockedRules ==
  ASSUME NEW S \in SUBSET Names, NEW r, NEW tok \in BOOLEAN, NEW ctx, Seen(ctx, r, tok, S)
  PROVE  Evaluate(LockedPolicy, ctx) = IF r.path = "/page" THEN "challenge" ELSE "allow"
<1> DEFINE p == LockedPolicy
           a == Key("path", "/page")
           R(i) == Result(p.rules[i], ctx)
<1>1. /\ DOMAIN p.rules = 1..2 /\ p.rules[1] = Rule(When({a}), "challenge")
      /\ p.rules[2] = Token /\ p.default = "allow"
  BY DEF LockedPolicy
<1> HIDE DEF p
<1>2. a.key \in AtomKeys /\ Atom(a, ctx) = Truth(ctx.path = "/page")
  BY AtomsAre, Zenon
<1> HIDE DEF a
<1>3. Says(p.rules[1], "challenge", ctx, Atom(a, ctx))
  BY <1>1, <1>2, OneAtom, Zenon
<1>4. Says(p.rules[2], "allow", ctx, Truth(ctx.token = TRUE))
  BY <1>1, AllowRules, Zenon
<1>5. /\ R(1) = (IF r.path = "/page" THEN "true" ELSE "false") /\ p.rules[1].action = "challenge"
      /\ R(2) = (IF tok THEN "true" ELSE "false") /\ p.rules[2].action = "allow"
  <2>1. ctx.path = r.path /\ ctx.token = tok
    BY Zenon DEF Seen
  <2> QED BY <1>2, <1>3, <1>4, <2>1 DEF Says, Truth
<1> HIDE DEF R
<1>6. CASE r.path = "/page"
  <2>1. Stops(p, 2, ctx, 1)
    BY <1>1, <1>5, <1>6 DEF Stops, R
  <2>2. Evaluate(p, ctx) = "challenge"
    BY <1>5, <1>6, <2>1, StopsAt DEF R
  <2> QED BY <1>6, <2>2 DEF p
<1>7. CASE r.path # "/page" /\ tok
  <2>1. Stops(p, 2, ctx, 2)
    BY <1>1, <1>5, <1>7 DEF Stops, R
  <2>2. Evaluate(p, ctx) = "allow"
    BY <1>5, <1>7, <2>1, StopsAt DEF R
  <2> QED BY <1>7, <2>2 DEF p
<1>8. CASE r.path # "/page" /\ ~tok
  <2>1. \A j \in 1..2 : Result(p.rules[j], ctx) = "false"
    <3>1. \A j \in 1..2 : j = 1 \/ j = 2
      OBVIOUS
    <3> QED BY <1>5, <1>8, <3>1 DEF R
  <2>2. Evaluate(p, ctx) = "allow"
    BY <1>1, <2>1, EvaluateFallsThrough, Zenon
  <2> QED BY <1>8, <2>2 DEF p
<1> QED BY <1>6, <1>7, <1>8

Outcome(n, S, r, tok) ==
  LET T == Clamp(Points(S))
      over(deny, challenge) == IF T >= deny THEN "DENY"
                               ELSE IF T >= challenge THEN "CHALLENGE" ELSE "ALLOW"
      shipped(open, deny, challenge) ==
        IF tok \/ r.path \in open THEN "ALLOW"
        ELSE IF "ja3_known_scraper" \in S THEN "DENY" ELSE over(deny, challenge)
  IN  CASE n = "default" -> shipped(DefaultOpen, 80, 40)
        [] n = "strict"  -> shipped(StrictOpen, 50, 10)
        [] n = "mixed"   -> IF tok /\ T < 80 THEN "ALLOW"
                            ELSE IF T >= 30 \/ (r.ja3 = "curl" /\ r.path = "/page") THEN "DENY"
                            ELSE "ALLOW"
        [] n = "locked"  -> IF tok /\ T < 80 THEN "ALLOW"
                            ELSE IF r.path = "/page" THEN "CHALLENGE" ELSE "ALLOW"

\* What each file decides, with the thresholds where the rules fail.
LEMMA OutcomeIs ==
  ASSUME NEW n \in {"default", "strict", "mixed", "locked"}, NEW S \in SUBSET Names,
         NEW r, NEW tok \in BOOLEAN
  PROVE  Combine(Report(S), PolicyNamed(n), r, tok) = Outcome(n, S, r, tok)
<1> DEFINE p == PolicyNamed(n)
           T == Clamp(Points(S))
<1>1. p.weights = Weights
  BY DEF PolicyNamed, DefaultPolicy, StrictPolicy, MixedPolicy, LockedPolicy
<1>2. PICK ctx : /\ Seen(ctx, r, tok, S)
                 /\ Combine(Report(S), p, r, tok)
                      = IF tok /\ T < DenyAt(p) THEN "ALLOW"
                        ELSE IF Evaluate(p, ctx) # "error" THEN ActionVerdict(Evaluate(p, ctx))
                        ELSE Threshold(T, p)
  <2> HIDE DEF p
  <2> QED BY <1>1, CombineReport
<1> HIDE DEF T
<1>3. CASE n = "default"
  <2>1. p = DefaultPolicy /\ p.deny = 80 /\ p.challenge = 40
    BY <1>3 DEF PolicyNamed, DefaultPolicy
  <2> HIDE DEF p
  <2>2. DenyAt(p) = 80 /\ ChallengeAt(p) = 40
    BY <2>1 DEF DenyAt, ChallengeAt
  <2>3. Evaluate(p, ctx) = IF r.path \in DefaultOpen \/ tok THEN "allow"
                           ELSE IF "ja3_known_scraper" \in S THEN "deny" ELSE "error"
    BY <1>2, <2>1, DefaultRules
  <2> QED BY <1>2, <1>3, <2>2, <2>3 DEF Outcome, ActionVerdict, Threshold, T, p
<1>4. CASE n = "strict"
  <2>1. p = StrictPolicy /\ p.deny = 50 /\ p.challenge = 10
    BY <1>4 DEF PolicyNamed, StrictPolicy
  <2> HIDE DEF p
  <2>2. DenyAt(p) = 50 /\ ChallengeAt(p) = 10
    BY <2>1 DEF DenyAt, ChallengeAt
  <2>3. Evaluate(p, ctx) = IF r.path \in StrictOpen \/ tok THEN "allow"
                           ELSE IF "ja3_known_scraper" \in S THEN "deny" ELSE "error"
    BY <1>2, <2>1, StrictRules
  <2> QED BY <1>2, <1>4, <2>2, <2>3 DEF Outcome, ActionVerdict, Threshold, T, p
<1>5. CASE n = "mixed"
  <2>1. p = MixedPolicy /\ p.deny = 80
    BY <1>5 DEF PolicyNamed, MixedPolicy
  <2> HIDE DEF p
  <2>2. DenyAt(p) = 80
    BY <2>1 DEF DenyAt
  <2>3. Evaluate(p, ctx) = IF T >= 30 \/ (r.ja3 = "curl" /\ r.path = "/page") THEN "deny" ELSE "allow"
    BY <1>2, <2>1, MixedRules DEF T
  <2> QED BY <1>2, <1>5, <2>2, <2>3 DEF Outcome, ActionVerdict, T, p
<1>6. CASE n = "locked"
  <2>1. p = LockedPolicy /\ p.deny = 80
    BY <1>6 DEF PolicyNamed, LockedPolicy
  <2> HIDE DEF p
  <2>2. DenyAt(p) = 80
    BY <2>1 DEF DenyAt
  <2>3. Evaluate(p, ctx) = IF r.path = "/page" THEN "challenge" ELSE "allow"
    BY <1>2, <2>1, LockedRules
  <2> QED BY <1>2, <1>6, <2>2, <2>3 DEF Outcome, ActionVerdict, T, p
<1> QED BY <1>3, <1>4, <1>5, <1>6

\* One more signal moves the total up and the verdict with it.
LEMMA OutcomeGrows ==
  ASSUME NEW n \in {"default", "strict", "mixed", "locked"}, NEW S \in SUBSET Names,
         NEW x \in Names \ S, NEW r, NEW tok \in BOOLEAN
  PROVE  Severity(Outcome(n, S \cup {x}, r, tok)) >= Severity(Outcome(n, S, r, tok))
<1> DEFINE T == Clamp(Points(S))
           U == Clamp(Points(S \cup {x}))
           j == "ja3_known_scraper" \in S
           k == "ja3_known_scraper" \in S \cup {x}
<1>1. T \in 0..100 /\ U \in 0..100 /\ T <= U
  <2>1. Points(S) \in Nat /\ Points(S \cup {x}) = Points(S) + Weights[x] /\ Weights[x] \in Nat
    BY PointsGrow, NamesAre, Zenon
  <2> QED BY <2>1 DEF Clamp
<1>2. j => k
  OBVIOUS
<1> HIDE DEF T, U, j, k
<1>3. CASE n = "default"
  BY <1>1, <1>2, <1>3 DEF Outcome, Severity, T, U, j, k
<1>4. CASE n = "strict"
  BY <1>1, <1>2, <1>4 DEF Outcome, Severity, T, U, j, k
<1>5. CASE n = "mixed"
  BY <1>1, <1>2, <1>5 DEF Outcome, Severity, T, U, j, k
<1>6. CASE n = "locked"
  BY <1>1, <1>2, <1>6 DEF Outcome, Severity, T, U, j, k
<1> QED BY <1>3, <1>4, <1>5, <1>6

\* The files are policies in the sense of CombineAsDocumented.
LEMMA RuleTypes ==
  ASSUME NEW A, NEW act \in Actions
  PROVE  /\ \A a \in A : Rule(When({a}), act) \in Rules(A)
         /\ \A d \in Seq(SUBSET A) : Rule(Expr(d), act) \in Rules(A)
         /\ \A m \in MatchBlocks(A) : Rule(m, act) \in Rules(A)
<1>1. ASSUME NEW m \in MatchBlocks(A) PROVE Rule(m, act) \in Rules(A)
  BY DEF Rule, Rules
<1>2. ASSUME NEW a \in A PROVE When({a}) \in MatchBlocks(A)
  <2>1. {a} \in SUBSET A /\ <<>> \in Seq(SUBSET A)
    OBVIOUS
  <2> QED BY <2>1 DEF When, MatchBlocks
<1>3. ASSUME NEW d \in Seq(SUBSET A) PROVE Expr(d) \in MatchBlocks(A)
  BY DEF Expr, MatchBlocks
<1> QED BY <1>1, <1>2, <1>3

LEMMA FilesArePolicies ==
  ASSUME NEW n \in {"default", "strict", "mixed", "locked"}
  PROVE  \E A : AreAtoms(A) /\ IsPolicy(PolicyNamed(n), A)
<1> DEFINE V == {"/healthz", "/readyz", "/page", "datacenter", "tor", "residential",
                 "ja3_known_scraper", "runtime_error_stack_pw_signature",
                 "runtime_console_debug_disabled", "canvas_seeded_noise", "nav_webdriver_set"}
                \cup {{"/metrics"}, {"/__as/challenge.bundle.js"}, {"curl"}} \cup {TRUE}
           A == {Key(k, v) : k \in AtomKeys, v \in V} \cup {Score(o, m) : o \in {">=", "<"}, m \in {10, 30, 40, 80}}
           p == PolicyNamed(n)
<1>1. AreAtoms(A)
  <2>1. \A k, v : Key(k, v).key = k
    BY DEF Key
  <2>2. \A o, m : Score(o, m).key = "score"
    BY DEF Score
  <2> HIDE DEF V
  <2> QED BY <2>1, <2>2 DEF AreAtoms, AtomKeys
<1>2. /\ "/healthz" \in V /\ "/readyz" \in V /\ "/page" \in V /\ "datacenter" \in V /\ "tor" \in V
      /\ "residential" \in V /\ "ja3_known_scraper" \in V
      /\ "runtime_error_stack_pw_signature" \in V /\ "runtime_console_debug_disabled" \in V
      /\ "canvas_seeded_noise" \in V /\ "nav_webdriver_set" \in V /\ {"/metrics"} \in V
      /\ {"/__as/challenge.bundle.js"} \in V /\ {"curl"} \in V /\ TRUE \in V
  BY Zenon
<1> HIDE DEF V
<1>3. \A v \in V : /\ Key("path", v) \in A /\ Key("path_prefix", v) \in A /\ Key("ja3_in", v) \in A
                    /\ Key("ip_category", v) \in A /\ Key("has_valid_token", v) \in A /\ Sig(v) \in A
  BY DEF AtomKeys, Sig
<1>4. \A m \in {10, 30, 40, 80} : Score(">=", m) \in A /\ Score("<", m) \in A
  OBVIOUS
<1> HIDE DEF A
<1>5. "allow" \in Actions /\ "challenge" \in Actions /\ "deny" \in Actions
  BY DEF Actions
<1>6. /\ \A v \in V : Probe(v) \in Rules(A)
      /\ \A v \in V : Rule(When({Key("path_prefix", v)}), "allow") \in Rules(A)
      /\ Rule(When({Key("path", "/page")}), "challenge") \in Rules(A)
      /\ Assets \in Rules(A) /\ Token \in Rules(A)
  <2>1. ASSUME NEW v \in V
        PROVE  Probe(v) \in Rules(A) /\ Rule(When({Key("path_prefix", v)}), "allow") \in Rules(A)
    BY <1>3, <1>5, RuleTypes, Zenon DEF Probe
  <2>2. Rule(When({Key("path", "/page")}), "challenge") \in Rules(A)
    BY <1>2, <1>3, <1>5, RuleTypes, Zenon
  <2>3. Assets \in Rules(A)
    BY <1>2, <2>1 DEF Assets
  <2>4. Key("has_valid_token", TRUE) \in A
    BY <1>2, <1>3, Zenon
  <2>5. Token \in Rules(A)
    BY <1>5, <2>4, RuleTypes, Zenon DEF Token
  <2> QED BY <2>1, <2>2, <2>3, <2>5, Zenon
<1>7. ASSUME NEW m \in {10, 30, 40, 80}, NEW act \in Actions
      PROVE  Rule(Expr(<< {Score(">=", m)} >>), act) \in Rules(A)
  <2>1. << {Score(">=", m)} >> \in Seq(SUBSET A)
    BY <1>4
  <2> QED BY <2>1, RuleTypes, Zenon
<1>8. CASE n = "default"
  <2> DEFINE d == << {Sig("ja3_known_scraper")}, {Sig("runtime_error_stack_pw_signature")} >>
             r3 == Rule(When({Key("path_prefix", {"/metrics"})}), "allow")
             r6 == Rule(Expr(d), "deny")
             r7 == Rule(Expr(<< {Score(">=", 80)} >>), "deny")
             r8 == Rule(Expr(<< {Score(">=", 40)} >>), "challenge")
  <2>1. p.default = "challenge"
        /\ p.rules = << Probe("/healthz"), Probe("/readyz"), r3, Assets, Token, r6, r7, r8 >>
    BY <1>8 DEF PolicyNamed, DefaultPolicy
  <2>2. d \in Seq(SUBSET A)
    <3>1. {Sig("ja3_known_scraper")} \in SUBSET A /\ {Sig("runtime_error_stack_pw_signature")} \in SUBSET A
      BY <1>2, <1>3
    <3> QED BY <3>1
  <2>3. r3 \in Rules(A)
    BY <1>2, <1>6, Zenon
  <2>4. r6 \in Rules(A)
    <3> HIDE DEF d
    <3> QED BY <1>5, <2>2, RuleTypes
  <2>5. r7 \in Rules(A) /\ r8 \in Rules(A)
    BY <1>5, <1>7
  <2>6. Probe("/healthz") \in Rules(A) /\ Probe("/readyz") \in Rules(A)
    BY <1>2, <1>6
  <2> HIDE DEF p, r3, r6, r7, r8
  <2>7. p.rules \in Seq(Rules(A))
    BY <1>6, <2>1, <2>3, <2>4, <2>5, <2>6
  <2>8. IsPolicy(p, A)
    BY <1>5, <2>1, <2>7 DEF IsPolicy
  <2> QED BY <1>1, <2>8 DEF p
<1>9. CASE n = "strict"
  <2> DEFINE d == << {Sig("ja3_known_scraper")}, {Sig("runtime_error_stack_pw_signature")},
                     {Sig("runtime_console_debug_disabled")}, {Sig("canvas_seeded_noise")},
                     {Sig("nav_webdriver_set")} >>
             c == << {Key("ip_category", "datacenter")}, {Key("ip_category", "tor")} >>
             e == << {Key("ip_category", "residential"), Score("<", 10)} >>
             r5 == Rule(Expr(c), "deny")
             r6 == Rule(Expr(d), "deny")
             r7 == Rule(Expr(<< {Score(">=", 10)} >>), "challenge")
             r8 == Rule(Expr(e), "allow")
  <2>1. p.default = "deny"
        /\ p.rules = << Probe("/healthz"), Probe("/readyz"), Assets, Token, r5, r6, r7, r8 >>
    BY <1>9 DEF PolicyNamed, StrictPolicy
  <2>2. d \in Seq(SUBSET A)
    <3>1. /\ {Sig("ja3_known_scraper")} \in SUBSET A /\ {Sig("runtime_error_stack_pw_signature")} \in SUBSET A
          /\ {Sig("runtime_console_debug_disabled")} \in SUBSET A /\ {Sig("canvas_seeded_noise")} \in SUBSET A
          /\ {Sig("nav_webdriver_set")} \in SUBSET A
      BY <1>2, <1>3
    <3> QED BY <3>1
  <2>3. c \in Seq(SUBSET A)
    <3>1. {Key("ip_category", "datacenter")} \in SUBSET A /\ {Key("ip_category", "tor")} \in SUBSET A
      BY <1>2, <1>3
    <3> QED BY <3>1
  <2>4. e \in Seq(SUBSET A)
    <3>1. {Key("ip_category", "residential"), Score("<", 10)} \in SUBSET A
      BY <1>2, <1>3, <1>4
    <3> QED BY <3>1
  <2>5. r5 \in Rules(A) /\ r6 \in Rules(A) /\ r8 \in Rules(A)
    <3> HIDE DEF d, c, e
    <3> QED BY <1>5, <2>2, <2>3, <2>4, RuleTypes
  <2>6. r7 \in Rules(A)
    BY <1>5, <1>7, Zenon
  <2>7. Probe("/healthz") \in Rules(A) /\ Probe("/readyz") \in Rules(A)
    BY <1>2, <1>6
  <2> HIDE DEF p, r5, r6, r7, r8
  <2>8. p.rules \in Seq(Rules(A))
    BY <1>6, <2>1, <2>5, <2>6, <2>7
  <2>9. IsPolicy(p, A)
    BY <1>5, <2>1, <2>8 DEF IsPolicy
  <2> QED BY <1>1, <2>9 DEF p
<1>10. CASE n = "mixed"
  <2> DEFINE x == << {Score(">=", 30)}, {Key("ja3_in", {"curl"})} >>
             m == [expr |-> x, keys |-> {Key("path", "/page")}]
             r1 == Rule(m, "deny")
  <2>1. p.default = "allow" /\ p.rules = << r1 >>
    BY <1>10 DEF PolicyNamed, MixedPolicy
  <2>2. x \in Seq(SUBSET A) /\ {Key("path", "/page")} \in SUBSET A
    <3>1. {Score(">=", 30)} \in SUBSET A
      BY <1>4
    <3>2. Key("ja3_in", {"curl"}) \in A /\ Key("path", "/page") \in A
      BY <1>2, <1>3, Zenon
    <3>3. {Key("ja3_in", {"curl"})} \in SUBSET A /\ {Key("path", "/page")} \in SUBSET A
      BY <3>2, Zenon
    <3> QED BY <3>1, <3>3
  <2> HIDE DEF x
  <2>3. m \in MatchBlocks(A)
    BY <2>2 DEF MatchBlocks
  <2> HIDE DEF m
  <2>4. r1 \in Rules(A)
    BY <1>5, <2>3, RuleTypes, Zenon
  <2> HIDE DEF p, r1
  <2>5. IsPolicy(p, A)
    BY <1>5, <2>1, <2>4 DEF IsPolicy
  <2> QED BY <1>1, <2>5 DEF p
<1>11. CASE n = "locked"
  <2> DEFINE r1 == Rule(When({Key("path", "/page")}), "challenge")
  <2>1. p.default = "allow" /\ p.rules = << r1, Token >>
    BY <1>11 DEF PolicyNamed, LockedPolicy
  <2>2. r1 \in Rules(A)
    BY <1>6
  <2> HIDE DEF p, r1
  <2>3. IsPolicy(p, A)
    BY <1>5, <1>6, <2>1, <2>2 DEF IsPolicy
  <2> QED BY <1>1, <2>3 DEF p
<1> QED BY <1>8, <1>9, <1>10, <1>11

\* What the shipped files are documented to decide for an ordinary request over the
\* challenge threshold.
LEMMA NoRuleMixes ==
  ASSUME NEW n \in {"default", "strict"}, NEW j \in 1..8
  PROVE  ~Mixes(PolicyNamed(n).rules[j].match)
<1>1. \A K, act : ~Mixes(Rule(When(K), act).match)
  BY DEF Mixes, Rule, When
<1>2. \A d, act : ~Mixes(Rule(Expr(d), act).match)
  BY DEF Mixes, Rule, Expr
<1>3. \A v : ~Mixes(Probe(v).match)
  BY <1>1, Zenon DEF Probe
<1>4. ~Mixes(Token.match) /\ ~Mixes(Assets.match)
  BY <1>1, Zenon DEF Token, Assets
<1>5. j = 1 \/ j = 2 \/ j = 3 \/ j = 4 \/ j = 5 \/ j = 6 \/ j = 7 \/ j = 8
  OBVIOUS
<1>6. CASE n = "default"
  <2> DEFINE rule == DefaultPolicy.rules[j]
  <2>1. \/ \E v : rule = Probe(v)
        \/ \E K, act : rule = Rule(When(K), act)
        \/ \E d, act : rule = Rule(Expr(d), act)
        \/ rule = Token \/ rule = Assets
    BY <1>5 DEF DefaultPolicy
  <2> HIDE DEF rule
  <2>2. ~Mixes(rule.match)
    BY <1>1, <1>2, <1>3, <1>4, <2>1, Zenon
  <2> QED BY <1>6, <2>2 DEF PolicyNamed, rule
<1>7. CASE n = "strict"
  <2> DEFINE rule == StrictPolicy.rules[j]
  <2>1. \/ \E v : rule = Probe(v)
        \/ \E d, act : rule = Rule(Expr(d), act)
        \/ rule = Token \/ rule = Assets
    BY <1>5 DEF StrictPolicy
  <2> HIDE DEF rule
  <2>2. ~Mixes(rule.match)
    BY <1>2, <1>3, <1>4, <2>1, Zenon
  <2> QED BY <1>7, <2>2 DEF PolicyNamed, rule
<1> QED BY <1>6, <1>7

LEMMA ScoreRule ==
  ASSUME NEW m, NEW act, NEW ctx
  PROVE  /\ Result(Rule(Expr(<< {Score(">=", m)} >>), act), ctx)
              = IF ctx.score >= m THEN "true" ELSE "false"
         /\ Rule(Expr(<< {Score(">=", m)} >>), act).action = act
<1> DEFINE a == Score(">=", m)
<1>1. a.key \in AtomKeys /\ Atom(a, ctx) = Truth(ctx.score >= m)
  BY AtomsAre, Zenon
<1> HIDE DEF a
<1>2. Says(Rule(Expr(<<{a}>>), act), act, ctx, Atom(a, ctx))
  BY <1>1, OneAtom, Zenon
<1> QED BY <1>1, <1>2, Zenon DEF a, Says, Truth

DocumentedVerdict(n, S, T) ==
  IF "ja3_known_scraper" \in S \/ (n = "default" /\ T >= 80) THEN "DENY" ELSE "CHALLENGE"
LEMMA DocumentedShipped ==
  ASSUME NEW n \in {"default", "strict"}, NEW S \in SUBSET Names, NEW r, r.path = "/page",
         NEW ctx, Seen(ctx, r, FALSE, S), NEW T \in Int, T = Clamp(Points(S)),
         T >= PolicyNamed(n).challenge
  PROVE  ActionVerdict(FirstMatch(PolicyNamed(n), ctx)) = DocumentedVerdict(n, S, T)
<1> USE DEF DocumentedVerdict
<1> DEFINE p == PolicyNamed(n)
           R(i) == Result(p.rules[i], ctx)
           F(k) == FirstMatch(p, ctx) = p.rules[k].action
<1>1. PICK A : AreAtoms(A) /\ IsPolicy(p, A)
  BY FilesArePolicies
<1>2. ASSUME DOMAIN p.rules = 1..8, NEW k \in 1..8, R(k) = "true",
             \A j \in 1..8 : j < k => R(j) # "true"
      PROVE  F(k)
  <2>1. \A j \in 1..8 : ~Mixes(p.rules[j].match)
    BY NoRuleMixes, Zenon
  <2> HIDE DEF p
  <2>2. HoldsFirst(p, 8, ctx, k)
    BY <1>2, <2>1 DEF HoldsFirst
  <2> QED BY <1>1, <2>2, FirstMatchAt, Zenon
<1>3. ctx.score = T
  BY Zenon DEF Seen
<1>4. ActionVerdict("deny") = "DENY" /\ ActionVerdict("challenge") = "CHALLENGE"
  BY DEF ActionVerdict
<1>5. \A j \in 1..8 : j = 1 \/ j = 2 \/ j = 3 \/ j = 4 \/ j = 5 \/ j = 6 \/ j = 7 \/ j = 8
  OBVIOUS
<1>6. CASE n = "default"
  <2>1. /\ p = DefaultPolicy /\ p.challenge = 40
        /\ p.rules[7] = Rule(Expr(<< {Score(">=", 80)} >>), "deny")
        /\ p.rules[8] = Rule(Expr(<< {Score(">=", 40)} >>), "challenge")
    BY <1>6 DEF PolicyNamed, DefaultPolicy
  <2>0. DefaultSays(p, ctx, r, FALSE, S)
    BY <2>1, DefaultResults, Zenon
  <2> HIDE DEF p
  <2>3. /\ R(7) = (IF T >= 80 THEN "true" ELSE "false") /\ p.rules[7].action = "deny"
        /\ R(8) = (IF T >= 40 THEN "true" ELSE "false") /\ p.rules[8].action = "challenge"
    <3>1. /\ R(7) = (IF ctx.score >= 80 THEN "true" ELSE "false")
          /\ p.rules[7].action = "deny"
      BY ONLY <2>1, ScoreRule, SMTT(60)
    <3>2. /\ R(8) = (IF ctx.score >= 40 THEN "true" ELSE "false")
          /\ p.rules[8].action = "challenge"
      BY ONLY <2>1, ScoreRule, SMTT(60)
    <3> HIDE DEF R
    <3> QED BY ONLY <1>3, <3>1, <3>2, SMTT(60)
  <2>4. /\ DOMAIN p.rules = 1..8
        /\ R(1) # "true" /\ R(2) # "true" /\ R(3) # "true" /\ R(4) # "true" /\ R(5) # "true"
        /\ R(6) = (IF "ja3_known_scraper" \in S THEN "true" ELSE "error")
        /\ p.rules[6].action = "deny"
    <3>1. /\ R(1) = (IF r.path = "/healthz" THEN "true" ELSE "false")
          /\ R(2) = (IF r.path = "/readyz" THEN "true" ELSE "false")
          /\ R(3) = (IF r.path = "/metrics" THEN "true" ELSE "false")
          /\ R(4) = (IF r.path = "/__as/challenge.bundle.js" THEN "true" ELSE "false")
          /\ R(5) = (IF FALSE THEN "true" ELSE "false")
          /\ R(6) = (IF "ja3_known_scraper" \in S THEN "true" ELSE "error")
          /\ p.rules[6].action = "deny" /\ DOMAIN p.rules = 1..8
      BY <2>0, Zenon DEF DefaultSays
    <3> HIDE DEF R
    <3> QED BY <3>1
  <2>5. T >= 40
    BY <2>1 DEF p
  <2> HIDE DEF R, F
  <2>6. CASE "ja3_known_scraper" \in S
    <3>1. R(6) = "true" /\ \A j \in 1..8 : j < 6 => R(j) # "true"
      BY <1>5, <2>4, <2>6
    <3>2. F(6)
      BY <1>2, <2>4, <3>1
    <3> QED BY <1>4, <2>4, <2>6, <3>2, Zenon DEF F, p
  <2>7. CASE "ja3_known_scraper" \notin S /\ T >= 80
    <3>1. R(7) = "true" /\ \A j \in 1..8 : j < 7 => R(j) # "true"
      BY <1>5, <2>3, <2>4, <2>7
    <3>2. F(7)
      BY <1>2, <2>4, <3>1
    <3> QED BY <1>4, <1>6, <2>3, <2>7, <3>2, Zenon DEF F, p
  <2>8. CASE "ja3_known_scraper" \notin S /\ ~(T >= 80)
    <3>1. R(8) = "true" /\ \A j \in 1..8 : j < 8 => R(j) # "true"
      BY <1>5, <2>3, <2>4, <2>5, <2>8
    <3>2. F(8)
      BY <1>2, <2>4, <3>1
    <3> QED BY <1>4, <2>3, <2>8, <3>2, Zenon DEF F, p
  <2> QED BY <2>6, <2>7, <2>8
<1>7. CASE n = "strict"
  <2>1. /\ p = StrictPolicy /\ p.challenge = 10
        /\ p.rules[7] = Rule(Expr(<< {Score(">=", 10)} >>), "challenge")
    BY <1>7 DEF PolicyNamed, StrictPolicy
  <2>0. StrictSays(p, ctx, r, FALSE, S)
    BY <2>1, StrictResults, Zenon
  <2> HIDE DEF p
  <2>3. R(7) = (IF T >= 10 THEN "true" ELSE "false") /\ p.rules[7].action = "challenge"
    <3>1. /\ R(7) = (IF ctx.score >= 10 THEN "true" ELSE "false")
          /\ p.rules[7].action = "challenge"
      BY ONLY <2>1, ScoreRule, SMTT(60)
    <3> HIDE DEF R
    <3> QED BY ONLY <1>3, <3>1, SMTT(60)
  <2>4. /\ DOMAIN p.rules = 1..8
        /\ R(1) # "true" /\ R(2) # "true" /\ R(3) # "true" /\ R(4) # "true" /\ R(5) # "true"
        /\ R(6) = (IF "ja3_known_scraper" \in S THEN "true" ELSE "error")
        /\ p.rules[6].action = "deny"
    <3>1. /\ R(1) = (IF r.path = "/healthz" THEN "true" ELSE "false")
          /\ R(2) = (IF r.path = "/readyz" THEN "true" ELSE "false")
          /\ R(3) = (IF r.path = "/__as/challenge.bundle.js" THEN "true" ELSE "false")
          /\ R(4) = (IF FALSE THEN "true" ELSE "false")
          /\ R(5) = "false"
          /\ R(6) = (IF "ja3_known_scraper" \in S THEN "true" ELSE "error")
          /\ p.rules[6].action = "deny" /\ DOMAIN p.rules = 1..8
      BY <2>0, Zenon DEF StrictSays
    <3> HIDE DEF R
    <3> QED BY <3>1
  <2>5. T >= 10
    BY <2>1 DEF p
  <2> HIDE DEF R, F
  <2>6. CASE "ja3_known_scraper" \in S
    <3>1. R(6) = "true" /\ \A j \in 1..8 : j < 6 => R(j) # "true"
      BY <1>5, <2>4, <2>6
    <3>2. F(6)
      BY <1>2, <2>4, <3>1
    <3> QED BY <1>4, <2>4, <2>6, <3>2, Zenon DEF F, p
  <2>7. CASE "ja3_known_scraper" \notin S
    <3>1. R(7) = "true" /\ \A j \in 1..8 : j < 7 => R(j) # "true"
      BY <1>5, <2>3, <2>4, <2>5, <2>7
    <3>2. F(7)
      BY <1>2, <2>4, <3>1
    <3> QED BY <1>4, <1>7, <2>3, <2>7, <3>2 DEF F, p
  <2> QED BY <2>6, <2>7
<1> QED BY <1>6, <1>7

-----------------------------------------------------------------------------
(***************************************************************************)
(* The decisions of MCDecision. The addresses' signals are the IP          *)
(* collector's, and what fires is among the names with a weight.           *)
(***************************************************************************)
LEMMA AddressSignals ==
  /\ \A a \in DOMAIN Addresses : FromAddress(a) \in SUBSET IpSignals
  /\ \A a \in {"tor", "ovhTor"} : "tor_exit" \in FromAddress(a)
  /\ \A a \in {"aws", "ovhTor"} : "datacenter_ip" \in FromAddress(a)
<1> DEFINE t == [name |-> "tor_exit", score |-> 50]
           d == [name |-> "datacenter_ip", score |-> 30]
           Of(s) == {s[i].name : i \in DOMAIN s}
<1>1. ASSUME NEW a
      PROVE  Of(Ip!Collect(a))
               = IF ~a.parses \/ a.local THEN {}
                 ELSE (IF a.tor THEN {"tor_exit"} ELSE {})
                      \cup (IF Ip!Categorize(Ip!LookupASN(a)) = "datacenter" THEN {"datacenter_ip"} ELSE {})
  <2> DEFINE dc == Ip!Categorize(Ip!LookupASN(a)) = "datacenter"
  <2>1. Ip!Collect(a) = IF ~a.parses \/ a.local THEN <<>>
                        ELSE (IF a.tor THEN <<t>> ELSE <<>>) \o (IF dc THEN <<d>> ELSE <<>>)
    BY DEF Ip!Collect
  <2> HIDE DEF dc
  <2>2. t.name = "tor_exit" /\ d.name = "datacenter_ip"
    OBVIOUS
  <2> HIDE DEF t, d
  <2>3. Of(<<>> \o <<>>) = {} /\ Of(<<>>) = {}
    OBVIOUS
  <2>4. Of(<<t>> \o <<>>) = {"tor_exit"}
    BY <2>2
  <2>5. Of(<<>> \o <<d>>) = {"datacenter_ip"}
    BY <2>2
  <2>6. Of(<<t>> \o <<d>>) = {"tor_exit", "datacenter_ip"}
    <3> DEFINE s == <<t>> \o <<d>>
    <3>1. DOMAIN s = {1, 2} /\ s[1] = t /\ s[2] = d
      OBVIOUS
    <3> HIDE DEF s
    <3>2. Of(s) = {"tor_exit", "datacenter_ip"}
      BY <2>2, <3>1
    <3> QED BY <3>2, Zenon DEF s
  <2> HIDE DEF Of
  <2> QED BY <2>1, <2>3, <2>4, <2>5, <2>6 DEF dc
<1>2. \A a \in DOMAIN Addresses : FromAddress(a) = Of(Ip!Collect(Addresses[a]))
  BY DEF FromAddress
<1> HIDE DEF Of
<1>3. \A a \in DOMAIN Addresses : FromAddress(a) \in SUBSET IpSignals
  BY <1>1, <1>2 DEF IpSignals
<1>4. /\ "tor" \in DOMAIN Addresses /\ "ovhTor" \in DOMAIN Addresses /\ "aws" \in DOMAIN Addresses
      /\ Addresses["tor"] = Address(TRUE, FALSE, TRUE, 0, "")
      /\ Addresses["ovhTor"] = Address(TRUE, FALSE, TRUE, 0, "91.121.0.0/16")
      /\ Addresses["aws"] = Address(TRUE, FALSE, FALSE, 0, "100.24.0.0/13")
  BY DEF Addresses
<1>5. /\ Addresses["tor"].parses /\ ~Addresses["tor"].local /\ Addresses["tor"].tor
      /\ Addresses["ovhTor"].parses /\ ~Addresses["ovhTor"].local /\ Addresses["ovhTor"].tor
      /\ Addresses["ovhTor"].database = 0 /\ Addresses["ovhTor"].prefix = "91.121.0.0/16"
      /\ Addresses["aws"].parses /\ ~Addresses["aws"].local
      /\ Addresses["aws"].database = 0 /\ Addresses["aws"].prefix = "100.24.0.0/13"
  <2>1. Addresses["tor"].parses = TRUE /\ Addresses["tor"].local = FALSE /\ Addresses["tor"].tor = TRUE
    <3> DEFINE r == Addresses["tor"]
               p == ""
    <3>1. r = Address(TRUE, FALSE, TRUE, 0, p)
      BY <1>4, Zenon
    <3> HIDE DEF r, p
    <3>2. r.parses = TRUE /\ r.local = FALSE /\ r.tor = TRUE
      BY <3>1, Zenon DEF Address
    <3> QED BY <3>2, Zenon DEF r, p
  <2>2. /\ Addresses["ovhTor"].parses = TRUE /\ Addresses["ovhTor"].local = FALSE
        /\ Addresses["ovhTor"].tor = TRUE /\ Addresses["ovhTor"].database = 0
        /\ Addresses["ovhTor"].prefix = "91.121.0.0/16"
    <3> DEFINE r == Addresses["ovhTor"]
               p == "91.121.0.0/16"
    <3>1. r = Address(TRUE, FALSE, TRUE, 0, p)
      BY <1>4, Zenon
    <3> HIDE DEF r, p
    <3>2. r.parses = TRUE /\ r.local = FALSE /\ r.tor = TRUE /\ r.database = 0 /\ r.prefix = p
      BY <3>1, Zenon DEF Address
    <3> QED BY <3>2, Zenon DEF r, p
  <2>3. /\ Addresses["aws"].parses = TRUE /\ Addresses["aws"].local = FALSE
        /\ Addresses["aws"].database = 0 /\ Addresses["aws"].prefix = "100.24.0.0/13"
    <3> DEFINE r == Addresses["aws"]
               p == "100.24.0.0/13"
    <3>1. r = Address(TRUE, FALSE, FALSE, 0, p)
      BY <1>4, Zenon
    <3> HIDE DEF r, p
    <3>2. r.parses = TRUE /\ r.local = FALSE /\ r.tor = FALSE /\ r.database = 0 /\ r.prefix = p
      BY <3>1, Zenon DEF Address
    <3> QED BY <3>2, Zenon DEF r, p
  <2> QED BY <2>1, <2>2, <2>3, Zenon
<1>6. Ip!Categorize(Ip!LookupASN(Addresses["aws"])) = "datacenter"
  <2> DEFINE a == Addresses["aws"]
             hit == {e \in Ip!FallbackTable : a.prefix \in e[2]}
  <2>1. a.database = 0 /\ a.prefix = "100.24.0.0/13"
    BY <1>4, <1>5, Zenon
  <2> HIDE DEF a
  <2>2. <<39111, {"100.24.0.0/13"}>> \in Ip!FallbackTable
    BY DEF Ip!FallbackTable
  <2>3. \A e \in Ip!FallbackTable : "100.24.0.0/13" \in e[2] => e[1] = 39111
    BY SMTT(60) DEF Ip!FallbackTable
  <2>4. hit # {} /\ \A e \in hit : e[1] = 39111
    BY <2>1, <2>2, <2>3
  <2> HIDE DEF hit
  <2>5. Ip!LookupASN(a) = 39111
    <3>1. Ip!LookupASN(a) = (CHOOSE e \in hit : TRUE)[1]
      BY <2>1, <2>4 DEF Ip!LookupASN, Ip!LookupFallback, hit
    <3> QED BY <2>4, <3>1
  <2> QED BY <2>5 DEF Ip!Categorize, Ip!Datacenters, a
<1>7. Ip!Categorize(Ip!LookupASN(Addresses["ovhTor"])) = "datacenter"
  <2> DEFINE a == Addresses["ovhTor"]
             hit == {e \in Ip!FallbackTable : a.prefix \in e[2]}
  <2>1. a.database = 0 /\ a.prefix = "91.121.0.0/16"
    BY <1>4, <1>5, Zenon
  <2> HIDE DEF a
  <2>2. <<16276, {"5.135.0.0/16", "91.121.0.0/16"}>> \in Ip!FallbackTable
    BY DEF Ip!FallbackTable
  <2>3. \A e \in Ip!FallbackTable : "91.121.0.0/16" \in e[2] => e[1] = 16276
    BY SMTT(60) DEF Ip!FallbackTable
  <2>4. hit # {} /\ \A e \in hit : e[1] = 16276
    BY <2>1, <2>2, <2>3
  <2> HIDE DEF hit
  <2>5. Ip!LookupASN(a) = 16276
    <3>1. Ip!LookupASN(a) = (CHOOSE e \in hit : TRUE)[1]
      BY <2>1, <2>4 DEF Ip!LookupASN, Ip!LookupFallback, hit
    <3> QED BY <2>4, <3>1
  <2> QED BY <2>5 DEF Ip!Categorize, Ip!Datacenters, a
<1>8. ASSUME NEW a \in {"tor", "ovhTor"} PROVE "tor_exit" \in FromAddress(a)
  <2> DEFINE b == Addresses[a]
  <2>1. b.parses /\ ~b.local /\ b.tor
    BY <1>5
  <2> HIDE DEF b
  <2>2. "tor_exit" \in Of(Ip!Collect(b))
    BY <1>1, <2>1
  <2> QED BY <1>2, <1>4, <2>2, Zenon DEF b
<1>9. ASSUME NEW a \in {"aws", "ovhTor"} PROVE "datacenter_ip" \in FromAddress(a)
  <2> DEFINE b == Addresses[a]
  <2>1. b.parses /\ ~b.local /\ Ip!Categorize(Ip!LookupASN(b)) = "datacenter"
    BY <1>4, <1>5, <1>6, <1>7, Zenon
  <2> HIDE DEF b
  <2>2. "datacenter_ip" \in Of(Ip!Collect(b))
    BY <1>1, <2>1
  <2> QED BY <1>2, <1>4, <2>2, ZenonT(40) DEF b
<1> QED BY <1>3, <1>8, <1>9

DInv ==
  /\ name \in PolicyNames /\ token \in BOOLEAN
  /\ req \in [path : Paths, ja3 : {"", "curl"}, address : DOMAIN Addresses]
  /\ fired \in SUBSET Names /\ FromAddress(req.address) \subseteq fired
  /\ verdict \in {"", Verdict(fired, token)}

LEMMA DecisionsAre == Spec => []DInv
<1>1. Init => DInv
  <2> SUFFICES ASSUME Init PROVE DInv
    OBVIOUS
  <2>1. PICK S \in SUBSET (Names \ IpSignals) : fired = S \cup FromAddress(req.address)
    BY Zenon DEF Init
  <2>2. req \in [path : Paths, ja3 : {"", "curl"}, address : DOMAIN Addresses]
    BY Zenon DEF Init
  <2>3. FromAddress(req.address) \in SUBSET IpSignals /\ IpSignals \subseteq Names
    BY <2>2, AddressSignals, NamesAre, Zenon DEF IpSignals
  <2>4. fired \in SUBSET Names /\ FromAddress(req.address) \subseteq fired
    BY <2>1, <2>3
  <2> QED BY <2>2, <2>4, Zenon DEF Init, DInv
<1>2. DInv /\ [Decide]_vars => DInv'
  <2> SUFFICES ASSUME DInv, [Decide]_vars PROVE DInv'
    OBVIOUS
  <2>1. CASE Decide
    <3>1. Verdict(fired, token)' = Verdict(fired, token)
      BY <2>1, Zenon DEF Decide, Verdict, Config
    <3> QED BY <2>1, <3>1, Zenon DEF Decide, DInv
  <2>2. CASE UNCHANGED vars
    <3>1. Verdict(fired, token)' = Verdict(fired, token)
      BY <2>2 DEF vars, Verdict, Config
    <3> QED BY <2>2, <3>1, Zenon DEF vars, DInv
  <2> QED BY <2>1, <2>2
<1> QED BY <1>1, <1>2, PTL DEF Spec

\* A decided request has the outcome of its policy.
LEMMA DecidedIs ==
  ASSUME DInv
  PROVE  /\ name \in {"default", "strict", "mixed", "locked"} /\ Config.weights = Weights
         /\ Decided => verdict = Outcome(name, fired, req, token)
         /\ \A S \in SUBSET Names : Verdict(S, token) = Outcome(name, S, req, token)
         /\ Total(Weighted(Report(fired), Config)) = Clamp(Points(fired))
<1>1. name \in {"default", "strict", "mixed", "locked"} /\ fired \in SUBSET Names /\ token \in BOOLEAN
  BY PolicyAssumption, Zenon DEF DInv
<1>2. Config.weights = Weights
  BY <1>1 DEF Config, PolicyNamed, DefaultPolicy, StrictPolicy, MixedPolicy, LockedPolicy
<1>3. ASSUME NEW S \in SUBSET Names PROVE Verdict(S, token) = Outcome(name, S, req, token)
  BY <1>1, OutcomeIs DEF Verdict, Config
<1>4. Decided => verdict = Verdict(fired, token)
  BY Zenon DEF DInv, Decided
<1>5. Total(Weighted(Report(fired), Config)) = Clamp(Points(fired))
  BY <1>1, <1>2, WeightedReport, ReportedTotal
<1> QED BY <1>1, <1>2, <1>3, <1>4, <1>5

\* A pass-token holder is let through under the shipped files, whatever fired
\* (decision.Combine, and the allow-valid-token rule ahead of any that can fail).
THEOREM TokensPass == Spec => []TokenAlwaysPasses
<1>1. DInv => TokenAlwaysPasses
  <2> SUFFICES ASSUME DInv, Decided, Shipped, token PROVE verdict = "ALLOW"
    BY DEF TokenAlwaysPasses
  <2> QED BY DecidedIs DEF Shipped, Outcome
<1> QED BY <1>1, DecisionsAre, PTL

\* For an ordinary request under the shipped files whose total reaches the challenge
\* threshold, the rule that fails changes the documented verdict in one case only,
\* from a challenge to a denial under strict.yaml, and never to ALLOW
\* (decision.Combine, policy.Evaluate).
THEOREM HighScoresAreStopped == Spec => []HighScoreNeverAllowed
<1>1. DInv => HighScoreNeverAllowed
  <2> DEFINE weighted == Weighted(Report(fired), Config)
             total == Total(weighted)
             ctx == Context(req, token, weighted)
             documented == ActionVerdict(FirstMatch(Config, ctx))
             P == Clamp(Points(fired))
             scraper == "ja3_known_scraper" \in fired
  <2> SUFFICES ASSUME DInv, Decided, Shipped, Ordinary, total >= Config.challenge
               PROVE  /\ verdict # "ALLOW"
                      /\ \/ verdict = documented
                         \/ /\ name = "strict" /\ total >= Config.deny
                            /\ documented = "CHALLENGE" /\ verdict = "DENY"
    BY DEF HighScoreNeverAllowed
  <2>1. total = P /\ verdict = Outcome(name, fired, req, token) /\ P \in 0..100
    <3>1. Points(fired) \in Nat
      BY DEF Points
    <3>2. P \in 0..100
      BY <3>1 DEF Clamp
    <3> QED BY <3>2, DecidedIs
  <2>2. ~token /\ req.path = "/page" /\ "/page" \notin DefaultOpen /\ "/page" \notin StrictOpen
    BY DEF Ordinary, DefaultOpen, StrictOpen
  <2>3. Seen(ctx, req, FALSE, fired)
    <3>1. fired \in SUBSET Names /\ Config.weights = Weights /\ token = FALSE
      <4>1. fired \in SUBSET Names /\ token = FALSE
        BY <2>2, Zenon DEF DInv
      <4> QED BY <4>1, DecidedIs, Zenon
    <3>2. weighted = Reported(fired)
      BY <3>1, WeightedReport, Zenon
    <3>3. Seen(Context(req, FALSE, Reported(fired)), req, FALSE, fired)
      BY <3>1, SeenReport, Zenon
    <3> HIDE DEF weighted
    <3> QED BY <3>1, <3>2, <3>3, Zenon
  <2> HIDE DEF weighted
  <2>4. documented = DocumentedVerdict(name, fired, P)
    <3>1. fired \in SUBSET Names /\ name \in {"default", "strict"}
      BY Zenon DEF DInv, Shipped
    <3>2. P \in Int
      BY <2>1
    <3>3. P >= PolicyNamed(name).challenge
      BY <2>1, Zenon DEF Config
    <3>4. P = Clamp(Points(fired)) /\ req.path = "/page"
      BY <2>2, Zenon
    <3> HIDE DEF ctx, P
    <3>5. ActionVerdict(FirstMatch(PolicyNamed(name), ctx)) = DocumentedVerdict(name, fired, P)
      BY ONLY <2>3, <3>1, <3>2, <3>3, <3>4, DocumentedShipped, Zenon
    <3> QED BY <3>5, Zenon DEF Config
  <2> HIDE DEF total, documented, scraper, P
  <2>5. CASE name = "default"
    <3>1. Config.deny = 80 /\ Config.challenge = 40
      BY <2>5 DEF Config, PolicyNamed, DefaultPolicy
    <3>2. verdict = IF scraper THEN "DENY" ELSE IF P >= 80 THEN "DENY"
                    ELSE IF P >= 40 THEN "CHALLENGE" ELSE "ALLOW"
      BY <2>1, <2>2, <2>5, Zenon DEF Outcome, scraper, P
    <3> QED BY <2>1, <2>4, <2>5, <3>1, <3>2 DEF DocumentedVerdict, scraper
  <2>6. CASE name = "strict"
    <3>1. Config.deny = 50 /\ Config.challenge = 10
      BY <2>6 DEF Config, PolicyNamed, StrictPolicy
    <3>2. verdict = IF scraper THEN "DENY" ELSE IF P >= 50 THEN "DENY"
                    ELSE IF P >= 10 THEN "CHALLENGE" ELSE "ALLOW"
      BY <2>1, <2>2, <2>6, Zenon DEF Outcome, scraper, P
    <3> QED BY <2>1, <2>4, <2>6, <3>1, <3>2 DEF DocumentedVerdict, scraper
  <2> QED BY <2>5, <2>6 DEF Shipped
<1> QED BY <1>1, DecisionsAre, PTL

\* Under the shipped files an ordinary request from a Tor exit is never let through,
\* and under strict.yaml none from a datacenter: the weight of the address's signal
\* alone reaches the threshold (ip.Collect, decision.Combine).
THEOREM NetworksAreStopped == Spec => []NetworkNeverAllowed
<1>1. DInv => NetworkNeverAllowed
  <2> SUFFICES ASSUME DInv, Decided, Ordinary
               PROVE  /\ Shipped /\ req.address \in {"tor", "ovhTor"} => verdict # "ALLOW"
                      /\ name = "strict" /\ req.address \in {"aws", "ovhTor"} => verdict # "ALLOW"
    BY DEF NetworkNeverAllowed
  <2>1. verdict = Outcome(name, fired, req, token)
    BY DecidedIs
  <2>2. ~token /\ req.path = "/page" /\ "/page" \notin DefaultOpen /\ "/page" \notin StrictOpen
    BY DEF Ordinary, DefaultOpen, StrictOpen
  <2>3. req.address \in {"tor", "ovhTor"} => Clamp(Points(fired)) >= 40
    <3>1. req.address \in {"tor", "ovhTor"} => "tor_exit" \in fired
      BY AddressSignals, Zenon DEF DInv
    <3>2. "tor_exit" \in fired => Clamp(Points(fired)) >= 40
      BY DEF Clamp, Points
    <3> QED BY <3>1, <3>2
  <2>4. req.address \in {"tor", "ovhTor"} => Clamp(Points(fired)) >= 10
    <3>1. req.address \in {"tor", "ovhTor"} => "tor_exit" \in fired
      BY AddressSignals, Zenon DEF DInv
    <3>2. "tor_exit" \in fired => Clamp(Points(fired)) >= 10
      BY DEF Clamp, Points
    <3> QED BY <3>1, <3>2
  <2>5. req.address \in {"aws", "ovhTor"} => Clamp(Points(fired)) >= 10
    <3>1. req.address \in {"aws", "ovhTor"} => "datacenter_ip" \in fired
      BY AddressSignals, Zenon DEF DInv
    <3>2. "datacenter_ip" \in fired => Clamp(Points(fired)) >= 10
      BY DEF Clamp, Points
    <3> QED BY <3>1, <3>2
  <2>6. CASE name = "default"
    BY <2>1, <2>2, <2>3, <2>6 DEF Outcome
  <2>7. CASE name = "strict"
    BY <2>1, <2>2, <2>4, <2>5, <2>7 DEF Outcome
  <2> QED BY <2>6, <2>7 DEF Shipped
<1> QED BY <1>1, DecisionsAre, PTL

\* One more signal never earns a milder verdict, under any of the files
\* (decision.Combine).
THEOREM EvidenceOnlyHurts == Spec => []EvidenceNeverHelps
<1>1. DInv => EvidenceNeverHelps
  <2> SUFFICES ASSUME DInv, Decided, NEW n \in Names \ fired
               PROVE  Severity(Verdict(fired \cup {n}, token)) >= Severity(verdict)
    BY DEF EvidenceNeverHelps
  <2>1. fired \in SUBSET Names /\ fired \cup {n} \in SUBSET Names /\ token \in BOOLEAN
    BY Zenon DEF DInv
  <2>2. /\ verdict = Outcome(name, fired, req, token)
        /\ Verdict(fired \cup {n}, token) = Outcome(name, fired \cup {n}, req, token)
        /\ name \in {"default", "strict", "mixed", "locked"}
    BY <2>1, DecidedIs
  <2> QED BY <2>1, <2>2, OutcomeGrows
<1> QED BY <1>1, DecisionsAre, PTL

\* CombineAsDocumented for the requests and the files of MCDecision.
THEOREM DecidedAsDocumented == Spec => []DocumentedUnlessExcepted
<1>1. DInv => DocumentedUnlessExcepted
  <2> DEFINE weighted == Weighted(Report(fired), Config)
             ctx == Context(req, token, weighted)
  <2> SUFFICES ASSUME DInv, Decided, ~(token /\ Total(weighted) < DenyAt(Config)),
                      ~Fails(Config, ctx), ~MixesAhead(Config, ctx)
               PROVE  verdict = ActionVerdict(FirstMatch(Config, ctx))
    BY Zenon DEF DocumentedUnlessExcepted, Fails, MixesAhead, Mixes, Ahead, Hits, Result
  <2>1. PICK A : AreAtoms(A) /\ IsPolicy(Config, A)
    BY DecidedIs, FilesArePolicies DEF Config
  <2>2. verdict = Combine(Report(fired), Config, req, token)
    BY Zenon DEF DInv, Decided, Verdict
  <2>3. Combine(Report(fired), Config, req, token) = ActionVerdict(FirstMatch(Config, ctx))
    BY <2>1, CombineAsDocumented
  <2> QED BY <2>2, <2>3
<1> QED BY <1>1, DecisionsAre, PTL
=============================================================================
