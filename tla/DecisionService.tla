-------------------------- MODULE DecisionService --------------------------
(* What the decision pipeline promises its callers: a request is answered  *)
(* with a decision evaluated for it, or with one that was stored for the   *)
(* same cache key and token state at most TTL ago. Stored decisions may be *)
(* forgotten at any moment.                                                *)
EXTENDS Naturals, Sequences

CONSTANTS Requests,      \* the concurrent callers of Decide
          Inputs,        \* what Decide is called with: [key, token, rest]
          Collectors,    \* how many signal collectors there are
          TTL, MaxTime,  \* life of a stored decision; bound of the clock
          NoDecision

VARIABLES now, held, asked, answer
vars == <<now, held, asked, answer>>

\* The part of an input that the documentation lets decisions share.
Shared(i) == <<i.key, i.token>>

Times == 0..MaxTime
\* A decision is represented by what it was made from: the input, the
\* collectors' reports in the order Combine sees them, and when it was stored.
Decisions == [input : Inputs, reports : [1..Collectors -> 1..Collectors], storedAt : Times]
InOrder == [c \in 1..Collectors |-> c]

Init == /\ now = 0 /\ held = {}
        /\ asked \in [Requests -> Inputs]
        /\ answer = [r \in Requests |-> NoDecision]

Tick == /\ now < MaxTime /\ now' = now + 1
        /\ UNCHANGED <<held, asked, answer>>

Ask(r) == /\ asked' \in [Requests -> Inputs]
          /\ \A q \in Requests \ {r} : asked'[q] = asked[q]
          /\ answer' = [answer EXCEPT ![r] = NoDecision]
          /\ held' \subseteq held
          /\ UNCHANGED now

Evaluate(r) ==
  LET d == [input |-> asked[r], reports |-> InOrder, storedAt |-> now]
  IN  /\ answer[r] = NoDecision
      /\ answer' = [answer EXCEPT ![r] = d]
      /\ held' \subseteq held \cup {d}
      /\ UNCHANGED <<now, asked>>

Serve(r) == \E d \in held :
  /\ answer[r] = NoDecision
  /\ Shared(d.input) = Shared(asked[r]) /\ now <= d.storedAt + TTL
  /\ answer' = [answer EXCEPT ![r] = d]
  /\ held' \subseteq held
  /\ UNCHANGED <<now, asked>>

Forget == /\ held' \subseteq held
          /\ UNCHANGED <<now, asked, answer>>

Next == \/ Tick \/ Forget
        \/ \E r \in Requests : Ask(r) \/ Evaluate(r) \/ Serve(r)

Spec == Init /\ [][Next]_vars
=============================================================================
