----------------------------- MODULE MCPipeline -----------------------------
(* Two callers over a cache of one entry: two inputs that share a key and  *)
(* differ outside it, and one with a token, whose key is another one.      *)
EXTENDS Pipeline, TLC

CONSTANTS k1, get, post

MCInputs == {[key |-> k1, token |-> FALSE, rest |-> get],
             [key |-> k1, token |-> FALSE, rest |-> post],
             [key |-> k1, token |-> TRUE,  rest |-> get]}
=============================================================================
