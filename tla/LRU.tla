-------------------------------- MODULE LRU --------------------------------
(* The key order of a hashicorp/golang-lru cache: a sequence of distinct   *)
(* keys, least recently used first. Every call of that library holds the   *)
(* cache's lock, so each operator below is one atomic step.                *)
EXTENDS Naturals, Sequences, Functions

\* The order without key k: the library unlinks the element from its list.
Without(s, k) ==
  IF k \in Range(s)
  THEN LET p == CHOOSE i \in DOMAIN s : s[i] = k
       IN  [j \in 1..(Len(s) - 1) |-> IF j < p THEN s[j] ELSE s[j + 1]]
  ELSE s

\* Get: a hit makes the key the most recently used one, a miss changes nothing.
Touch(s, k) == IF k \in Range(s) THEN Append(Without(s, k), k) ELSE s

\* Add: the key becomes the most recently used; past the capacity the least
\* recently used key is evicted.
AddKey(s, k, capacity) ==
  LET t == Append(Without(s, k), k)
  IN  IF Len(t) > capacity THEN Tail(t) ELSE t

Distinct(s) == \A i, j \in DOMAIN s : s[i] = s[j] => i = j
=============================================================================
