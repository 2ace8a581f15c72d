----------------------------- MODULE ListProofs -----------------------------
(* Lemmas about lists that several proofs rest on: what the operators of an *)
(* LRU order preserve, for every key set and every capacity, and that a     *)
(* recursion along a sequence of any length has the values its steps give.  *)
EXTENDS LRU, FiniteSetTheorems, WellFoundedInduction, TLAPS

\* Unlinking a key from an order of distinct keys leaves an order of distinct
\* keys, one shorter when the key was there, holding exactly the other keys.
LEMMA WithoutLemma ==
  ASSUME NEW K, NEW s \in Seq(K), NEW k \in K, Distinct(s)
  PROVE  /\ Without(s, k) \in Seq(K)
         /\ Distinct(Without(s, k))
         /\ Range(Without(s, k)) = Range(s) \ {k}
         /\ Len(Without(s, k)) = IF k \in Range(s) THEN Len(s) - 1 ELSE Len(s)
<1>1. CASE k \notin Range(s)
  BY <1>1 DEF Without, Range, Distinct
<1>2. CASE k \in Range(s)
  <2> DEFINE p == CHOOSE i \in DOMAIN s : s[i] = k
             w == [j \in 1..(Len(s) - 1) |-> IF j < p THEN s[j] ELSE s[j + 1]]
  <2>1. p \in 1..Len(s) /\ s[p] = k
    BY <1>2 DEF Range
  <2>2. Without(s, k) = w
    BY <1>2 DEF Without
  <2> HIDE DEF p
  <2>3. Len(s) - 1 \in Nat /\ Len(s) \in Nat
    BY <2>1
  <2>4. \A j \in 1..(Len(s) - 1) : s[j] \in K /\ s[j + 1] \in K
    BY <2>3
  <2>5. w \in Seq(K) /\ Len(w) = Len(s) - 1
    BY <2>3, <2>4
  <2>6. Distinct(w)
    <3> DEFINE at(j) == IF j < p THEN j ELSE j + 1
    <3>1. ASSUME NEW j \in 1..(Len(s) - 1) PROVE at(j) \in 1..Len(s) /\ w[j] = s[at(j)]
      BY <2>1, <2>3
    <3>2. ASSUME NEW i \in 1..(Len(s) - 1), NEW j \in 1..(Len(s) - 1), at(i) = at(j) PROVE i = j
      BY <2>1, <2>3, <3>2
    <3>3. \A i, j \in 1..Len(s) : s[i] = s[j] => i = j
      BY DEF Distinct
    <3> HIDE DEF w, at
    <3>4. \A i, j \in 1..(Len(s) - 1) : w[i] = w[j] => i = j
      BY <3>1, <3>2, <3>3, Zenon
    <3> QED BY <2>5, <3>4 DEF Distinct
  <2>7. Range(w) = Range(s) \ {k}
    <3>1. ASSUME NEW x \in Range(w) PROVE x \in Range(s) /\ x # k
      <4>1. PICK j \in 1..(Len(s) - 1) : x = w[j]
        BY <2>5 DEF Range
      <4>2. CASE j < p
        BY <4>1, <4>2, <2>1, <2>3 DEF Range, Distinct
      <4>3. CASE ~(j < p)
        BY <4>1, <4>3, <2>1, <2>3 DEF Range, Distinct
      <4> QED BY <4>2, <4>3
    <3>2. ASSUME NEW x \in Range(s), x # k PROVE x \in Range(w)
      <4>1. PICK j \in 1..Len(s) : x = s[j]
        BY DEF Range
      <4>2. CASE j < p
        <5>1. j \in 1..(Len(s) - 1) /\ w[j] = x
          BY <4>1, <4>2, <2>1, <2>3
        <5> QED BY <5>1 DEF Range
      <4>3. CASE j > p
        <5>1. j - 1 \in 1..(Len(s) - 1) /\ w[j - 1] = x
          BY <4>1, <4>3, <2>1, <2>3
        <5> QED BY <5>1 DEF Range
      <4> QED BY <4>1, <4>2, <4>3, <3>2, <2>1
    <3> QED BY <3>1, <3>2
  <2> QED BY <2>2, <2>5, <2>6, <2>7, <1>2
<1> QED BY <1>1, <1>2

\* Appending a key that is not there keeps the keys distinct.
LEMMA AppendLemma ==
  ASSUME NEW K, NEW w \in Seq(K), NEW k \in K, Distinct(w), k \notin Range(w)
  PROVE  /\ Append(w, k) \in Seq(K)
         /\ Len(Append(w, k)) = Len(w) + 1
         /\ Distinct(Append(w, k))
         /\ Range(Append(w, k)) = Range(w) \cup {k}
<1> DEFINE t == Append(w, k)
<1>1. /\ t \in Seq(K) /\ Len(t) = Len(w) + 1 /\ Len(w) \in Nat
      /\ DOMAIN t = 1..(Len(w) + 1)
      /\ \A i \in 1..Len(w) : t[i] = w[i]
      /\ t[Len(w) + 1] = k
  OBVIOUS
<1>2. \A i \in 1..Len(w) : w[i] # k /\ w[i] \in Range(w)
  BY DEF Range
<1>3. \A i, j \in 1..Len(w) : w[i] = w[j] => i = j
  BY DEF Distinct
<1> HIDE DEF t
<1>4. Distinct(t)
  BY <1>1, <1>2, <1>3 DEF Distinct
<1>5. Range(t) = Range(w) \cup {k}
  <2>1. \A i \in DOMAIN t : t[i] \in Range(w) \cup {k}
    BY <1>1, <1>2
  <2>2. \A i \in DOMAIN w : w[i] \in Range(t)
    BY <1>1 DEF Range
  <2>3. k \in Range(t)
    BY <1>1 DEF Range
  <2> QED BY <2>1, <2>2, <2>3 DEF Range
<1> QED BY <1>1, <1>4, <1>5 DEF t

\* A lookup reorders the keys and neither gains nor loses one.
LEMMA TouchLemma ==
  ASSUME NEW K, NEW s \in Seq(K), NEW k \in K, Distinct(s)
  PROVE  /\ Touch(s, k) \in Seq(K)
         /\ Distinct(Touch(s, k))
         /\ Range(Touch(s, k)) = Range(s)
         /\ Len(Touch(s, k)) = Len(s)
<1>1. CASE k \notin Range(s)
  BY <1>1 DEF Touch
<1>2. CASE k \in Range(s)
  <2> DEFINE w == Without(s, k)
  <2>1. /\ w \in Seq(K) /\ Distinct(w) /\ Range(w) = Range(s) \ {k}
        /\ Len(w) = Len(s) - 1
    BY <1>2, WithoutLemma
  <2> HIDE DEF w
  <2>2. Touch(s, k) = Append(w, k)
    BY <1>2 DEF Touch, w
  <2>3. /\ Append(w, k) \in Seq(K) /\ Len(Append(w, k)) = Len(w) + 1
        /\ Distinct(Append(w, k)) /\ Range(Append(w, k)) = Range(w) \cup {k}
    BY <2>1, AppendLemma
  <2> QED BY <1>2, <2>1, <2>2, <2>3
<1> QED BY <1>1, <1>2

\* Adding a key keeps the keys distinct and within the capacity, and brings in
\* no key but the one added.
LEMMA AddKeyLemma ==
  ASSUME NEW K, NEW s \in Seq(K), NEW k \in K, Distinct(s),
         NEW c \in Nat \ {0}, Len(s) <= c
  PROVE  /\ AddKey(s, k, c) \in Seq(K)
         /\ Distinct(AddKey(s, k, c))
         /\ Range(AddKey(s, k, c)) \subseteq Range(s) \cup {k}
         /\ Len(AddKey(s, k, c)) <= c
<1> DEFINE w == Without(s, k)
           t == Append(w, k)
<1>1. /\ w \in Seq(K) /\ Distinct(w) /\ Range(w) = Range(s) \ {k}
      /\ Len(w) = IF k \in Range(s) THEN Len(s) - 1 ELSE Len(s)
  BY WithoutLemma
<1> HIDE DEF w
<1>2. Len(w) \in Nat /\ Len(w) <= c
  BY <1>1
<1>3. /\ t \in Seq(K) /\ Len(t) = Len(w) + 1
      /\ Distinct(t) /\ Range(t) = Range(s) \cup {k}
  BY <1>1, AppendLemma
<1>4. AddKey(s, k, c) = IF Len(t) > c THEN Tail(t) ELSE t
  BY DEF AddKey, w
<1> HIDE DEF t
<1>5. CASE Len(t) > c
  <2>1. /\ Tail(t) \in Seq(K) /\ Len(Tail(t)) = Len(t) - 1
        /\ \A i \in 1..(Len(t) - 1) : Tail(t)[i] = t[i + 1]
    BY <1>2, <1>3, <1>5
  <2>2. \A i \in DOMAIN Tail(t) : i + 1 \in DOMAIN t /\ Tail(t)[i] = t[i + 1]
    BY <2>1, <1>2, <1>3
  <2>3. Range(Tail(t)) \subseteq Range(t)
    BY <2>2 DEF Range
  <2>4. Distinct(Tail(t))
    <3> SUFFICES ASSUME NEW i \in DOMAIN Tail(t), NEW j \in DOMAIN Tail(t),
                        Tail(t)[i] = Tail(t)[j]
                 PROVE  i = j
      BY DEF Distinct
    <3>1. i + 1 = j + 1
      BY <2>2, <1>3 DEF Distinct
    <3>2. i \in Nat /\ j \in Nat
      BY <2>1
    <3> QED BY <3>1, <3>2
  <2> QED BY <2>1, <2>3, <2>4, <1>1, <1>2, <1>3, <1>4, <1>5
<1>6. CASE ~(Len(t) > c)
  BY <1>1, <1>2, <1>3, <1>4, <1>6
<1> QED BY <1>5, <1>6

\* While there is room, adding a key loses none.
LEMMA AddKeyKeeps ==
  ASSUME NEW K, NEW s \in Seq(K), NEW k \in K, Distinct(s),
         NEW c \in Nat \ {0}, Len(s) < c
  PROVE  Range(AddKey(s, k, c)) = Range(s) \cup {k}
<1> DEFINE w == Without(s, k)
           t == Append(w, k)
<1>1. /\ w \in Seq(K) /\ Distinct(w) /\ Range(w) = Range(s) \ {k}
      /\ Len(w) = IF k \in Range(s) THEN Len(s) - 1 ELSE Len(s)
  BY WithoutLemma
<1> HIDE DEF w
<1>2. Len(w) \in Nat /\ Len(w) < c
  BY <1>1
<1>3. Len(t) = Len(w) + 1 /\ Range(t) = Range(s) \cup {k}
  BY <1>1, AppendLemma
<1>4. AddKey(s, k, c) = IF Len(t) > c THEN Tail(t) ELSE t
  BY DEF AddKey, w
<1> HIDE DEF t
<1> QED BY <1>2, <1>3, <1>4

\* An order of distinct keys is as long as the set of its keys is large.
LEMMA DistinctLength ==
  ASSUME NEW K, NEW s \in Seq(K), Distinct(s)
  PROVE  IsFiniteSet(Range(s)) /\ Cardinality(Range(s)) = Len(s)
<1>1. Len(s) \in Nat /\ s \in [1..Len(s) -> Range(s)]
  BY DEF Range
<1>2. s \in Bijection(1..Len(s), Range(s))
  BY <1>1 DEF Bijection, Injection, IsInjective, Surjection, Distinct, Range
<1>3. ExistsBijection(1..Len(s), Range(s))
  BY <1>2 DEF ExistsBijection
<1> QED BY <1>1, <1>3, FS_NatBijection, FS_CountingElements

-----------------------------------------------------------------------------
(***************************************************************************)
(* Recursion along a sequence.                                             *)
(***************************************************************************)
\* A set of naturals that is not empty has a least element.
LEMMA LeastElement ==
  ASSUME NEW D \in SUBSET Nat, D # {}
  PROVE  \E x \in D : \A y \in D : x <= y
<1> DEFINE R == OpToRel(<, Nat)
<1>1. IsWellFoundedOn(R, Nat)
  BY NatLessThanWellFounded, Zenon
<1>2. \A x, y \in Nat : y < x => <<y, x>> \in R
  BY DEF OpToRel
<1> HIDE DEF R
<1>3. PICK x \in D : \A y \in D : ~(<<y, x>> \in R)
  BY <1>1, WFMin, Zenon
<1>4. ASSUME NEW y \in D PROVE x <= y
  <2>1. x \in Nat /\ y \in Nat /\ ~(<<y, x>> \in R)
    BY <1>3
  <2>2. ~(y < x)
    BY <1>2, <2>1
  <2> QED BY <2>1, <2>2
<1> QED BY <1>4

\* A set of positions above 0 has one whose predecessor is not in the set.
LEMMA Descent ==
  ASSUME NEW n \in Nat, NEW D \in SUBSET (0..n), D # {}, 0 \notin D
  PROVE  \E k \in D : k \in 1..n /\ k # 0 /\ k - 1 \in 0..n /\ k - 1 \notin D
<1>1. D \in SUBSET Nat
  OBVIOUS
<1>2. PICK k \in D : \A j \in D : k <= j
  BY <1>1, LeastElement, Zenon
<1>3. k \in 1..n /\ k # 0 /\ k - 1 \in 0..n
  OBVIOUS
<1>4. k - 1 \notin D
  BY <1>2, <1>3
<1> QED BY <1>3, <1>4

\* A function defined from its previous value exists, whatever its steps do.
Folds(f, n, V, v, step) == /\ f \in [0..n -> V] /\ f[0] = v
                           /\ \A i \in 1..n : f[i] = step[i][f[i - 1]]
LEMMA FoldExists ==
  ASSUME NEW n \in Nat, NEW V, NEW v \in V, NEW step \in [1..n -> [V -> V]]
  PROVE  \E f : Folds(f, n, V, v, step)
<1> DEFINE D == {k \in 0..n : ~\E f : Folds(f, k, V, v, step)}
<1>0. n \in 0..n
  OBVIOUS
<1> SUFFICES ASSUME D # {} PROVE FALSE
  BY <1>0, Zenon
<1>1. D \in SUBSET Nat
  OBVIOUS
<1>2. PICK k \in D : \A j \in D : k <= j
  BY <1>1, LeastElement, Zenon
<1>3. Folds([i \in 0..0 |-> v], 0, V, v, step)
  BY DEF Folds
<1>4. k # 0 /\ k \in 0..n /\ ~\E f : Folds(f, k, V, v, step)
  BY <1>2, <1>3
<1>5. k - 1 \in 0..n /\ k - 1 \notin D /\ k \in 1..n /\ k - 1 \in Nat
  BY <1>2, <1>4
<1>6. PICK f : Folds(f, k - 1, V, v, step)
  BY <1>5
<1>7. /\ f \in [0..(k - 1) -> V] /\ f[0] = v
      /\ \A i \in 1..(k - 1) : f[i] = step[i][f[i - 1]]
  BY <1>6 DEF Folds
<1> DEFINE last == step[k][f[k - 1]]
           g == [i \in 0..k |-> IF i = k THEN last ELSE f[i]]
<1>8. last \in V
  BY <1>5, <1>7
<1> HIDE DEF last
<1>9. g \in [0..k -> V]
  <2> SUFFICES ASSUME NEW i \in 0..k PROVE g[i] \in V
    OBVIOUS
  <2>1. CASE i = k
    BY <1>8, <2>1
  <2>2. CASE i # k
    BY <1>5, <1>7, <2>2
  <2> QED BY <2>1, <2>2
<1>10. g[0] = v
  BY <1>5, <1>7
<1>11. ASSUME NEW i \in 1..k PROVE g[i] = step[i][g[i - 1]]
  <2>1. i - 1 \in 0..k /\ i - 1 # k /\ i \in 0..k
    BY <1>5
  <2>2. g[i - 1] = f[i - 1] /\ g[i] = IF i = k THEN last ELSE f[i]
    BY <2>1
  <2>3. CASE i = k
    BY <2>2, <2>3 DEF last
  <2>4. CASE i # k
    <3>1. i \in 1..(k - 1)
      BY <1>5, <2>4
    <3> QED BY <1>7, <2>2, <2>4, <3>1
  <2> QED BY <2>3, <2>4
<1> HIDE DEF g
<1>12. Folds(g, k, V, v, step)
  BY <1>9, <1>10, <1>11 DEF Folds
<1> QED BY <1>4, <1>12
=============================================================================
