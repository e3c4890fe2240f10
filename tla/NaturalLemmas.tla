--------------------------- MODULE NaturalLemmas ---------------------------
(***************************************************************************)
(* Induction on natural numbers, stated for sets of numbers instead of     *)
(* predicates, and what the proofs use of it: least members, recursive     *)
(* functions and walks, and sums over finite sets.                         *)
(***************************************************************************)
EXTENDS Integers, FiniteSets, FiniteSetTheorems, TLAPS

(* A set with 0 and, with each number, the next has every natural number:  *)
(* if n were missing, k |-> k + 1 would map the members up to n one-to-one *)
(* to themselves without 0.                                                *)
THEOREM SetInduction ==
  ASSUME NEW S, 0 \in S, \A n \in Nat : n \in S => n + 1 \in S
  PROVE  Nat \subseteq S
<1> SUFFICES ASSUME NEW n \in Nat, n \notin S
             PROVE  FALSE
  OBVIOUS
<1> DEFINE A == S \cap 0..n
           f == [k \in A |-> k + 1]
<1>1. IsFiniteSet(A)
  <2>1. IsFiniteSet(0..n) /\ A \in SUBSET (0..n)
    BY FS_Interval
  <2>2. QED
    BY <2>1, FS_Subset
<1>2. IsFiniteSet(A \ {0}) /\ Cardinality(A \ {0}) = Cardinality(A) - 1
  <2>1. 0 \in A
    OBVIOUS
  <2>2. QED
    BY <1>1, <2>1, FS_RemoveElement
<1>3. Cardinality(A) \in Nat
  BY <1>1, FS_CardinalityType
<1>4. f \in [A -> A \ {0}]
  <2>1. \A k \in A : k + 1 \in A \ {0}
    OBVIOUS
  <2>2. QED
    BY <2>1
<1>5. Cardinality(A \ {0}) < Cardinality(A)
  BY <1>2, <1>3
<1>6. \E x, y \in A : x # y /\ f[x] = f[y]
  <2> HIDE DEF A, f
  <2>1. QED
    BY <1>1, <1>2, <1>4, <1>5, FS_PigeonHole
<1>7. QED
  BY <1>6

(* A set of natural numbers has a least member.                            *)
THEOREM LeastMember ==
  ASSUME NEW S, S \subseteq Nat, S # {}
  PROVE  \E m \in S : \A k \in S : m <= k
<1> SUFFICES ASSUME \A m \in S : \E k \in S : k < m
             PROVE  FALSE
  OBVIOUS
<1> DEFINE T == {n \in Nat : \A m \in 0..n : m \notin S}
<1>1. 0 \in T
  OBVIOUS
<1>2. \A n \in Nat : n \in T => n + 1 \in T
  <2> SUFFICES ASSUME NEW n \in Nat, n \in T, n + 1 \in S
               PROVE  FALSE
    OBVIOUS
  <2>1. PICK k \in S : k < n + 1
    OBVIOUS
  <2>2. k \in 0..n
    BY <2>1
  <2>3. QED
    BY <2>2
<1>3. Nat \subseteq T
  <2> HIDE DEF T
  <2>1. QED
    BY <1>1, <1>2, SetInduction
<1>4. PICK s \in S : TRUE
  OBVIOUS
<1>5. s \in T /\ s \in 0..s
  BY <1>3
<1>6. QED
  BY <1>5

(* A function defined by its value at 0 and a step from each value to the  *)
(* next exists.                                                            *)
Iterates(g, D, base, step) ==
  /\ g \in [Nat -> D]
  /\ g[0] = base
  /\ \A n \in Nat : g[n + 1] = step[<<n + 1, g[n]>>]

(* CHOOSE, which is what a recursive definition abbreviates, finds one.    *)
THEOREM RecursiveFunctionExists ==
  ASSUME NEW D, NEW base \in D, NEW step \in [Nat \X D -> D]
  PROVE  \E g : Iterates(g, D, base, step)
<1> DEFINE Upto(g, n) == /\ g[0] = base
                         /\ \A k \in 1..n : g[k] = step[<<k, g[k - 1]>>]
           S == {n \in Nat : \E g \in [0..n -> D] : Upto(g, n)}
<1>1. 0 \in S
  <2>1. [k \in 0..0 |-> base] \in [0..0 -> D] /\ Upto([k \in 0..0 |-> base], 0)
    OBVIOUS
  <2>2. QED
    BY <2>1
<1>2. ASSUME NEW n \in Nat, n \in S
      PROVE  n + 1 \in S
  <2>1. PICK g \in [0..n -> D] : Upto(g, n)
    BY <1>2
  <2> DEFINE h == [k \in 0..(n + 1) |-> IF k <= n THEN g[k] ELSE step[<<n + 1, g[n]>>]]
  <2>2. g[n] \in D /\ step[<<n + 1, g[n]>>] \in D
    OBVIOUS
  <2>3. h \in [0..(n + 1) -> D]
    BY <2>2
  <2>4. Upto(h, n + 1)
    <3>1. h[0] = base
      BY <2>1
    <3>2. \A k \in 1..n : h[k] = step[<<k, h[k - 1]>>]
      <4> TAKE k \in 1..n
      <4>1. h[k] = g[k] /\ h[k - 1] = g[k - 1]
        OBVIOUS
      <4>2. QED
        BY <2>1, <4>1
    <3>3. h[n + 1] = step[<<n + 1, h[n]>>]
      OBVIOUS
    <3>4. \A k \in 1..(n + 1) : k \in 1..n \/ k = n + 1
      OBVIOUS
    <3>5. (n + 1) - 1 = n
      OBVIOUS
    <3> HIDE DEF h
    <3>6. QED
      BY <3>1, <3>2, <3>3, <3>4, <3>5
  <2>5. QED
    <3> HIDE DEF h, Upto
    <3>1. QED
      BY <2>3, <2>4
<1>3. Nat \subseteq S
  <2> HIDE DEF S
  <2>1. QED
    BY <1>1, <1>2, SetInduction
<1> DEFINE P(n) == CHOOSE g \in [0..n -> D] : Upto(g, n)
<1>4. \A n \in Nat : P(n) \in [0..n -> D] /\ Upto(P(n), n)
  BY <1>3
<1>5. ASSUME NEW m \in Nat
      PROVE  \A n \in Nat : m <= n => P(n)[m] = P(m)[m]
  <2> DEFINE T == {k \in Nat : k <= m =>
                     \A n \in Nat : m <= n => P(n)[k] = P(m)[k]}
  <2> HIDE DEF P
  <2>1. 0 \in T
    BY <1>4
  <2>2. ASSUME NEW k \in Nat, k \in T
        PROVE  k + 1 \in T
    <3> SUFFICES ASSUME k + 1 <= m, NEW n \in Nat, m <= n
                 PROVE  P(n)[k + 1] = P(m)[k + 1]
      OBVIOUS
    <3>1. P(n)[k] = P(m)[k]
      BY <2>2
    <3>2. k + 1 \in 1..n /\ k + 1 \in 1..m /\ (k + 1) - 1 = k
      OBVIOUS
    <3>3. P(n)[k + 1] = step[<<k + 1, P(n)[k]>>] /\ P(m)[k + 1] = step[<<k + 1, P(m)[k]>>]
      BY <1>4, <3>2
    <3>4. QED
      BY <3>1, <3>3
  <2>3. Nat \subseteq T
    <3> HIDE DEF T
    <3>1. QED
      BY <2>1, <2>2, SetInduction
  <2>4. QED
    BY <2>3
<1> DEFINE F == [n \in Nat |-> P(n)[n]]
<1> HIDE DEF P
<1>6. F \in [Nat -> D]
  BY <1>4
<1>7. F[0] = base
  BY <1>4
<1>8. ASSUME NEW n \in Nat
      PROVE  F[n + 1] = step[<<n + 1, F[n]>>]
  <2>1. n + 1 \in 1..(n + 1) /\ n + 1 \in Nat /\ n <= n + 1 /\ (n + 1) - 1 = n
    OBVIOUS
  <2>2. F[n + 1] = step[<<n + 1, P(n + 1)[n]>>]
    BY <1>4, <2>1
  <2>3. P(n + 1)[n] = P(n)[n]
    BY <1>5, <2>1
  <2>4. QED
    BY <2>1, <2>2, <2>3
<1>9. QED
  <2> HIDE DEF F
  <2>1. Iterates(F, D, base, step)
    BY <1>6, <1>7, <1>8 DEF Iterates
  <2>2. QED
    BY <2>1

(* A walk: from each place but those of stop it goes on to another one of  *)
(* smaller rank.                                                           *)
IsWalk(places, stop, next, rank, bound) ==
  /\ next \in [places -> places]
  /\ bound \in Nat /\ rank \in [places -> 0..bound]
  /\ \A p \in places \ stop : rank[next[p]] < rank[p]

(* The function that gives each place the result of where its walk stops.  *)
Follows(g, places, stop, next, result) ==
  /\ DOMAIN g = places
  /\ g = [p \in DOMAIN g |-> IF p \in stop THEN result[p] ELSE g[next[p]]]

(* However far the walk goes: it is in places of smaller and smaller rank. *)
THEOREM WalkFunctionExists ==
  ASSUME NEW places, NEW stop, NEW next, NEW rank, NEW bound, NEW result,
         IsWalk(places, stop, next, rank, bound)
  PROVE  \E g : Follows(g, places, stop, next, result)
<1> DEFINE Of(g, p) == IF p \in stop THEN result[p] ELSE g[next[p]]
           Below(g, n) == /\ DOMAIN g = places /\ g = [p \in places |-> g[p]]
                          /\ \A p \in places : rank[p] < n => g[p] = Of(g, p)
           S == {n \in Nat : \E g : Below(g, n)}
<1> USE DEF IsWalk
<1>1. 0 \in S
  <2>1. Below([p \in places |-> 0], 0)
    OBVIOUS
  <2>2. QED
    BY <2>1
<1>2. ASSUME NEW n \in Nat, n \in S
      PROVE  n + 1 \in S
  <2>1. PICK g : Below(g, n)
    BY <1>2
  <2> DEFINE h == [p \in places |-> Of(g, p)]
  <2>2. ASSUME NEW p \in places, rank[p] < n + 1, p \notin stop
        PROVE  h[next[p]] = g[next[p]]
    <3>1. rank[next[p]] < n /\ next[p] \in places
      BY <2>2
    <3>2. h[next[p]] = Of(g, next[p])
      BY <3>1
    <3>3. g[next[p]] = Of(g, next[p])
      BY <2>1, <3>1
    <3>4. QED
      BY <3>2, <3>3
  <2>3. Below(h, n + 1)
    BY <2>2
  <2>4. QED
    <3> HIDE DEF h, Below
    <3>1. QED
      BY <2>3
<1>3. Nat \subseteq S
  <2> HIDE DEF S
  <2>1. QED
    BY <1>1, <1>2, SetInduction
<1>4. PICK g : Below(g, bound + 1)
  BY <1>3
<1>5. \A p \in places : g[p] = Of(g, p)
  BY <1>4
<1>6. g = [p \in DOMAIN g |-> Of(g, p)]
  BY <1>4, <1>5
<1>7. QED
  BY <1>4, <1>6 DEF Follows

(* A walk that cannot leave a set of places stops in it.                   *)
THEOREM WalkStops ==
  ASSUME NEW places, NEW stop, NEW next, NEW rank, NEW bound, NEW result,
         IsWalk(places, stop, next, rank, bound),
         NEW g, Follows(g, places, stop, next, result),
         NEW J, J \subseteq places, \A p \in J \ stop : next[p] \in J,
         NEW start \in J
  PROVE  \E r \in J \cap stop : g[start] = result[r]
<1> DEFINE Ends(p) == \E r \in J \cap stop : g[p] = result[r]
           S == {n \in Nat : \A p \in J : rank[p] < n => Ends(p)}
<1> USE DEF IsWalk
<1>0. \A p \in places : g[p] = IF p \in stop THEN result[p] ELSE g[next[p]]
  BY DEF Follows
<1>1. 0 \in S
  OBVIOUS
<1>2. ASSUME NEW n \in Nat, n \in S
      PROVE  n + 1 \in S
  <2> SUFFICES ASSUME NEW p \in J, rank[p] < n + 1
               PROVE  Ends(p)
    OBVIOUS
  <2>1. CASE p \in stop
    BY <1>0, <2>1
  <2>2. CASE p \notin stop
    <3>1. next[p] \in J /\ rank[next[p]] < n
      BY <2>2
    <3>2. Ends(next[p])
      BY <1>2, <3>1
    <3>3. g[p] = g[next[p]]
      BY <1>0, <2>2
    <3>4. QED
      BY <3>2, <3>3
  <2>3. QED
    BY <2>1, <2>2
<1>3. Nat \subseteq S
  <2> HIDE DEF S
  <2>1. QED
    BY <1>1, <1>2, SetInduction
<1>4. rank[start] < bound + 1 /\ bound + 1 \in Nat
  OBVIOUS
<1>5. QED
  BY <1>3, <1>4

(* A sum over a finite set, taken one member after the other, counts the   *)
(* union of sets that have no member in common.                            *)
SumsUp(g, S, w) ==
  g = [s \in SUBSET S |->
         IF s = {} THEN 0 ELSE w[CHOOSE x \in s : TRUE] + g[s \ {CHOOSE x \in s : TRUE}]]

Counts(S, P, w, k) ==
  /\ IsFiniteSet(S) /\ k \in Nat
  /\ \A x \in S : IsFiniteSet(P[x]) /\ w[x] = k * Cardinality(P[x])
  /\ \A x, y \in S : x # y => P[x] \cap P[y] = {}

AllOf(S, P) == UNION {P[x] : x \in S}

(* The recursive sum exists and is the number of members of the union,     *)
(* k for each.                                                             *)
THEOREM UnionSum ==
  ASSUME NEW S, NEW P, NEW w, NEW k, Counts(S, P, w, k)
  PROVE  /\ IsFiniteSet(AllOf(S, P))
         /\ \E g : SumsUp(g, S, w)
         /\ \A g : SumsUp(g, S, w) => g[S] = k * Cardinality(AllOf(S, P))
<1> DEFINE U(s) == UNION {P[x] : x \in s}
           pick(s) == CHOOSE x \in s : TRUE
           G == [s \in SUBSET S |-> k * Cardinality(U(s))]
<1> USE DEF Counts
<1>1. ASSUME NEW s \in SUBSET S
      PROVE  IsFiniteSet(s) /\ IsFiniteSet(U(s)) /\ Cardinality(U(s)) \in Nat
  <2>1. IsFiniteSet(s)
    BY FS_Subset
  <2> DEFINE T == {n \in Nat : \A r \in SUBSET s : Cardinality(r) = n => IsFiniteSet(U(r))}
  <2>2. \A r \in SUBSET s : IsFiniteSet(r) /\ Cardinality(r) \in Nat
    BY <2>1, FS_Subset, FS_CardinalityType
  <2>3. 0 \in T
    <3>1. \A r \in SUBSET s : Cardinality(r) = 0 => r = {}
      BY <2>2, FS_EmptySet
    <3>2. IsFiniteSet(U({}))
      <4>1. U({}) = {}
        OBVIOUS
      <4>2. QED
        BY <4>1, FS_EmptySet
    <3> HIDE DEF U
    <3>3. QED
      BY <3>1, <3>2
  <2>4. ASSUME NEW n \in Nat, n \in T
        PROVE  n + 1 \in T
    <3>1. ASSUME NEW r \in SUBSET s, Cardinality(r) = n + 1
          PROVE  IsFiniteSet(U(r))
      <4>1. PICK x \in r : TRUE
        BY <2>2, <3>1, FS_EmptySet
      <4>2. r \ {x} \in SUBSET s /\ Cardinality(r \ {x}) = n
        BY <2>2, <3>1, FS_RemoveElement
      <4>3. IsFiniteSet(U(r \ {x})) /\ IsFiniteSet(P[x])
        BY <2>4, <4>2
      <4>4. U(r) = U(r \ {x}) \cup P[x]
        BY <4>1
      <4> HIDE DEF U
      <4>5. IsFiniteSet(U(r \ {x}) \cup P[x])
        BY <4>3, FS_Union
      <4>6. QED
        BY <4>4, <4>5
    <3>2. QED
      BY <3>1
  <2>5. Nat \subseteq T
    <3> HIDE DEF T
    <3>1. QED
      BY <2>3, <2>4, SetInduction
  <2>6. IsFiniteSet(U(s))
    BY <2>2, <2>5
  <2> HIDE DEF U
  <2>7. QED
    BY <2>1, <2>6, FS_CardinalityType
<1>2. ASSUME NEW s \in SUBSET S, NEW x \in s
      PROVE  Cardinality(U(s)) = Cardinality(P[x]) + Cardinality(U(s \ {x}))
  <2>1. U(s) = P[x] \cup U(s \ {x}) /\ P[x] \cap U(s \ {x}) = {}
    OBVIOUS
  <2>2. s \ {x} \in SUBSET S /\ x \in S
    OBVIOUS
  <2>3. IsFiniteSet(P[x]) /\ IsFiniteSet(U(s \ {x}))
    BY <1>1, <2>2
  <2> HIDE DEF U
  <2>4. Cardinality(P[x]) \in Nat /\ Cardinality(U(s \ {x})) \in Nat
    BY <2>3, FS_CardinalityType
  <2>5. Cardinality(U(s)) = Cardinality(P[x]) + Cardinality(U(s \ {x}))
                              - Cardinality(P[x] \cap U(s \ {x}))
    BY <2>1, <2>3, FS_Union
  <2>6. Cardinality(P[x] \cap U(s \ {x})) = 0
    BY <2>1, FS_EmptySet
  <2>7. QED
    BY <2>4, <2>5, <2>6
<1>3. \A s \in SUBSET S : s # {} => pick(s) \in s
  OBVIOUS
<1>4. ASSUME NEW s \in SUBSET S
      PROVE  G[s] = IF s = {} THEN 0 ELSE w[pick(s)] + G[s \ {pick(s)}]
  <2>1. CASE s = {}
    <3>1. U({}) = {}
      OBVIOUS
    <3>2. Cardinality(U(s)) = 0
      BY <2>1, <3>1, FS_EmptySet
    <3>3. G[s] = k * Cardinality(U(s))
      OBVIOUS
    <3> HIDE DEF U, G
    <3>4. QED
      BY <2>1, <3>2, <3>3
  <2>2. CASE s # {}
    <3>1. PICK x : x = pick(s)
      OBVIOUS
    <3>2. x \in s /\ x \in S /\ s \ {x} \in SUBSET S
      BY <1>3, <2>2, <3>1
    <3>3. Cardinality(U(s)) = Cardinality(P[x]) + Cardinality(U(s \ {x}))
      BY <1>2, <3>2
    <3>4. Cardinality(P[x]) \in Nat /\ Cardinality(U(s \ {x})) \in Nat
      BY <1>1, <3>2, FS_CardinalityType
    <3>5. G[s] = k * Cardinality(U(s)) /\ G[s \ {x}] = k * Cardinality(U(s \ {x}))
      BY <3>2
    <3>6. w[x] = k * Cardinality(P[x])
      BY <3>2
    <3>7. \A a, b \in Nat : k * (a + b) = k * a + k * b
      OBVIOUS
    <3> HIDE DEF U, G, pick
    <3>8. k * Cardinality(U(s)) = k * Cardinality(P[x]) + k * Cardinality(U(s \ {x}))
      BY <3>3, <3>4, <3>7
    <3>9. QED
      BY <2>2, <3>1, <3>5, <3>6, <3>8
  <2>3. QED
    BY <2>1, <2>2
<1>5. SumsUp(G, S, w)
  <2>1. G = [s \in SUBSET S |-> G[s]]
    OBVIOUS
  <2> HIDE DEF G, U
  <2>2. [s \in SUBSET S |-> G[s]]
          = [s \in SUBSET S |-> IF s = {} THEN 0 ELSE w[pick(s)] + G[s \ {pick(s)}]]
    BY <1>4
  <2>3. QED
    BY <2>1, <2>2 DEF SumsUp
<1>6. ASSUME NEW g, SumsUp(g, S, w)
      PROVE  g[S] = G[S]
  <2>0. \A s \in SUBSET S : g[s] = IF s = {} THEN 0 ELSE w[pick(s)] + g[s \ {pick(s)}]
    BY <1>6 DEF SumsUp
  <2> DEFINE T == {n \in Nat : \A s \in SUBSET S : Cardinality(s) = n => g[s] = G[s]}
  <2> HIDE DEF G, U
  <2>1. \A s \in SUBSET S : IsFiniteSet(s) /\ Cardinality(s) \in Nat
    BY <1>1, FS_CardinalityType
  <2>2. 0 \in T
    <3>1. \A s \in SUBSET S : Cardinality(s) = 0 => s = {}
      BY <2>1, FS_EmptySet
    <3>2. g[{}] = G[{}]
      BY <1>4, <2>0
    <3>3. QED
      BY <3>1, <3>2
  <2>3. ASSUME NEW n \in Nat, n \in T
        PROVE  n + 1 \in T
    <3>1. ASSUME NEW s \in SUBSET S, Cardinality(s) = n + 1
          PROVE  g[s] = G[s]
      <4>1. s # {}
        BY <3>1, FS_EmptySet
      <4>2. PICK x : x = pick(s)
        OBVIOUS
      <4>3. x \in s /\ s \ {x} \in SUBSET S
        BY <1>3, <4>1, <4>2
      <4>4. Cardinality(s \ {x}) = n
        <5>1. Cardinality(s \ {x}) = Cardinality(s) - 1
          BY <2>1, <4>3, FS_RemoveElement
        <5>2. QED
          BY <3>1, <5>1
      <4>5. g[s \ {x}] = G[s \ {x}]
        BY <2>3, <4>3, <4>4
      <4> HIDE DEF pick
      <4>6. g[s] = w[x] + g[s \ {x}] /\ G[s] = w[x] + G[s \ {x}]
        BY <1>4, <2>0, <4>1, <4>2
      <4>7. QED
        BY <4>5, <4>6
    <3>2. QED
      BY <3>1
  <2>4. Nat \subseteq T
    <3> HIDE DEF T
    <3>1. QED
      BY <2>2, <2>3, SetInduction
  <2>5. QED
    BY <2>1, <2>4
<1>7. U(S) = AllOf(S, P) /\ G[S] = k * Cardinality(U(S))
  BY DEF AllOf
<1> HIDE DEF U, G
<1>8. IsFiniteSet(AllOf(S, P))
  BY <1>1, <1>7
<1>9. QED
  BY <1>5, <1>6, <1>7, <1>8
=============================================================================
