------------------------------ MODULE SumProofs ------------------------------
(***************************************************************************)
(* Sums over finite sets, for the properties that relate a counter of the  *)
(* program to the sum of what it stands for.                               *)
(*                                                                         *)
(* The fold of the community modules is a recursive function; that it is   *)
(* one, and does not depend on the order in which the elements are taken,  *)
(* is shown with the smallest counterexample, a subset of a finite set.    *)
(***************************************************************************)
EXTENDS Integers, FiniteSetsExt, FiniteSetTheorems, TLAPS

Pick(s) == CHOOSE x \in s : TRUE

\* g has the sum of f over each subset of S.
Sums(f, S, g) ==
    g = [s \in SUBSET S |-> IF s = {} THEN 0 ELSE f[Pick(s)] + g[s \ {Pick(s)}]]

Subtotals(f, S) == CHOOSE g : Sums(f, S, g)

Sum(f, S) == Subtotals(f, S)[S]

LEMMA Picked == \A s : s # {} => Pick(s) \in s
BY DEF Pick

\* A set of subsets of a finite set has a minimal member.
LEMMA Smallest ==
    ASSUME NEW S, IsFiniteSet(S), NEW C, C \subseteq SUBSET S, C # {}
    PROVE  \E t \in C : \A u \in C : u \subseteq t => u = t
<1> DEFINE R == StrictSubsetOrdering(S)
<1>1. IsWellFoundedOn(R, SUBSET S)
  BY FS_StrictSubsetOrderingWellFounded, FS_FiniteSubsetsOfFinite
<1>2. PICK t \in C : \A u \in C : <<u, t>> \notin R
  <2> HIDE DEF R
  <2>1. QED BY <1>1, WFMin
<1>3. ASSUME NEW u \in C, u \subseteq t PROVE u = t
  BY <1>2, <1>3 DEF StrictSubsetOrdering
<1>4. QED BY <1>2, <1>3

\* A set of natural numbers has a least one.
LEMMA Least ==
    ASSUME NEW S, S \subseteq Nat, S # {}
    PROVE  \E n \in S : \A m \in S : n <= m
<1>1. PICK b \in S : TRUE
  OBVIOUS
<1> DEFINE T == 0 .. b
           C == {0 .. m : m \in {n \in S : n <= b}}
<1>2. IsFiniteSet(T) /\ C \subseteq SUBSET T /\ C # {}
  <2>1. b \in Nat
    OBVIOUS
  <2>2. IsFiniteSet(T)
    BY <2>1, FS_Interval
  <2>3. 0 .. b \in C
    BY <2>1
  <2>4. \A m \in S : m <= b => 0 .. m \in SUBSET T
    BY <2>1
  <2>5. QED BY <2>2, <2>3, <2>4
<1>3. PICK t \in C : \A u \in C : u \subseteq t => u = t
  <2> HIDE DEF T, C
  <2>1. QED BY <1>2, Smallest
<1>4. PICK n \in S : n <= b /\ t = 0 .. n
  BY <1>3
<1>5. ASSUME NEW m \in S, m < n PROVE FALSE
  <2>1. m \in Nat /\ n \in Nat /\ b \in Nat /\ m <= b
    BY <1>4, <1>5
  <2>2. 0 .. m \in C /\ 0 .. m \subseteq t
    BY <1>4, <1>5, <2>1
  <2>3. 0 .. m = 0 .. n
    BY <1>3, <1>4, <2>2
  <2>4. n \in 0 .. m
    BY <2>1, <2>3
  <2>5. QED BY <1>5, <2>1, <2>4
<1>6. QED
  BY <1>4, <1>5

LEMMA SumsUnique ==
    ASSUME NEW f, NEW S, IsFiniteSet(S), NEW g, NEW h, Sums(f, S, g), Sums(f, S, h)
    PROVE  g = h
<1>1. /\ \A s \in SUBSET S : g[s] = IF s = {} THEN 0 ELSE f[Pick(s)] + g[s \ {Pick(s)}]
      /\ \A s \in SUBSET S : h[s] = IF s = {} THEN 0 ELSE f[Pick(s)] + h[s \ {Pick(s)}]
      /\ DOMAIN g = SUBSET S /\ DOMAIN h = SUBSET S
      /\ g = [s \in SUBSET S |-> g[s]] /\ h = [s \in SUBSET S |-> h[s]]
  BY Zenon DEF Sums
<1> DEFINE C == {s \in SUBSET S : g[s] # h[s]}
<1>2. CASE C = {}
  BY <1>1, <1>2, Zenon
<1>3. CASE C # {}
  <2>1. PICK t \in C : \A u \in C : u \subseteq t => u = t
    <3>1. C \subseteq SUBSET S
      OBVIOUS
    <3> HIDE DEF C
    <3>2. QED BY <1>3, <3>1, Smallest
  <2>2. t \in SUBSET S /\ g[t] # h[t]
    BY <2>1
  <2>3. t # {}
    BY <1>1, <2>2
  <2>4. t \ {Pick(t)} \notin C /\ t \ {Pick(t)} \in SUBSET S
    BY <2>1, <2>2, <2>3, Picked
  <2>5. g[t \ {Pick(t)}] = h[t \ {Pick(t)}]
    BY <2>4
  <2>6. QED BY <1>1, <2>2, <2>3, <2>5
<1>4. QED BY <1>2, <1>3

\* What has the subtotals of S has those of its subsets.
LEMMA SumsOfPart ==
    ASSUME NEW f, NEW S, NEW T \in SUBSET S, NEW g, Sums(f, S, g)
    PROVE  Sums(f, T, [s \in SUBSET T |-> g[s]])
<1> DEFINE h == [s \in SUBSET T |-> g[s]]
<1>1. \A s \in SUBSET S : g[s] = IF s = {} THEN 0 ELSE f[Pick(s)] + g[s \ {Pick(s)}]
  BY Zenon DEF Sums
<1>2. ASSUME NEW s \in SUBSET T
      PROVE  h[s] = IF s = {} THEN 0 ELSE f[Pick(s)] + h[s \ {Pick(s)}]
  <2>1. s \in SUBSET S /\ s \ {Pick(s)} \in SUBSET T
    OBVIOUS
  <2>2. h[s] = g[s] /\ h[s \ {Pick(s)}] = g[s \ {Pick(s)}]
    BY <2>1
  <2>3. QED BY <1>1, <2>1, <2>2
<1>3. h = [s \in SUBSET T |-> IF s = {} THEN 0 ELSE f[Pick(s)] + h[s \ {Pick(s)}]]
  <2>1. h = [s \in SUBSET T |-> h[s]]
    OBVIOUS
  <2> HIDE DEF h
  <2>2. QED BY <1>2, <2>1, Zenon
<1>4. QED BY <1>3 DEF Sums

LEMMA SumsExist ==
    ASSUME NEW f, NEW S, IsFiniteSet(S)
    PROVE  \E g : Sums(f, S, g)
<1> DEFINE C == {s \in SUBSET S : ~\E g : Sums(f, s, g)}
<1>1. CASE C = {}
  BY <1>1
<1>2. CASE C # {}
  <2>1. PICK t \in C : \A u \in C : u \subseteq t => u = t
    <3>1. C \subseteq SUBSET S
      OBVIOUS
    <3> HIDE DEF C
    <3>2. QED BY <1>2, <3>1, Smallest
  <2>2. t \in SUBSET S /\ ~\E g : Sums(f, t, g)
    BY <2>1
  <2>3. \A u \in SUBSET t : u # t => \E g : Sums(f, u, g)
    BY <2>1
  <2>4. \A u \in SUBSET t : u # t => Sums(f, u, Subtotals(f, u))
    BY <2>3 DEF Subtotals
  <2> DEFINE below(u) == Subtotals(f, u)[u]
             rest(u) == u \ {Pick(u)}
             g == [u \in SUBSET t |-> IF u = {} THEN 0 ELSE f[Pick(u)] + below(rest(u))]
  <2>5. \A u \in SUBSET t : u # t => g[u] = below(u)
    <3> SUFFICES ASSUME NEW u \in SUBSET t, u # t PROVE g[u] = below(u)
      OBVIOUS
    <3>1. Sums(f, u, Subtotals(f, u))
      BY <2>4
    <3>2. \A s \in SUBSET u : Subtotals(f, u)[s] =
            IF s = {} THEN 0 ELSE f[Pick(s)] + Subtotals(f, u)[rest(s)]
      BY <3>1, Zenon DEF Sums
    <3>3. below(u) = IF u = {} THEN 0 ELSE f[Pick(u)] + Subtotals(f, u)[rest(u)]
      BY <3>2
    <3>4. CASE u = {}
      BY <3>3, <3>4
    <3>5. CASE u # {}
      <4>1. rest(u) \in SUBSET u /\ rest(u) \in SUBSET t /\ rest(u) # t /\ u \in SUBSET S
        BY <2>2, <3>5, Picked
      <4>2. Sums(f, rest(u), [s \in SUBSET rest(u) |-> Subtotals(f, u)[s]])
        BY <3>1, <4>1, SumsOfPart
      <4>3. Sums(f, rest(u), Subtotals(f, rest(u)))
        BY <2>4, <4>1
      <4>4. IsFiniteSet(rest(u))
        <5>1. rest(u) \in SUBSET S
          BY <4>1
        <5> HIDE DEF rest
        <5>2. QED BY <5>1, FS_Subset
      <4>5. Subtotals(f, rest(u)) = [s \in SUBSET rest(u) |-> Subtotals(f, u)[s]]
        <5> HIDE DEF rest
        <5>1. QED BY <4>2, <4>3, <4>4, SumsUnique
      <4>6. below(rest(u)) = Subtotals(f, u)[rest(u)]
        <5> HIDE DEF rest
        <5>1. QED BY <4>5
      <4>7. QED BY <3>3, <3>5, <4>6
    <3>6. QED BY <3>4, <3>5
  <2>6. ASSUME NEW u \in SUBSET t
        PROVE  g[u] = IF u = {} THEN 0 ELSE f[Pick(u)] + g[rest(u)]
    <3>1. CASE u = {}
      BY <3>1
    <3>2. CASE u # {}
      <4>1. rest(u) \in SUBSET t /\ rest(u) # t
        BY <3>2, Picked
      <4>2. g[rest(u)] = below(rest(u))
        BY <2>5, <4>1
      <4>3. g[u] = f[Pick(u)] + below(rest(u))
        BY <3>2
      <4>4. QED BY <3>2, <4>2, <4>3
    <3>3. QED BY <3>1, <3>2
  <2>7. Sums(f, t, g)
    <3>1. g = [u \in SUBSET t |-> g[u]]
      OBVIOUS
    <3> HIDE DEF g
    <3>2. QED BY <2>6, <3>1, Zenon DEF Sums
  <2>8. QED BY <2>2, <2>7
<1>3. QED BY <1>1, <1>2

\* The sum, one element at a time.
LEMMA SumStep ==
    ASSUME NEW f, NEW S, IsFiniteSet(S)
    PROVE  /\ Sum(f, {}) = 0
           /\ S # {} => Sum(f, S) = f[Pick(S)] + Sum(f, S \ {Pick(S)})
<1>1. \A T : IsFiniteSet(T) => Sums(f, T, Subtotals(f, T))
  BY SumsExist DEF Subtotals
<1>2. Sum(f, {}) = 0
  <2>1. Sums(f, {}, Subtotals(f, {}))
    BY <1>1, FS_EmptySet
  <2>2. Subtotals(f, {}) = [s \in SUBSET {} |-> IF s = {} THEN 0 ELSE f[Pick(s)] +
                              Subtotals(f, {})[s \ {Pick(s)}]]
    BY <2>1 DEF Sums
  <2>3. Subtotals(f, {})[{}] = 0
    <3>1. {} \in SUBSET {}
      OBVIOUS
    <3>2. QED BY <2>2, <3>1
  <2>4. QED BY <2>3 DEF Sum
<1>3. ASSUME S # {} PROVE Sum(f, S) = f[Pick(S)] + Sum(f, S \ {Pick(S)})
  <2> DEFINE T == S \ {Pick(S)}
             g == Subtotals(f, S)
  <2>1. Sums(f, S, g)
    BY <1>1
  <2>2. T \in SUBSET S /\ IsFiniteSet(T) /\ T \in SUBSET T
    BY FS_Subset
  <2>3. Sums(f, T, Subtotals(f, T))
    BY <1>1, <2>2
  <2>4. Sums(f, T, [s \in SUBSET T |-> g[s]])
    <3>1. PICK U, h : U = T /\ h = g
      OBVIOUS
    <3>2. Sums(f, S, h) /\ U \in SUBSET S
      BY <2>1, <2>2, <3>1
    <3>3. Sums(f, U, [s \in SUBSET U |-> h[s]])
      BY <3>2, SumsOfPart
    <3>4. QED BY <3>1, <3>3
  <2>5. Subtotals(f, T) = [s \in SUBSET T |-> g[s]]
    <3> HIDE DEF T, g
    <3>1. QED BY <2>2, <2>3, <2>4, SumsUnique
  <2>6. Subtotals(f, T)[T] = g[T]
    <3> HIDE DEF T, g
    <3>1. QED BY <2>2, <2>5
  <2>7. g[S] = f[Pick(S)] + g[T]
    <3>1. g = [s \in SUBSET S |-> IF s = {} THEN 0 ELSE f[Pick(s)] + g[s \ {Pick(s)}]]
      BY <2>1 DEF Sums
    <3>2. S \in SUBSET S
      OBVIOUS
    <3> HIDE DEF g
    <3>3. QED BY <1>3, <3>1, <3>2
  <2>8. QED BY <2>6, <2>7 DEF Sum
<1>4. QED BY <1>2, <1>3

LEMMA SumType ==
    ASSUME NEW f, NEW S, IsFiniteSet(S), \A x \in S : f[x] \in Int
    PROVE  Sum(f, S) \in Int
<1> DEFINE C == {s \in SUBSET S : Sum(f, s) \notin Int}
<1>1. CASE C = {}
  BY <1>1
<1>2. CASE C # {}
  <2>1. PICK t \in C : \A u \in C : u \subseteq t => u = t
    <3>1. C \subseteq SUBSET S
      OBVIOUS
    <3> HIDE DEF C
    <3>2. QED BY <1>2, <3>1, Smallest
  <2>2. t \in SUBSET S /\ Sum(f, t) \notin Int /\ IsFiniteSet(t)
    BY <2>1, FS_Subset
  <2>3. t # {}
    <3>1. Sum(f, {}) = 0
      BY SumStep
    <3>2. QED BY <2>2, <3>1
  <2>4. Pick(t) \in t /\ t \ {Pick(t)} \in SUBSET S /\ t \ {Pick(t)} \notin C
    BY <2>1, <2>2, <2>3, Picked
  <2>5. Sum(f, t \ {Pick(t)}) \in Int /\ f[Pick(t)] \in Int
    BY <2>2, <2>4
  <2>6. Sum(f, t) = f[Pick(t)] + Sum(f, t \ {Pick(t)})
    BY <2>2, <2>3, SumStep
  <2>7. QED BY <2>2, <2>5, <2>6
<1>3. QED BY <1>1, <1>2

\* Whatever element is taken first.
LEMMA SumWithout ==
    ASSUME NEW f, NEW S, IsFiniteSet(S), \A x \in S : f[x] \in Int, NEW e \in S
    PROVE  Sum(f, S) = f[e] + Sum(f, S \ {e})
<1> DEFINE C == {s \in SUBSET S : \E x \in s : Sum(f, s) # f[x] + Sum(f, s \ {x})}
<1>1. CASE C = {}
  BY <1>1
<1>2. CASE C # {}
  <2>1. PICK t \in C : \A u \in C : u \subseteq t => u = t
    <3>1. C \subseteq SUBSET S
      OBVIOUS
    <3> HIDE DEF C
    <3>2. QED BY <1>2, <3>1, Smallest
  <2>2. t \in SUBSET S /\ IsFiniteSet(t)
    BY <2>1, FS_Subset
  <2>3. PICK x \in t : Sum(f, t) # f[x] + Sum(f, t \ {x})
    BY <2>1
  <2>4. PICK p, q, r : p = Pick(t) /\ q = t \ {p} /\ r = t \ {x}
    OBVIOUS
  <2>5. /\ p \in t /\ Sum(f, t) = f[p] + Sum(f, q) /\ x # p
    BY <2>2, <2>3, <2>4, SumStep, Picked
  <2>6. q \in SUBSET S /\ r \in SUBSET S /\ q \notin C /\ r \notin C /\ x \in q /\ p \in r
    BY <2>1, <2>2, <2>4, <2>5
  <2>7. Sum(f, q) = f[x] + Sum(f, q \ {x}) /\ Sum(f, r) = f[p] + Sum(f, r \ {p})
    BY <2>6
  <2>8. q \ {x} = r \ {p}
    BY <2>4
  <2>9. f[x] \in Int /\ f[p] \in Int /\ Sum(f, q \ {x}) \in Int
    <3>1. IsFiniteSet(q \ {x}) /\ \A y \in q \ {x} : f[y] \in Int
      BY <2>6, FS_Subset, FS_RemoveElement
    <3>2. QED BY <2>2, <2>3, <2>5, <3>1, SumType
  <2>10. Sum(f, t) = f[x] + Sum(f, r)
    <3>1. PICK u, a, b, c : u = q \ {x} /\ a = f[x] /\ b = f[p] /\ c = Sum(f, u)
      OBVIOUS
    <3>2. a \in Int /\ b \in Int /\ c \in Int
      BY <2>9, <3>1
    <3>3. Sum(f, t) = b + Sum(f, q) /\ Sum(f, q) = a + c /\ Sum(f, r) = b + c
      BY <2>5, <2>7, <2>8, <3>1
    <3>4. Sum(f, t) = a + Sum(f, r)
      BY <3>2, <3>3
    <3>5. QED BY <3>1, <3>4
  <2>11. QED BY <2>3, <2>4, <2>10
<1>3. QED BY <1>1, <1>2

LEMMA SumSame ==
    ASSUME NEW f, NEW g, NEW S, IsFiniteSet(S), \A x \in S : f[x] = g[x]
    PROVE  Sum(f, S) = Sum(g, S)
<1> DEFINE C == {s \in SUBSET S : Sum(f, s) # Sum(g, s)}
<1>1. CASE C = {}
  BY <1>1
<1>2. CASE C # {}
  <2>1. PICK t \in C : \A u \in C : u \subseteq t => u = t
    <3>1. C \subseteq SUBSET S
      OBVIOUS
    <3> HIDE DEF C
    <3>2. QED BY <1>2, <3>1, Smallest
  <2>2. t \in SUBSET S /\ Sum(f, t) # Sum(g, t) /\ IsFiniteSet(t)
    BY <2>1, FS_Subset
  <2>3. t # {}
    BY <2>2, SumStep
  <2>4. Pick(t) \in t /\ t \ {Pick(t)} \in SUBSET S /\ t \ {Pick(t)} \notin C
    BY <2>1, <2>2, <2>3, Picked
  <2>5. Sum(f, t \ {Pick(t)}) = Sum(g, t \ {Pick(t)}) /\ f[Pick(t)] = g[Pick(t)]
    BY <2>2, <2>4
  <2>6. /\ Sum(f, t) = f[Pick(t)] + Sum(f, t \ {Pick(t)})
        /\ Sum(g, t) = g[Pick(t)] + Sum(g, t \ {Pick(t)})
    BY <2>2, <2>3, SumStep
  <2>7. QED BY <2>2, <2>5, <2>6
<1>3. QED BY <1>1, <1>2

LEMMA SumBound ==
    ASSUME NEW f, NEW S, IsFiniteSet(S), NEW b \in Nat, \A x \in S : f[x] \in -b .. b
    PROVE  Sum(f, S) \in -(b * Cardinality(S)) .. b * Cardinality(S)
<1> DEFINE C == {s \in SUBSET S : ~(Sum(f, s) \in -(b * Cardinality(s)) .. b * Cardinality(s))}
<1>1. CASE C = {}
  BY <1>1
<1>2. CASE C # {}
  <2>1. PICK t \in C : \A u \in C : u \subseteq t => u = t
    <3>1. C \subseteq SUBSET S
      OBVIOUS
    <3> HIDE DEF C
    <3>2. QED BY <1>2, <3>1, Smallest
  <2>2. t \in SUBSET S /\ ~(Sum(f, t) \in -(b * Cardinality(t)) .. b * Cardinality(t))
        /\ IsFiniteSet(t)
    BY <2>1, FS_Subset
  <2>3. t # {}
    <3>1. Sum(f, {}) = 0 /\ Cardinality({}) = 0
      BY SumStep, FS_EmptySet
    <3>2. QED BY <2>2, <3>1
  <2>4. PICK p, u : p = Pick(t) /\ u = t \ {p}
    OBVIOUS
  <2>5. p \in t /\ u \in SUBSET S /\ u \notin C
    BY <2>1, <2>2, <2>3, <2>4, Picked
  <2>6. PICK n, x, y : n = Cardinality(u) /\ x = f[p] /\ y = Sum(f, u)
    OBVIOUS
  <2>7. n \in Nat /\ Cardinality(t) = n + 1
    <3>1. IsFiniteSet(u) /\ Cardinality(u) = Cardinality(t) - 1
      BY <2>2, <2>4, <2>5, FS_RemoveElement
    <3>2. Cardinality(t) \in Nat /\ Cardinality(u) \in Nat
      BY <2>2, <3>1, FS_CardinalityType
    <3>3. QED BY <2>6, <3>1, <3>2
  <2>8. x \in -b .. b /\ y \in -(b * n) .. b * n
    BY <2>2, <2>5, <2>6
  <2>9. Sum(f, t) = x + y
    BY <2>2, <2>3, <2>4, <2>6, SumStep
  <2>10. b * (n + 1) = b * n + b /\ b * n \in Nat
    BY <2>7
  <2>11. x + y \in -(b * (n + 1)) .. b * (n + 1)
    <3> DEFINE m == b * n
    <3>1. m \in Nat /\ b * (n + 1) = m + b /\ y \in -m .. m
      BY <2>8, <2>10
    <3> HIDE DEF m
    <3>2. QED BY <2>8, <3>1
  <2>12. QED BY <2>2, <2>7, <2>9, <2>11
<1>3. QED BY <1>1, <1>2

\* The fold of the community modules, of a function over a subset of its domain.
LEMMA FoldIsSum ==
    ASSUME NEW f, NEW S, IsFiniteSet(S)
    PROVE  MapThenSumSet(LAMBDA x : f[x], S) = Sum(f, S)
BY DEF MapThenSumSet, MapThenFoldSet, Sum, Subtotals, Sums, Pick
=============================================================================
