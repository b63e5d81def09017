------------------------------ MODULE DataTheorems ------------------------------
(***************************************************************************)
(* What the folds, choices and lists of the models compute, for the other  *)
(* proof modules.                                                          *)
(*                                                                         *)
(* The folds of the community modules are functions that call themselves   *)
(* on smaller sets; a sum of natural numbers over a finite set is shown to *)
(* be the cardinality of a set of units, w[x] of them for each x, so that  *)
(* what is proved of cardinalities holds of sums.  Induction is by a least *)
(* counterexample.                                                         *)
(***************************************************************************)
EXTENDS SequencesExt, FiniteSetTheorems, TLAPS

\* As many elements for each member of s as its weight.
Units(w, s) == {u \in s \X Nat : 1 <= u[2] /\ u[2] <= w[u[1]]}

\* What the folds compute: `sum` adds the weights one member at a time.
Picked(s) == CHOOSE x \in s : TRUE

AddsUp(sum, w, S) ==
  sum = [s \in SUBSET S |-> IF s = {} THEN 0 ELSE w[Picked(s)] + sum[s \ {Picked(s)}]]

\* One member has as many units as it weighs.
LEMMA UnitsOfOne ==
  ASSUME NEW w, NEW x, w[x] \in Nat
  PROVE  IsFiniteSet(Units(w, {x})) /\ Cardinality(Units(w, {x})) = w[x]
<1> DEFINE units == Units(w, {x})
           n == w[x]
           unit == [k \in 1 .. n |-> <<x, k>>]
<1>1. \A k \in 1 .. n : <<x, k>> \in units
  BY DEF Units
<1>2. \A u \in units : u[2] \in 1 .. n /\ u = <<x, u[2]>>
  BY DEF Units
<1>3. unit \in Bijection(1 .. n, units)
  <2>1. unit \in [1 .. n -> units]
    BY <1>1
  <2>2. \A j, k \in 1 .. n : unit[j] = unit[k] => j = k
    OBVIOUS
  <2>3. \A u \in units : \E k \in 1 .. n : unit[k] = u
    BY <1>2
  <2> HIDE DEF unit, units
  <2> QED  BY <2>1, <2>2, <2>3 DEF Bijection, Injection, IsInjective, Surjection
<1>4. IsFiniteSet(1 .. n) /\ Cardinality(1 .. n) = n
  <2> HIDE DEF n
  <2>1. n \in Nat
    BY DEF n
  <2> QED  BY <2>1, FS_Interval
<1> HIDE DEF unit, units
<1>5. ExistsBijection(1 .. n, units)
  BY <1>3 DEF ExistsBijection
<1> QED  BY <1>4, <1>5, FS_Bijection DEF units

\* The units of two sets that have no member in common are apart.
LEMMA UnitsOfBoth ==
  ASSUME NEW w, NEW s, NEW t, s \cap t = {},
         IsFiniteSet(Units(w, s)), IsFiniteSet(Units(w, t))
  PROVE  /\ IsFiniteSet(Units(w, s \cup t))
         /\ Cardinality(Units(w, s \cup t)) = Cardinality(Units(w, s)) + Cardinality(Units(w, t))
<1>1. Units(w, s \cup t) = Units(w, s) \cup Units(w, t)
  BY DEF Units
<1>2. Units(w, s) \cap Units(w, t) = {}
  BY DEF Units
<1>3. /\ IsFiniteSet(Units(w, s) \cup Units(w, t))
      /\ Cardinality(Units(w, s) \cup Units(w, t))
           = Cardinality(Units(w, s)) + Cardinality(Units(w, t)) - Cardinality({})
  BY <1>2, FS_Union
<1>4. Cardinality(Units(w, s)) \in Nat /\ Cardinality(Units(w, t)) \in Nat
  BY FS_CardinalityType
<1>5. Cardinality({}) = 0
  BY FS_EmptySet
<1>6. Cardinality(Units(w, s) \cup Units(w, t)) = Cardinality(Units(w, s)) + Cardinality(Units(w, t))
  BY <1>3, <1>4, <1>5
<1> QED  BY <1>1, <1>3, <1>6

\* A least subset of a finite set with a property some subset has.
LEMMA LeastSubset ==
  ASSUME NEW S, IsFiniteSet(S), NEW T, T \subseteq SUBSET S, T # {}
  PROVE  \E s \in T : \A x \in s : s \ {x} \notin T
<1>1. IsWellFoundedOn(StrictSubsetOrdering(S), SUBSET S)
  BY FS_StrictSubsetOrderingWellFounded, FS_FiniteSubsetsOfFinite
<1>2. PICK s \in T : \A t \in T : <<t, s>> \notin StrictSubsetOrdering(S)
  BY <1>1, WFMin
<1>3. \A x \in s : <<s \ {x}, s>> \in StrictSubsetOrdering(S)
  BY DEF StrictSubsetOrdering
<1> QED  BY <1>2, <1>3

\* Finitely many members have finitely many units.
LEMMA UnitsFinite ==
  ASSUME NEW S, IsFiniteSet(S), NEW w, \A x \in S : w[x] \in Nat
  PROVE  \A s \in SUBSET S : IsFiniteSet(Units(w, s))
<1> DEFINE infinite == {s \in SUBSET S : ~ IsFiniteSet(Units(w, s))}
<1>1. SUFFICES ASSUME infinite # {} PROVE FALSE
  OBVIOUS
<1>2. PICK s \in infinite : \A x \in s : s \ {x} \notin infinite
  BY <1>1, LeastSubset
<1>3. CASE s = {}
  <2>1. Units(w, s) = {}
    BY <1>3 DEF Units
  <2> QED  BY <2>1, FS_EmptySet
<1>4. CASE s # {}
  <2>1. PICK x \in s : TRUE
    BY <1>4
  <2>2. IsFiniteSet(Units(w, s \ {x}))
    BY <1>2, <2>1
  <2>3. IsFiniteSet(Units(w, {x}))
    BY <2>1, UnitsOfOne
  <2>4. (s \ {x}) \cup {x} = s /\ (s \ {x}) \cap {x} = {}
    BY <2>1
  <2>5. IsFiniteSet(Units(w, (s \ {x}) \cup {x}))
    BY <2>2, <2>3, <2>4, UnitsOfBoth
  <2> QED  BY <2>4, <2>5
<1> QED  BY <1>3, <1>4

\* Taking one member away takes its weight.
LEMMA UnitsWithout ==
  ASSUME NEW S, IsFiniteSet(S), NEW w, \A x \in S : w[x] \in Nat,
         NEW s \in SUBSET S, NEW x \in s
  PROVE  Cardinality(Units(w, s)) = w[x] + Cardinality(Units(w, s \ {x}))
<1>1. (s \ {x}) \cup {x} = s /\ (s \ {x}) \cap {x} = {} /\ s \ {x} \in SUBSET S
  OBVIOUS
<1>2. IsFiniteSet(Units(w, s \ {x}))
  BY <1>1, UnitsFinite
<1>3. IsFiniteSet(Units(w, {x})) /\ Cardinality(Units(w, {x})) = w[x]
  BY UnitsOfOne
<1>4. Cardinality(Units(w, (s \ {x}) \cup {x}))
        = Cardinality(Units(w, s \ {x})) + Cardinality(Units(w, {x}))
  BY <1>1, <1>2, <1>3, UnitsOfBoth
<1>5. Cardinality(Units(w, s \ {x})) \in Nat
  BY <1>2, FS_CardinalityType
<1>6. Units(w, (s \ {x}) \cup {x}) = Units(w, s)
  BY <1>1
<1> QED  BY <1>3, <1>4, <1>5, <1>6

\* There is a function that adds up.
LEMMA SumExists ==
  ASSUME NEW S, IsFiniteSet(S), NEW w, \A x \in S : w[x] \in Nat
  PROVE  \E sum : AddsUp(sum, w, S)
<1> DEFINE sum == [s \in SUBSET S |-> Cardinality(Units(w, s))]
           next(s) == IF s = {} THEN 0 ELSE w[Picked(s)] + sum[s \ {Picked(s)}]
<1>1. ASSUME NEW s \in SUBSET S
      PROVE  sum[s] = next(s)
  <2>1. CASE s = {}
    <3>1. Units(w, s) = {}
      BY <2>1 DEF Units
    <3> QED  BY <2>1, <3>1, FS_EmptySet
  <2>2. CASE s # {}
    <3>1. Picked(s) \in s
      BY <2>2 DEF Picked
    <3>2. sum[s \ {Picked(s)}] = Cardinality(Units(w, s \ {Picked(s)}))
      OBVIOUS
    <3> QED  BY <2>2, <3>1, <3>2, UnitsWithout
  <2> QED  BY <2>1, <2>2
<1>2. sum = [s \in SUBSET S |-> sum[s]]
  OBVIOUS
<1> HIDE DEF sum
<1>3. sum = [s \in SUBSET S |-> next(s)]
  BY <1>1, <1>2
<1> QED  BY <1>3 DEF AddsUp

\* Whatever adds up gives the number of units.
LEMMA SumIsUnits ==
  ASSUME NEW S, IsFiniteSet(S), NEW w, \A x \in S : w[x] \in Nat,
         NEW sum, AddsUp(sum, w, S)
  PROVE  sum[S] = Cardinality(Units(w, S))
<1> DEFINE wrong == {s \in SUBSET S : sum[s] # Cardinality(Units(w, s))}
<1>1. SUFFICES ASSUME wrong # {} PROVE FALSE
  OBVIOUS
<1>2. PICK s \in wrong : \A x \in s : s \ {x} \notin wrong
  BY <1>1, LeastSubset
<1>3. CASE s = {}
  <2>1. Units(w, s) = {} /\ sum[s] = 0
    BY <1>3 DEF Units, AddsUp
  <2> QED  BY <2>1, FS_EmptySet
<1>4. CASE s # {}
  <2>1. Picked(s) \in s
    BY <1>4 DEF Picked
  <2>2. sum[s] = w[Picked(s)] + sum[s \ {Picked(s)}]
    BY <1>4 DEF AddsUp
  <2>3. sum[s \ {Picked(s)}] = Cardinality(Units(w, s \ {Picked(s)}))
    BY <1>2, <2>1
  <2> QED  BY <2>1, <2>2, <2>3, UnitsWithout
<1> QED  BY <1>3, <1>4

-----------------------------------------------------------------------------
(* The folds.                                                               *)

\* The sum of a function's values is the number of its units.
LEMMA SumFunctionIsUnits ==
  ASSUME NEW w, IsFiniteSet(DOMAIN w), \A x \in DOMAIN w : w[x] \in Nat
  PROVE  SumFunction(w) = Cardinality(Units(w, DOMAIN w))
<1> DEFINE S == DOMAIN w
           iter == CHOOSE f : f = [s \in SUBSET S |->
                     IF s = {} THEN 0
                     ELSE w[CHOOSE x \in s : TRUE] + f[s \ {CHOOSE x \in s : TRUE}]]
<1>1. SumFunction(w) = iter[S]
  BY DEF SumFunction, SumFunctionOnSet, FoldFunctionOnSet, MapThenFoldSet
<1>2. \E f : f = [s \in SUBSET S |->
                     IF s = {} THEN 0
                     ELSE w[CHOOSE x \in s : TRUE] + f[s \ {CHOOSE x \in s : TRUE}]]
  <2>1. PICK sum : AddsUp(sum, w, S)
    BY SumExists
  <2>2. sum = [s \in SUBSET S |->
                 IF s = {} THEN 0
                 ELSE w[CHOOSE x \in s : TRUE] + sum[s \ {CHOOSE x \in s : TRUE}]]
    BY <2>1 DEF AddsUp, Picked
  <2> QED  BY <2>2
<1>3. AddsUp(iter, w, S)
  BY <1>2 DEF AddsUp, Picked
<1> HIDE DEF iter
<1> QED  BY <1>1, <1>3, SumIsUnits

-----------------------------------------------------------------------------
(* Comparing sums.                                                          *)

\* Where each member of T is reached from a member of S that weighs as much,
\* T weighs no more than S.
LEMMA ReachedWeighsNoMore ==
  ASSUME NEW S, IsFiniteSet(S), NEW v, \A x \in S : v[x] \in Nat,
         NEW T, NEW w, NEW g \in [S -> T],
         \A y \in T : \E x \in S : g[x] = y,
         \A x \in S : w[g[x]] = v[x]
  PROVE  Cardinality(Units(w, T)) <= Cardinality(Units(v, S))
<1> DEFINE A == Units(v, S)
           B == Units(w, T)
           h == [u \in A |-> <<g[u[1]], u[2]>>]
<1>1. \A u \in A : <<g[u[1]], u[2]>> \in B
  BY DEF Units
<1>2. \A c \in B : \E u \in A : <<g[u[1]], u[2]>> = c
  <2> SUFFICES ASSUME NEW c \in B PROVE \E u \in A : <<g[u[1]], u[2]>> = c
    OBVIOUS
  <2>1. c[1] \in T /\ c[2] \in Nat /\ 1 <= c[2] /\ c[2] <= w[c[1]] /\ c = <<c[1], c[2]>>
    BY DEF Units
  <2>2. PICK x \in S : g[x] = c[1]
    BY <2>1
  <2>3. <<x, c[2]>> \in A
    BY <2>1, <2>2 DEF Units
  <2> QED  BY <2>1, <2>2, <2>3
<1>3. IsFiniteSet(A)
  BY UnitsFinite
<1> HIDE DEF A, B
<1>4. h \in Surjection(A, B)
  BY <1>1, <1>2 DEF Surjection
<1> QED  BY <1>3, <1>4, FS_Surjection DEF A, B

-----------------------------------------------------------------------------
(* Sorting.                                                                 *)

\* A set of numbers has a least one.
LEMMA LeastNumber ==
  ASSUME NEW T \in SUBSET Nat, T # {}
  PROVE  \E n \in T : \A m \in T : n <= m
<1>1. PICK n \in T : \A m \in T : <<m, n>> \notin OpToRel(<, Nat)
  BY NatLessThanWellFounded, WFMin
<1>2. \A m \in T : ~ (m < n)
  BY <1>1 DEF OpToRel
<1> QED  BY <1>2

\* R orders the members of S.
Orders(R, S) ==
  /\ \A a \in S : <<a, a>> \notin R
  /\ \A a, b, c \in S : <<a, b>> \in R /\ <<b, c>> \in R => <<a, c>> \in R
  /\ \A a, b \in S : a = b \/ <<a, b>> \in R \/ <<b, a>> \in R

\* A finite set can be listed in order: each member goes to the place that the
\* number of those before it says.
LEMMA SortingExists ==
  ASSUME NEW S, IsFiniteSet(S), NEW R, Orders(R, S)
  PROVE  \E t \in SetToSeqs(S) : \A i, j \in DOMAIN t : i < j => <<t[i], t[j]>> \in R
<1> DEFINE n == Cardinality(S)
           N == 1 .. n
           Below(a) == {b \in S : <<b, a>> \in R}
           rank == [a \in S |-> Cardinality(Below(a)) + 1]
<1>1. n \in Nat /\ IsFiniteSet(N) /\ Cardinality(N) = n
  <2>1. n \in Nat
    BY FS_CardinalityType
  <2> HIDE DEF n
  <2> QED  BY <2>1, FS_Interval
<1>2. ASSUME NEW a \in S
      PROVE  /\ IsFiniteSet(Below(a))
             /\ Cardinality(Below(a)) \in Nat
             /\ Cardinality(Below(a)) + 1 \in N
  <2>1. Below(a) \in SUBSET (S \ {a})
    BY DEF Orders
  <2>2. IsFiniteSet(S \ {a}) /\ Cardinality(S \ {a}) = n - 1
    BY FS_RemoveElement
  <2> HIDE DEF Below, n
  <2>3. IsFiniteSet(Below(a)) /\ Cardinality(Below(a)) <= n - 1
    BY <2>1, <2>2, FS_Subset
  <2>4. Cardinality(Below(a)) \in Nat
    BY <2>3, FS_CardinalityType
  <2> QED  BY <1>1, <2>3, <2>4
<1>3. rank \in [S -> N]
  <2> HIDE DEF Below, N
  <2> QED  BY <1>2
<1>4. ASSUME NEW a \in S, NEW b \in S, <<a, b>> \in R
      PROVE  rank[a] < rank[b]
  <2>1. a \notin Below(a) /\ Below(a) \cup {a} \in SUBSET Below(b)
    BY <1>4 DEF Orders
  <2>2. /\ IsFiniteSet(Below(a)) /\ IsFiniteSet(Below(b))
        /\ Cardinality(Below(a)) \in Nat /\ Cardinality(Below(b)) \in Nat
    BY <1>2
  <2>3. rank[a] = Cardinality(Below(a)) + 1 /\ rank[b] = Cardinality(Below(b)) + 1
    OBVIOUS
  <2> HIDE DEF Below, rank
  <2>4. Cardinality(Below(a) \cup {a}) = Cardinality(Below(a)) + 1
    BY <2>1, <2>2, FS_AddElement
  <2>5. Cardinality(Below(a) \cup {a}) <= Cardinality(Below(b))
    BY <2>1, <2>2, FS_Subset
  <2> QED  BY <2>2, <2>3, <2>4, <2>5
<1> HIDE DEF rank
<1>5. \A a \in S : rank[a] \in Nat
  BY <1>1, <1>3
<1>6. \A a, b \in S : rank[a] = rank[b] => a = b
  <2> SUFFICES ASSUME NEW a \in S, NEW b \in S, a # b PROVE rank[a] # rank[b]
    OBVIOUS
  <2>1. rank[a] < rank[b] \/ rank[b] < rank[a]
    BY <1>4 DEF Orders
  <2> QED  BY <1>5, <2>1
<1>7. \A i \in N : \E a \in S : rank[a] = i
  <2>1. rank \in Injection(S, N)
    BY <1>3, <1>6 DEF Injection, IsInjective
  <2> HIDE DEF N
  <2>2. rank \in Surjection(S, N)
    BY <1>1, <2>1, FS_Injection
  <2> QED  BY <2>2 DEF Surjection
<1> DEFINE t == [i \in N |-> CHOOSE a \in S : rank[a] = i]
<1>8. \A i \in N : t[i] \in S /\ rank[t[i]] = i
  BY <1>7
<1>9. t \in [N -> S]
  BY <1>8
<1>10. DOMAIN t = N
  OBVIOUS
<1> HIDE DEF t
<1>11. t \in SetToSeqs(S)
  <2>1. \A i, j \in N : t[i] = t[j] => i = j
    BY <1>8
  <2> QED  BY <1>9, <1>10, <2>1 DEF SetToSeqs, IsInjective
<1>12. \A i, j \in N : i < j => <<t[i], t[j]>> \in R
  <2> SUFFICES ASSUME NEW i \in N, NEW j \in N, i < j PROVE <<t[i], t[j]>> \in R
    OBVIOUS
  <2>1. t[i] \in S /\ t[j] \in S /\ rank[t[i]] = i /\ rank[t[j]] = j
    BY <1>8
  <2>2. t[i] # t[j]
    BY <2>1
  <2>3. <<t[j], t[i]>> \notin R
    BY <1>4, <2>1
  <2> QED  BY <2>1, <2>2, <2>3 DEF Orders
<1> QED  BY <1>10, <1>11, <1>12

-----------------------------------------------------------------------------
(* Flattening.                                                              *)

\* What the flattening of lists computes.
Flattens(f, seqs, n) ==
  f = [i \in 1 .. n |-> IF i = 1 THEN seqs[i] ELSE f[i - 1] \o seqs[i]]

\* There is a function that flattens.
LEMMA FlatteningExists ==
  ASSUME NEW seqs, NEW n \in Nat
  PROVE  \E f : Flattens(f, seqs, n)
<1> DEFINE bad == {m \in Nat : ~ \E f : Flattens(f, seqs, m)}
<1>1. SUFFICES ASSUME bad # {} PROVE FALSE
  OBVIOUS
<1>2. PICK m \in bad : \A k \in bad : m <= k
  BY <1>1, LeastNumber
<1>3. CASE m = 0
  <2> DEFINE f == [i \in 1 .. 0 |-> i]
  <2>1. f = [i \in 1 .. 0 |-> IF i = 1 THEN seqs[i] ELSE f[i - 1] \o seqs[i]]
    OBVIOUS
  <2> HIDE DEF f
  <2>2. Flattens(f, seqs, 0)
    BY <2>1 DEF Flattens
  <2> QED  BY <1>3, <2>2
<1>4. CASE m # 0
  <2>1. m - 1 \in Nat /\ m - 1 \notin bad
    BY <1>2, <1>4
  <2>2. PICK g : Flattens(g, seqs, m - 1)
    BY <2>1
  <2> DEFINE last == IF m = 1 THEN seqs[m] ELSE g[m - 1] \o seqs[m]
             f == [i \in 1 .. m |-> IF i = m THEN last ELSE g[i]]
  <2>3. \A i \in 1 .. m - 1 : g[i] = IF i = 1 THEN seqs[i] ELSE g[i - 1] \o seqs[i]
    BY <2>2 DEF Flattens
  <2>4. \A i \in 1 .. m : f[i] = IF i = m THEN last ELSE g[i]
    OBVIOUS
  <2>5. \A i \in 1 .. m : f[i] = IF i = 1 THEN seqs[i] ELSE f[i - 1] \o seqs[i]
    <3> SUFFICES ASSUME NEW i \in 1 .. m
                 PROVE  f[i] = IF i = 1 THEN seqs[i] ELSE f[i - 1] \o seqs[i]
      OBVIOUS
    <3>1. CASE i = 1
      BY <2>3, <2>4, <3>1
    <3>2. CASE i # 1
      <4>1. i - 1 \in 1 .. m /\ i - 1 # m
        BY <3>2
      <4>2. f[i - 1] = g[i - 1]
        BY <2>4, <4>1
      <4>3. f[i] = g[i - 1] \o seqs[i]
        <5>1. i = m => f[i] = last
          BY <2>4
        <5>2. i # m => f[i] = g[i] /\ i \in 1 .. m - 1
          BY <2>4
        <5> HIDE DEF f
        <5> QED  BY <2>3, <3>2, <5>1, <5>2
      <4> QED  BY <3>2, <4>2, <4>3
    <3> QED  BY <3>1, <3>2
  <2>6. f = [i \in 1 .. m |-> f[i]]
    OBVIOUS
  <2> HIDE DEF f, last
  <2>7. f = [i \in 1 .. m |-> IF i = 1 THEN seqs[i] ELSE f[i - 1] \o seqs[i]]
    BY <2>5, <2>6
  <2> QED  BY <2>7 DEF Flattens
<1> QED  BY <1>3, <1>4

\* What all lists are and what concatenation preserves, the flattening is.
LEMMA FlatteningPreserves ==
  ASSUME NEW G, <<>> \in G, \A u, v \in G : u \o v \in G,
         NEW n \in Nat, NEW seqs, DOMAIN seqs = 1 .. n, Len(seqs) = n,
         seqs = [i \in 1 .. n |-> seqs[i]],
         \A i \in 1 .. n : seqs[i] \in G
  PROVE  FlattenSeq(seqs) \in G
<1> DEFINE flatten == CHOOSE f : f = [i \in 1 .. Len(seqs) |->
                        IF i = 1 THEN seqs[i] ELSE f[i - 1] \o seqs[i]]
<1>1. CASE n = 0
  <2>1. seqs = <<>>
    BY <1>1
  <2>2. FlattenSeq(seqs) = seqs
    BY <1>1 DEF FlattenSeq
  <2> QED  BY <2>1, <2>2
<1>2. CASE n # 0
  <2>1. FlattenSeq(seqs) = flatten[n]
    BY <1>2 DEF FlattenSeq
  <2>2. Flattens(flatten, seqs, n)
    <3>1. PICK f : Flattens(f, seqs, n)
      BY FlatteningExists
    <3>2. f = [i \in 1 .. Len(seqs) |-> IF i = 1 THEN seqs[i] ELSE f[i - 1] \o seqs[i]]
      BY <3>1 DEF Flattens
    <3>3. flatten = [i \in 1 .. Len(seqs) |->
                       IF i = 1 THEN seqs[i] ELSE flatten[i - 1] \o seqs[i]]
      BY <3>2
    <3> HIDE DEF flatten
    <3> QED  BY <3>3 DEF Flattens
  <2> HIDE DEF flatten
  <2> DEFINE bad == {m \in 1 .. n : flatten[m] \notin G}
  <2>3. bad = {}
    <3> SUFFICES ASSUME bad # {} PROVE FALSE
      OBVIOUS
    <3>1. PICK m \in bad : \A k \in bad : m <= k
      <4>1. bad \in SUBSET Nat
        OBVIOUS
      <4> HIDE DEF bad
      <4> QED  BY <4>1, LeastNumber
    <3>2. flatten[m] = IF m = 1 THEN seqs[m] ELSE flatten[m - 1] \o seqs[m]
      BY <2>2 DEF Flattens
    <3>3. CASE m = 1
      BY <3>1, <3>2, <3>3
    <3>4. CASE m # 1
      <4>1. m - 1 \in 1 .. n /\ m - 1 \notin bad
        BY <3>1, <3>4
      <4> QED  BY <3>1, <3>2, <3>4, <4>1
    <3> QED  BY <3>3, <3>4
  <2> QED  BY <1>2, <2>1, <2>3
<1> QED  BY <1>1, <1>2

-----------------------------------------------------------------------------
(* Sequences by their elements.                                             *)

\* A sequence is over what it holds.
LEMMA OverItsRange ==
  ASSUME NEW X, NEW s \in Seq(X)
  PROVE  s \in Seq(Range(s))
BY DEF Range

\* All of a sequence but its last element.
LEMMA FrontElements ==
  ASSUME NEW X, NEW s \in Seq(X), s # <<>>
  PROVE  /\ Len(s) \in Nat \ {0}
         /\ Front(s) \in Seq(X)
         /\ Len(Front(s)) = Len(s) - 1
         /\ \A i \in 1 .. Len(s) - 1 : Front(s)[i] = s[i]
<1>1. Len(s) \in Nat \ {0}
  OBVIOUS
<1> DEFINE k == Len(s) - 1
<1>2. k \in Nat /\ k <= Len(s)
  BY <1>1
<1>3. Front(s) = SubSeq(s, 1, k)
  BY DEF Front
<1> HIDE DEF k
<1>4. Len(SubSeq(s, 1, k)) = k /\ SubSeq(s, 1, k) \in Seq(X)
  BY <1>2
<1>5. \A i \in 1 .. k : SubSeq(s, 1, k)[i] = s[i]
  BY <1>2
<1> QED  BY <1>1, <1>3, <1>4, <1>5 DEF k

\* A list of one element.
LEMMA OneElement ==
  ASSUME NEW X, NEW x \in X
  PROVE  /\ <<x>> \in Seq(X) /\ Len(<<x>>) = 1 /\ <<x>> # <<>> /\ <<x>>[1] = x
         /\ Front(<<x>>) = <<>>
<1>1. <<x>> \in Seq(X) /\ Len(<<x>>) = 1 /\ <<x>> # <<>> /\ <<x>>[1] = x
  OBVIOUS
<1> DEFINE one == <<x>>
<1> HIDE DEF one
<1>2. Front(one) \in Seq(X) /\ Len(Front(one)) = Len(one) - 1
  BY <1>1, FrontElements DEF one
<1> QED  BY <1>1, <1>2 DEF one

\* The directory above a path that is below another.
LEMMA FrontBelow ==
  ASSUME NEW X, NEW directory \in X, NEW path \in Seq(X), path # <<>>
  PROVE  Front(<<directory>> \o path) = <<directory>> \o Front(path)
<1> DEFINE whole == <<directory>> \o path
           above == <<directory>> \o Front(path)
           m == Len(path)
<1>1. /\ m \in Nat \ {0}
      /\ Front(path) \in Seq(X) /\ Len(Front(path)) = m - 1
      /\ \A i \in 1 .. m - 1 : Front(path)[i] = path[i]
  BY FrontElements
<1>2. <<directory>> \in Seq(X) /\ Len(<<directory>>) = 1
  OBVIOUS
<1>3. /\ whole \in Seq(X) /\ Len(whole) = m + 1 /\ whole[1] = directory
      /\ \A i \in 2 .. m + 1 : whole[i] = path[i - 1]
  BY <1>1, <1>2
<1>4. /\ above \in Seq(X) /\ Len(above) = m /\ above[1] = directory
      /\ \A i \in 2 .. m : above[i] = path[i - 1]
  BY <1>1, <1>2
<1> HIDE DEF whole, above, m
<1>5. /\ Front(whole) \in Seq(X) /\ Len(Front(whole)) = m
      /\ \A i \in 1 .. m : Front(whole)[i] = whole[i]
  <2>1. whole # <<>> /\ whole \in Seq(X) /\ Len(whole) - 1 = m
    BY <1>1, <1>3
  <2>2. /\ Front(whole) \in Seq(X) /\ Len(Front(whole)) = Len(whole) - 1
        /\ \A i \in 1 .. Len(whole) - 1 : Front(whole)[i] = whole[i]
    BY <2>1, FrontElements
  <2> QED  BY <2>1, <2>2
<1>6. \A i \in 1 .. m : above[i] = whole[i]
  <2> SUFFICES ASSUME NEW i \in 1 .. m PROVE above[i] = whole[i]
    OBVIOUS
  <2>1. CASE i = 1
    BY <1>3, <1>4, <2>1
  <2>2. CASE i # 1
    <3>1. i \in 2 .. m /\ i \in 2 .. m + 1
      BY <1>1, <2>2
    <3> QED  BY <1>3, <1>4, <3>1
  <2> QED  BY <2>1, <2>2
<1>7. Front(whole) = above
  <2>1. \A i \in 1 .. m : Front(whole)[i] = above[i]
    BY <1>5, <1>6
  <2>2. Front(whole) \in Seq(X) /\ above \in Seq(X) /\ Len(Front(whole)) = Len(above)
          /\ Len(above) = m
    BY <1>4, <1>5
  <2> QED  BY <2>1, <2>2
<1> QED  BY <1>7 DEF whole, above
=================================================================================
