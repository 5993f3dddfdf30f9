------------------------------ MODULE SumFacts ------------------------------
(***************************************************************************)
(* Sums of natural numbers over a finite set.  The library takes the       *)
(* elements in an order of its own, by a recursive function on the subsets *)
(* of the set; what the models rely on is that the order does not matter.  *)
(***************************************************************************)
EXTENDS Integers, FiniteSets, FiniteSetsExt, FiniteSetTheorems, WellFoundedInduction, TLAPS

First(s) == CHOOSE x \in s : TRUE

(* One step of the sum, with g for the rest. *)
StepOf(f, g, s) == IF s = {} THEN 0 ELSE f[First(s)] + g[s \ {First(s)}]

Recursion(f, S, g) == g = [s \in SUBSET S |-> StepOf(f, g, s)]

(* A set of natural numbers that is not empty has a least one. *)
LEMMA Least ==
  ASSUME NEW T \in SUBSET Nat, T # {} PROVE \E n \in T : \A m \in T : n <= m
<1>1. PICK n \in T : \A m \in T : ~(<<m, n>> \in OpToRel(<, Nat))
  BY NatLessThanWellFounded, WFMin
<1>2. \A m \in T : ~(m < n)
  BY <1>1 DEF OpToRel
<1> QED
  BY <1>2

(* Taking the first element away leaves a smaller set. *)
LEMMA Smaller ==
  ASSUME NEW s, IsFiniteSet(s), s # {}
  PROVE  /\ First(s) \in s /\ IsFiniteSet(s \ {First(s)})
         /\ Cardinality(s) \in Nat /\ Cardinality(s) # 0
         /\ Cardinality(s \ {First(s)}) = Cardinality(s) - 1
<1>1. First(s) \in s
  BY DEF First
<1> QED
  BY <1>1, FS_RemoveElement, FS_CardinalityType, FS_EmptySet

(* g is a function on the subsets of S, right for those of less than n      *)
(* elements.                                                                *)
Solves(f, S, n, g) ==
  /\ g = [s \in SUBSET S |-> g[s]]
  /\ \A s \in SUBSET S : Cardinality(s) < n => g[s] = StepOf(f, g, s)

(* A further step makes it right for the sets of n elements too. *)
LEMMA OneMoreStep ==
  ASSUME NEW S, IsFiniteSet(S), NEW f, NEW n \in Nat, NEW g, Solves(f, S, n, g)
  PROVE  Solves(f, S, n + 1, [s \in SUBSET S |-> StepOf(f, g, s)])
<1> DEFINE h == [s \in SUBSET S |-> StepOf(f, g, s)]
<1>1. ASSUME NEW s \in SUBSET S, Cardinality(s) < n + 1 PROVE h[s] = StepOf(f, h, s)
  <2>1. CASE s = {}
    BY <2>1 DEF StepOf
  <2>2. CASE s # {}
    <3> DEFINE t == s \ {First(s)}
    <3>1. IsFiniteSet(s)
      BY FS_Subset
    <3>2. t \in SUBSET S /\ Cardinality(t) = Cardinality(s) - 1 /\ Cardinality(s) \in Nat
      BY <2>2, <3>1, Smaller
    <3>3. Cardinality(t) < n
      BY <1>1, <3>2
    <3>4. g[t] = StepOf(f, g, t)
      BY <3>2, <3>3 DEF Solves
    <3>5. h[t] = g[t]
      BY <3>2, <3>4
    <3> QED
      BY <2>2, <3>5 DEF StepOf
  <2> QED
    BY <2>1, <2>2
<1>2. h = [s \in SUBSET S |-> h[s]]
  OBVIOUS
<1> QED
  BY <1>1, <1>2 DEF Solves

(* So the recursion has a solution. *)
LEMMA RecursionSolved ==
  ASSUME NEW S, IsFiniteSet(S), NEW f PROVE \E g : Recursion(f, S, g)
<1> DEFINE Bad == {n \in Nat : ~ \E g : Solves(f, S, n, g)}
<1>f. \A s \in SUBSET S : Cardinality(s) \in Nat /\ Cardinality(s) <= Cardinality(S)
  BY FS_Subset, FS_CardinalityType
<1>1. Bad = {}
  <2> SUFFICES ASSUME Bad # {} PROVE FALSE
    OBVIOUS
  <2>1. PICK n \in Bad : \A m \in Bad : n <= m
    <3>1. Bad \in SUBSET Nat
      OBVIOUS
    <3> HIDE DEF Bad
    <3> QED
      BY <3>1, Least
  <2>2. n \in Nat /\ ~ \E g : Solves(f, S, n, g)
    BY <2>1
  <2>3. CASE n = 0
    <3>1. Solves(f, S, 0, [s \in SUBSET S |-> 0])
      BY <1>f DEF Solves
    <3> QED
      BY <2>2, <2>3, <3>1
  <2>4. CASE n # 0
    <3>1. n - 1 \in Nat /\ (n - 1) + 1 = n /\ ~(n <= n - 1)
      BY <2>2, <2>4
    <3>2. n - 1 \notin Bad
      BY <2>1, <3>1
    <3>3. PICK g : Solves(f, S, n - 1, g)
      BY <3>1, <3>2
    <3>4. \E h : Solves(f, S, (n - 1) + 1, h)
      BY <3>1, <3>3, OneMoreStep
    <3> QED
      BY <2>2, <3>1, <3>4
  <2> QED
    BY <2>3, <2>4
<1>2. Cardinality(S) + 1 \in Nat
  BY FS_CardinalityType
<1>3. PICK g : Solves(f, S, Cardinality(S) + 1, g)
  BY <1>1, <1>2
<1>4. \A s \in SUBSET S : Cardinality(s) < Cardinality(S) + 1
  BY <1>f, <1>2
<1>5. \A s \in SUBSET S : g[s] = StepOf(f, g, s)
  BY <1>3, <1>4 DEF Solves
<1>6. [s \in SUBSET S |-> g[s]] = [s \in SUBSET S |-> StepOf(f, g, s)]
  BY <1>5
<1> QED
  BY <1>3, <1>6 DEF Recursion, Solves

(* And only one, whatever set it is solved for. *)
LEMMA RecursionUnique ==
  ASSUME NEW S, NEW T, NEW f, NEW g, NEW h, Recursion(f, S, g), Recursion(f, T, h),
         NEW s \in SUBSET S, s \in SUBSET T, IsFiniteSet(s)
  PROVE  g[s] = h[s]
<1> DEFINE Bad == {n \in Nat : \E t \in SUBSET s : Cardinality(t) = n /\ g[t] # h[t]}
<1>f. \A t \in SUBSET s : IsFiniteSet(t) /\ Cardinality(t) \in Nat
  BY FS_Subset, FS_CardinalityType
<1>e. \A t \in SUBSET s : g[t] = StepOf(f, g, t) /\ h[t] = StepOf(f, h, t)
  BY DEF Recursion
<1>1. Bad = {}
  <2> SUFFICES ASSUME Bad # {} PROVE FALSE
    OBVIOUS
  <2>1. PICK n \in Bad : \A m \in Bad : n <= m
    BY Least
  <2>2. PICK t \in SUBSET s : Cardinality(t) = n /\ g[t] # h[t]
    BY <2>1
  <2>3. CASE t = {}
    BY <1>e, <2>2, <2>3 DEF StepOf
  <2>4. CASE t # {}
    <3> DEFINE u == t \ {First(t)}
    <3>1. u \in SUBSET s /\ Cardinality(u) = n - 1 /\ n - 1 \in Nat /\ n \in Nat
      BY <1>f, <2>2, <2>4, Smaller
    <3>2. g[u] = h[u]
      <4>1. n - 1 \notin Bad
        BY <2>1, <3>1
      <4> QED
        BY <3>1, <4>1
    <3> QED
      BY <1>e, <2>2, <2>4, <3>2 DEF StepOf
  <2> QED
    BY <2>3, <2>4
<1>2. Cardinality(s) \in Nat /\ s \in SUBSET s
  BY <1>f
<1> QED
  BY <1>1, <1>2

(* The sum of the library, one element at a time. *)
LEMMA SumStep ==
  ASSUME NEW f, NEW S, IsFiniteSet(S)
  PROVE  SumFunctionOnSet(f, S) =
           IF S = {} THEN 0 ELSE f[First(S)] + SumFunctionOnSet(f, S \ {First(S)})
<1> DEFINE Solution(T) == CHOOSE g : Recursion(f, T, g)
<1>1. \A T : SumFunctionOnSet(f, T) = Solution(T)[T]
  BY DEF SumFunctionOnSet, FoldFunctionOnSet, MapThenFoldSet, Recursion, StepOf, First
<1>2. \A T : IsFiniteSet(T) => Recursion(f, T, Solution(T))
  BY RecursionSolved
<1> HIDE DEF Solution
<1>3. Solution(S)[S] = StepOf(f, Solution(S), S)
  BY <1>2 DEF Recursion
<1>4. CASE S = {}
  BY <1>1, <1>3, <1>4 DEF StepOf
<1>5. CASE S # {}
  <2> DEFINE t == S \ {First(S)}
  <2>1. t \in SUBSET S /\ IsFiniteSet(t)
    BY <1>5, Smaller
  <2>2. Solution(S)[t] = Solution(t)[t]
    BY <1>2, <2>1, RecursionUnique
  <2> QED
    BY <1>1, <1>3, <1>5, <2>2 DEF StepOf
<1> QED
  BY <1>4, <1>5

LEMMA SumEmpty == ASSUME NEW f PROVE SumFunctionOnSet(f, {}) = 0
BY SumStep, FS_EmptySet

(* The sum is a number, and does not depend on the order. *)
LEMMA SumAnyOrder ==
  ASSUME NEW f, NEW S, IsFiniteSet(S), \A x \in S : f[x] \in Nat
  PROVE  /\ SumFunctionOnSet(f, S) \in Nat
         /\ \A x \in S : SumFunctionOnSet(f, S) = f[x] + SumFunctionOnSet(f, S \ {x})
<1> DEFINE Sum(s) == SumFunctionOnSet(f, s)
           Good(s) == Sum(s) \in Nat /\ \A x \in s : Sum(s) = f[x] + Sum(s \ {x})
           Bad == {n \in Nat : \E s \in SUBSET S : Cardinality(s) = n /\ ~Good(s)}
<1>f. \A s \in SUBSET S : IsFiniteSet(s) /\ Cardinality(s) \in Nat
  BY FS_Subset, FS_CardinalityType
<1>e. \A s \in SUBSET S : Sum(s) = IF s = {} THEN 0 ELSE f[First(s)] + Sum(s \ {First(s)})
  BY <1>f, SumStep
<1> HIDE DEF Sum
<1>1. Bad = {}
  <2> SUFFICES ASSUME Bad # {} PROVE FALSE
    OBVIOUS
  <2>1. PICK n \in Bad : \A m \in Bad : n <= m
    BY Least
  <2>2. PICK s \in SUBSET S : Cardinality(s) = n /\ ~Good(s)
    BY <2>1
  <2>3. s # {} /\ IsFiniteSet(s)
    BY <1>f, <1>e, <2>2
  <2> DEFINE p == First(s)
             r == s \ {p}
  <2>4. p \in s /\ r \in SUBSET S /\ Cardinality(r) = n - 1 /\ n - 1 \in Nat /\ n \in Nat
    BY <1>f, <2>2, <2>3, Smaller
  <2>5. \A t \in SUBSET S : Cardinality(t) = n - 1 => Good(t)
    <3>1. n - 1 \notin Bad
      BY <2>1, <2>4
    <3> QED
      BY <2>4, <3>1
  <2>6. Sum(s) = f[p] + Sum(r) /\ Sum(r) \in Nat /\ f[p] \in Nat
    BY <1>e, <2>3, <2>4, <2>5
  <2>7. ASSUME NEW x \in s PROVE Sum(s) = f[x] + Sum(s \ {x})
    <3>1. CASE x = p
      BY <2>6, <3>1
    <3>2. CASE x # p
      <4> DEFINE o == s \ {x}
                 b == r \ {x}
      <4>1. /\ o \in SUBSET S /\ Cardinality(o) = n - 1 /\ p \in o /\ o \ {p} = b /\ x \in r
        BY <2>2, <2>3, <2>4, <3>2, FS_RemoveElement
      <4>2. Sum(r) = f[x] + Sum(b) /\ Sum(o) = f[p] + Sum(b)
        BY <2>4, <2>5, <4>1
      <4>3. Sum(b) \in Nat
        <5>1. /\ b \in SUBSET S /\ IsFiniteSet(r)
          BY <1>f, <2>4
        <5>2. Cardinality(b) = n - 2 /\ n - 2 \in Nat
          <6>1. Cardinality(b) = Cardinality(r) - 1
            BY <4>1, <5>1, FS_RemoveElement
          <6>2. Cardinality(b) \in Nat
            BY <1>f, <5>1
          <6> QED
            BY <2>4, <6>1, <6>2
        <5>3. n - 2 \notin Bad
          BY <2>1, <2>4, <5>2
        <5> QED
          BY <5>1, <5>2, <5>3
      <4>4. f[x] \in Nat
        BY <2>2
      <4> QED
        BY <2>6, <4>2, <4>3, <4>4
    <3> QED
      BY <3>1, <3>2
  <2>8. Sum(s) \in Nat
    BY <2>6
  <2> QED
    BY <2>2, <2>7, <2>8
<1>2. Good(S)
  BY <1>1, <1>f
<1> QED
  BY <1>2 DEF Sum

(* One more element adds its value, if it is new. *)
LEMMA SumAdd ==
  ASSUME NEW f, NEW S, IsFiniteSet(S), NEW x, \A y \in S \union {x} : f[y] \in Nat
  PROVE  SumFunctionOnSet(f, S \union {x}) =
           IF x \in S THEN SumFunctionOnSet(f, S) ELSE SumFunctionOnSet(f, S) + f[x]
<1>1. CASE x \in S
  <2>1. S \union {x} = S
    BY <1>1
  <2> QED
    BY <1>1, <2>1
<1>2. CASE x \notin S
  <2>1. IsFiniteSet(S \union {x}) /\ (S \union {x}) \ {x} = S
    BY <1>2, FS_AddElement
  <2>2. SumFunctionOnSet(f, S \union {x}) = f[x] + SumFunctionOnSet(f, S)
    BY <2>1, SumAnyOrder
  <2>3. SumFunctionOnSet(f, S) \in Nat /\ f[x] \in Nat
    BY SumAnyOrder
  <2> QED
    BY <1>2, <2>2, <2>3
<1> QED
  BY <1>1, <1>2

(* A sum is zero exactly if all its terms are. *)
LEMMA SumZero ==
  ASSUME NEW f, NEW S, IsFiniteSet(S), \A x \in S : f[x] \in Nat
  PROVE  SumFunctionOnSet(f, S) = 0 <=> \A x \in S : f[x] = 0
<1>1. ASSUME NEW x \in S, SumFunctionOnSet(f, S) = 0 PROVE f[x] = 0
  <2>1. SumFunctionOnSet(f, S) = f[x] + SumFunctionOnSet(f, S \ {x})
    BY SumAnyOrder
  <2>2. SumFunctionOnSet(f, S \ {x}) \in Nat
    BY SumAnyOrder, FS_RemoveElement
  <2> QED
    BY <1>1, <2>1, <2>2
<1>2. ASSUME \A x \in S : f[x] = 0 PROVE SumFunctionOnSet(f, S) = 0
  <2> DEFINE Bad == {n \in Nat : \E s \in SUBSET S : Cardinality(s) = n /\ SumFunctionOnSet(f, s) # 0}
  <2>f. \A s \in SUBSET S : IsFiniteSet(s) /\ Cardinality(s) \in Nat
    BY FS_Subset, FS_CardinalityType
  <2>1. Bad = {}
    <3> SUFFICES ASSUME Bad # {} PROVE FALSE
      OBVIOUS
    <3>1. PICK n \in Bad : \A m \in Bad : n <= m
      BY Least
    <3>2. PICK s \in SUBSET S : Cardinality(s) = n /\ SumFunctionOnSet(f, s) # 0
      BY <3>1
    <3>3. s # {} /\ SumFunctionOnSet(f, s) = f[First(s)] + SumFunctionOnSet(f, s \ {First(s)})
      BY <2>f, <3>2, SumStep
    <3>4. /\ First(s) \in S /\ s \ {First(s)} \in SUBSET S
          /\ Cardinality(s \ {First(s)}) = n - 1 /\ n - 1 \in Nat /\ n \in Nat
      BY <2>f, <3>2, <3>3, Smaller
    <3>5. SumFunctionOnSet(f, s \ {First(s)}) = 0
      <4>1. n - 1 \notin Bad
        BY <3>1, <3>4
      <4> QED
        BY <3>4, <4>1
    <3> QED
      BY <1>2, <3>2, <3>3, <3>4, <3>5
  <2> QED
    BY <2>1, <2>f
<1> QED
  BY <1>1, <1>2
=============================================================================
