-------------------------------- MODULE Sums --------------------------------
(***************************************************************************)
(* What a sum over a finite set comes to, in whatever order it is taken:   *)
(* payments.Paid and the amounts an invoice is settled by are such sums    *)
(* (MapThenSumSet of FiniteSetsExt).                                       *)
(*                                                                         *)
(* The inductions are on the number of elements, and each is put as: a set *)
(* of numbers that is not empty has a least one (Least).                   *)
(***************************************************************************)
EXTENDS Integers, FiniteSetsExt, FiniteSetTheorems, WellFoundedInduction, TLAPS

\* The sum of w's values at the elements of S.
Sum(w, S) == MapThenSumSet(LAMBDA x : w[x], S)

\* The element that a sum over s takes first.
First(s) == CHOOSE x \in s : TRUE

\* f has the sums over the sets of D.
Adds(f, w, D) ==
  f = [s \in D |-> IF s = {} THEN 0 ELSE w[First(s)] + f[s \ {First(s)}]]

-----------------------------------------------------------------------------
\* A set of natural numbers has a least one.
LEMMA Least ==
  ASSUME NEW S \in SUBSET Nat, S # {}
  PROVE  Min(S) \in S /\ \A y \in S : Min(S) <= y
<1> DEFINE R == OpToRel(<, Nat)
<1>1. \E x \in S : \A y \in S : ~(<<y, x>> \in R)
  <2>1. IsWellFoundedOn(R, Nat)
    BY NatLessThanWellFounded
  <2> HIDE DEF R
  <2> QED
    BY <2>1, WFMin
<1>2. \A x, y \in Nat : <<y, x>> \in R <=> y < x
  BY DEF OpToRel
<1>3. PICK x \in S : \A y \in S : ~(<<y, x>> \in R)
  BY <1>1
<1> HIDE DEF R
<1>4. \A y \in S : y \in Nat /\ x \in Nat /\ ~(y < x)
  BY <1>2, <1>3
<1>5. \A y \in S : x <= y
  BY <1>4
<1> QED
  BY <1>5 DEF Min

\* Without one of its elements a set has one element fewer.
LEMMA Smaller ==
  ASSUME NEW S, IsFiniteSet(S), NEW x \in S
  PROVE  /\ IsFiniteSet(S \ {x}) /\ S \ {x} \subseteq S
         /\ Cardinality(S) \in Nat \ {0} /\ Cardinality(S \ {x}) \in Nat
         /\ Cardinality(S \ {x}) = Cardinality(S) - 1
<1>1. IsFiniteSet(S \ {x}) /\ Cardinality(S \ {x}) = Cardinality(S) - 1
  BY FS_RemoveElement
<1>2. Cardinality(S) \in Nat /\ Cardinality(S) # 0
  BY FS_CardinalityType, FS_EmptySet
<1>3. Cardinality(S \ {x}) \in Nat
  BY <1>1, FS_CardinalityType
<1> QED
  BY <1>1, <1>2, <1>3

\* The first element of a set that is not empty is one of it.
LEMMA FirstIn == ASSUME NEW S, S # {} PROVE First(S) \in S
BY DEF First

\* Of some subsets of a finite set there is one from which no element can be taken
\* without leaving them: what an induction over finite sets comes down to.
LEMMA LeastSubset ==
  ASSUME NEW S, IsFiniteSet(S), NEW B \in SUBSET SUBSET S, B # {}
  PROVE  \E s \in B : IsFiniteSet(s) /\ \A x \in s : s \ {x} \notin B
<1> DEFINE N == {Cardinality(s) : s \in B}
<1>1. \A s \in B : IsFiniteSet(s) /\ Cardinality(s) \in Nat
  BY FS_Subset, FS_CardinalityType
<1>2. N \in SUBSET Nat /\ N # {}
  BY <1>1
<1>3. \A s \in B : Cardinality(s) \in N
  OBVIOUS
<1>4. PICK s \in B : Cardinality(s) = Min(N)
  <2>1. Min(N) \in N
    BY <1>2, Least
  <2> QED
    BY <2>1
<1> HIDE DEF N
<1>5. \A r \in B : Cardinality(s) <= Cardinality(r)
  <2>1. \A n \in N : Min(N) <= n
    BY <1>2, Least
  <2> QED
    BY <1>3, <1>4, <2>1
<1>6. ASSUME NEW x \in s, s \ {x} \in B PROVE FALSE
  BY <1>1, <1>5, <1>6, Smaller
<1> QED
  BY <1>1, <1>6

\* There is a function with all the sums: its values at sets of n elements follow from those
\* at smaller sets.
LEMMA SumsExist ==
  ASSUME NEW S, IsFiniteSet(S), NEW w
  PROVE  \E f : Adds(f, w, SUBSET S)
<1> DEFINE Level(n) == {s \in SUBSET S : Cardinality(s) <= n}
           Bad == {n \in Nat : ~\E f : Adds(f, w, Level(n))}
<1>1. \A s \in SUBSET S : IsFiniteSet(s) /\ Cardinality(s) \in Nat /\ Cardinality(s) <= Cardinality(S)
  BY FS_Subset, FS_CardinalityType
<1>2. ASSUME Bad # {} PROVE FALSE
  <2>1. PICK n \in Bad : \A m \in Bad : n <= m
    <3>1. Bad \in SUBSET Nat
      OBVIOUS
    <3> HIDE DEF Bad
    <3> QED
      BY <1>2, <3>1, Least
  <2>2. CASE n = 0
    <3>1. \A s \in Level(0) : s = {}
      BY <1>1, FS_EmptySet
    <3>2. Adds([s \in Level(0) |-> 0], w, Level(0))
      BY <3>1 DEF Adds
    <3> QED
      BY <2>1, <2>2, <3>2
  <2>3. CASE n # 0
    <3>1. n - 1 \in Nat /\ ~(n <= n - 1) /\ n \in Nat
      BY <2>3
    <3>2. PICK f : Adds(f, w, Level(n - 1))
      BY <2>1, <3>1
    <3> DEFINE g == [s \in Level(n) |-> IF s = {} THEN 0 ELSE w[First(s)] + f[s \ {First(s)}]]
    <3>3. Level(n - 1) \subseteq Level(n)
      BY <1>1, <3>1
    <3>4. \A r \in Level(n - 1) : f[r] = g[r]
      BY <3>2, <3>3, Zenon DEF Adds
    <3>5. ASSUME NEW s \in Level(n), s # {} PROVE s \ {First(s)} \in Level(n - 1)
      <4>1. IsFiniteSet(s) /\ First(s) \in s
        BY <1>1, <3>5, FirstIn
      <4>2. Cardinality(s \ {First(s)}) = Cardinality(s) - 1 /\ s \ {First(s)} \subseteq s
        BY <4>1, Smaller
      <4> QED
        BY <1>1, <3>1, <3>5, <4>2
    <3> HIDE DEF Level
    <3>6. \A s \in Level(n) : s # {} => f[s \ {First(s)}] = g[s \ {First(s)}]
      BY <3>4, <3>5
    <3>7. Adds(g, w, Level(n))
      <4>1. g = [s \in Level(n) |-> IF s = {} THEN 0 ELSE w[First(s)] + g[s \ {First(s)}]]
        <5> DEFINE F(s) == IF s = {} THEN 0 ELSE w[First(s)] + f[s \ {First(s)}]
                   G(s) == IF s = {} THEN 0 ELSE w[First(s)] + g[s \ {First(s)}]
        <5>1. \A s \in Level(n) : F(s) = G(s)
          BY <3>6, Zenon
        <5>2. g = [s \in Level(n) |-> F(s)]
          OBVIOUS
        <5> HIDE DEF F, G, g
        <5>3. g = [s \in Level(n) |-> G(s)]
          BY <5>1, <5>2, Zenon
        <5> QED
          BY <5>3 DEF G
      <4> HIDE DEF g
      <4> QED
        BY <4>1 DEF Adds
    <3> QED
      BY <2>1, <3>7
  <2> QED
    BY <2>2, <2>3
<1>3. Level(Cardinality(S)) = SUBSET S /\ Cardinality(S) \in Nat
  BY <1>1, FS_CardinalityType
<1>4. \E f : Adds(f, w, Level(Cardinality(S)))
  BY <1>2, <1>3
<1> QED
  BY <1>3, <1>4

\* Two functions with sums agree on a set they both have.
LEMMA SumsAgree ==
  ASSUME NEW S, IsFiniteSet(S), NEW T, T \subseteq S, NEW w,
         NEW f, NEW g, Adds(f, w, SUBSET S), Adds(g, w, SUBSET T)
  PROVE  f[T] = g[T]
<1> DEFINE B == {s \in SUBSET T : f[s] # g[s]}
<1>1. ASSUME B # {} PROVE FALSE
  <2>1. IsFiniteSet(T) /\ B \in SUBSET SUBSET T
    BY FS_Subset
  <2>2. PICK s \in B : \A x \in s : s \ {x} \notin B
    <3> HIDE DEF B
    <3> QED
      BY <1>1, <2>1, LeastSubset
  <2>3. s \in SUBSET T /\ s \in SUBSET S /\ f[s] # g[s]
    OBVIOUS
  <2>4. s # {} => f[s \ {First(s)}] = g[s \ {First(s)}]
    BY <2>2, <2>3, FirstIn
  <2>5. /\ f[s] = IF s = {} THEN 0 ELSE w[First(s)] + f[s \ {First(s)}]
        /\ g[s] = IF s = {} THEN 0 ELSE w[First(s)] + g[s \ {First(s)}]
    BY <2>3, Zenon DEF Adds
  <2> QED
    BY <2>3, <2>4, <2>5
<1>2. T \in SUBSET T
  OBVIOUS
<1> QED
  BY <1>1, <1>2

\* The sum over nothing is zero, the sum over something its first element's value and
\* the sum over the rest.
LEMMA SumSteps ==
  ASSUME NEW S, IsFiniteSet(S), NEW w
  PROVE  /\ S = {} => Sum(w, S) = 0
         /\ S # {} => Sum(w, S) = w[First(S)] + Sum(w, S \ {First(S)})
<1> DEFINE F(T) == CHOOSE f : Adds(f, w, SUBSET T)
<1>1. ASSUME NEW T PROVE Sum(w, T) = F(T)[T]
  BY Zenon DEF Sum, MapThenSumSet, MapThenFoldSet, Adds, First
<1>2. ASSUME NEW T, IsFiniteSet(T) PROVE Adds(F(T), w, SUBSET T)
  BY <1>2, SumsExist
<1> HIDE DEF F
<1>3. F(S)[S] = IF S = {} THEN 0 ELSE w[First(S)] + F(S)[S \ {First(S)}]
  BY <1>2, Zenon DEF Adds
<1>4. ASSUME NEW T \in SUBSET S PROVE F(S)[T] = Sum(w, T)
  <2>1. IsFiniteSet(T)
    BY FS_Subset
  <2>2. Adds(F(S), w, SUBSET S) /\ Adds(F(T), w, SUBSET T)
    BY <1>2, <2>1
  <2>3. ASSUME NEW f, NEW g, Adds(f, w, SUBSET S), Adds(g, w, SUBSET T) PROVE f[T] = g[T]
    BY <2>3, SumsAgree
  <2>4. F(S)[T] = F(T)[T]
    BY <2>2, <2>3, Zenon
  <2> QED
    BY <1>1, <2>4
<1> QED
  BY <1>1, <1>3, <1>4

\* A sum of natural numbers is one.
LEMMA SumType ==
  ASSUME NEW S, IsFiniteSet(S), NEW w, \A x \in S : w[x] \in Nat
  PROVE  Sum(w, S) \in Nat
<1> DEFINE B == {s \in SUBSET S : Sum(w, s) \notin Nat}
<1>1. ASSUME B # {} PROVE FALSE
  <2>1. PICK s \in B : IsFiniteSet(s) /\ \A x \in s : s \ {x} \notin B
    <3>1. B \in SUBSET SUBSET S
      OBVIOUS
    <3> HIDE DEF B
    <3> QED
      BY <1>1, <3>1, LeastSubset
  <2>2. s # {} => First(s) \in s /\ Sum(w, s \ {First(s)}) \in Nat
    BY <2>1, FirstIn
  <2>3. s \in SUBSET S /\ Sum(w, s) \notin Nat
    OBVIOUS
  <2>4. /\ s = {} => Sum(w, s) = 0
        /\ s # {} => Sum(w, s) = w[First(s)] + Sum(w, s \ {First(s)})
    BY <2>1, SumSteps
  <2>5. s # {} => w[First(s)] \in Nat
    BY <2>2, <2>3
  <2> HIDE DEF B
  <2> QED
    BY <2>2, <2>3, <2>4, <2>5
<1> QED
  BY <1>1

\* A sum may be taken in any order.
LEMMA SumRemove ==
  ASSUME NEW S, IsFiniteSet(S), NEW w, \A x \in S : w[x] \in Nat, NEW x \in S
  PROVE  Sum(w, S) = w[x] + Sum(w, S \ {x})
<1> DEFINE B == {s \in SUBSET S : \E y \in s : Sum(w, s) # w[y] + Sum(w, s \ {y})}
<1>1. ASSUME B # {} PROVE FALSE
  <2>1. PICK s \in B : IsFiniteSet(s) /\ \A y \in s : s \ {y} \notin B
    <3>1. B \in SUBSET SUBSET S
      OBVIOUS
    <3> HIDE DEF B
    <3> QED
      BY <1>1, <3>1, LeastSubset
  <2>2. s \in SUBSET S
    OBVIOUS
  <2>3. PICK y \in s : Sum(w, s) # w[y] + Sum(w, s \ {y})
    OBVIOUS
  <2> DEFINE z == First(s)
             r == s \ {y, z}
  <2>4. z \in s /\ Sum(w, s) = w[z] + Sum(w, s \ {z})
    BY <2>1, SumSteps, FirstIn
  <2>5. y # z
    BY <2>3, <2>4
  <2>6. \A v \in s : \A u \in s \ {v} : Sum(w, s \ {v}) = w[u] + Sum(w, (s \ {v}) \ {u})
    BY <2>1, <2>2
  <2>7. r = (s \ {z}) \ {y} /\ r = (s \ {y}) \ {z}
    OBVIOUS
  <2>8. y \in s \ {z} /\ z \in s \ {y} /\ w[y] \in Nat /\ w[z] \in Nat
    BY <2>2, <2>4, <2>5
  <2>9. Sum(w, r) \in Nat
    <3>1. IsFiniteSet(r) /\ \A v \in r : w[v] \in Nat
      BY <2>1, <2>2, FS_Subset
    <3> HIDE DEF r
    <3> QED
      BY <3>1, SumType
  <2> HIDE DEF B, z, r
  <2>10. Sum(w, s \ {z}) = w[y] + Sum(w, r) /\ Sum(w, s \ {y}) = w[z] + Sum(w, r)
    BY <2>4, <2>6, <2>7, <2>8
  <2> QED
    BY <2>3, <2>4, <2>8, <2>9, <2>10
<1> QED
  BY <1>1

\* More summands sum up to no less.
LEMMA SumSubset ==
  ASSUME NEW S, IsFiniteSet(S), NEW w, \A x \in S : w[x] \in Nat, NEW A \in SUBSET S
  PROVE  Sum(w, A) <= Sum(w, S)
<1> DEFINE B == {s \in SUBSET S : ~(Sum(w, A \cap s) <= Sum(w, s))}
<1>1. ASSUME B # {} PROVE FALSE
  <2>1. PICK s \in B : IsFiniteSet(s) /\ \A x \in s : s \ {x} \notin B
    <3>1. B \in SUBSET SUBSET S
      OBVIOUS
    <3> HIDE DEF B
    <3> QED
      BY <1>1, <3>1, LeastSubset
  <2>2. s \in SUBSET S /\ ~(Sum(w, A \cap s) <= Sum(w, s))
    OBVIOUS
  <2>3. \A r \in SUBSET S : IsFiniteSet(r) /\ Sum(w, r) \in Nat
    BY FS_Subset, SumType
  <2>4. s # {}
    BY <2>2, <2>3
  <2>5. PICK x \in s : TRUE
    BY <2>4
  <2>6. Sum(w, A \cap (s \ {x})) <= Sum(w, s \ {x})
    BY <2>1, <2>2
  <2>7. Sum(w, s) = w[x] + Sum(w, s \ {x}) /\ w[x] \in Nat
    BY <2>1, <2>2, SumRemove
  <2>8. /\ A \cap s \in SUBSET S /\ s \ {x} \in SUBSET S
        /\ A \cap (s \ {x}) \in SUBSET S
    BY <2>2
  <2>9. CASE x \in A
    <3>1. (A \cap s) \ {x} = A \cap (s \ {x}) /\ x \in A \cap s
      BY <2>9
    <3>2. Sum(w, A \cap s) = w[x] + Sum(w, A \cap (s \ {x}))
      BY <2>3, <2>8, <3>1, SumRemove
    <3> QED
      BY <2>2, <2>3, <2>6, <2>7, <2>8, <3>2
  <2>10. CASE x \notin A
    <3>1. A \cap s = A \cap (s \ {x})
      BY <2>10
    <3>2. Sum(w, A \cap s) = Sum(w, A \cap (s \ {x}))
      BY <3>1
    <3> HIDE DEF B
    <3> QED
      BY <2>2, <2>3, <2>6, <2>7, <2>8, <3>2
  <2> QED
    BY <2>9, <2>10
<1>2. A \cap S = A /\ S \in SUBSET S
  OBVIOUS
<1> QED
  BY <1>1, <1>2

\* A sum with a positive number in it is positive.
LEMMA SumPositive ==
  ASSUME NEW S, IsFiniteSet(S), NEW w, \A x \in S : w[x] \in Nat, NEW x \in S, w[x] > 0
  PROVE  Sum(w, S) > 0
<1>1. Sum(w, S) = w[x] + Sum(w, S \ {x})
  BY SumRemove
<1>2. Sum(w, S \ {x}) \in Nat
  BY FS_Subset, SumType
<1> QED
  BY <1>1, <1>2
=============================================================================
