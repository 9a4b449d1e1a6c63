-------------------------------- MODULE Sums --------------------------------
(***************************************************************************)
(* What the folds of the community modules add up to, over finite sets of  *)
(* any size.                                                               *)
(***************************************************************************)
EXTENDS Integers, FiniteSets, Functions, FiniteSetTheorems, WellFoundedInduction, TLAPS

(* Induction over the natural numbers, for a set in the place of a predicate. *)
LEMMA NaturalInduction ==
  ASSUME NEW A, 0 \in A, \A n \in Nat : n \in A => n + 1 \in A
  PROVE  Nat \subseteq A
<1> DEFINE R == OpToRel(<, Nat)
           B == Nat \ A
<1>1. IsWellFoundedOn(R, Nat)
  BY NatLessThanWellFounded
<1>2. \A a, b \in Nat : a < b => <<a, b>> \in R
  BY DEF OpToRel
<1> HIDE DEF R
<1>3. SUFFICES ASSUME B # {} PROVE FALSE
  OBVIOUS
<1>4. PICK n \in B : \A m \in B : ~(<<m, n>> \in R)
  BY <1>1, <1>3, WFMin
<1>5. n # 0 /\ n \in Nat /\ n - 1 \in Nat /\ n - 1 < n
  BY <1>4
<1>6. n - 1 \in A
  BY <1>2, <1>4, <1>5
<1> QED
  BY <1>4, <1>5, <1>6

(* Induction over the subsets of a finite set, likewise. *)
LEMMA SubsetInduction ==
  ASSUME NEW S, IsFiniteSet(S), NEW B, {} \in B,
         \A T \in SUBSET S : T # {} /\ (\A x \in T : T \ {x} \in B) => T \in B
  PROVE  SUBSET S \subseteq B
<1> DEFINE A == {n \in Nat : \A T \in SUBSET S : Cardinality(T) <= n => T \in B}
<1>1. \A T \in SUBSET S : IsFiniteSet(T) /\ Cardinality(T) \in Nat
  BY FS_Subset, FS_CardinalityType
<1>2. 0 \in A
  <2>1. ASSUME NEW T \in SUBSET S, Cardinality(T) <= 0
        PROVE  T \in B
    <3>1. T = {}
      BY <1>1, <2>1, FS_EmptySet
    <3> QED
      BY <3>1
  <2> QED
    BY <2>1
<1>3. ASSUME NEW n \in Nat, n \in A
      PROVE  n + 1 \in A
  <2>1. ASSUME NEW T \in SUBSET S, Cardinality(T) <= n + 1, T # {}
        PROVE  T \in B
    <3>1. ASSUME NEW x \in T PROVE T \ {x} \in B
      <4>1. Cardinality(T \ {x}) = Cardinality(T) - 1
        BY <1>1, FS_RemoveElement
      <4> QED
        BY <1>1, <1>3, <2>1, <4>1
    <3> QED
      BY <2>1, <3>1
  <2>2. ASSUME NEW T \in SUBSET S, Cardinality(T) <= n + 1
        PROVE  T \in B
    BY <2>1, <2>2
  <2> QED
    BY <2>2
<1>4. Nat \subseteq A
  BY <1>2, <1>3, NaturalInduction
<1>5. ASSUME NEW T \in SUBSET S PROVE T \in B
  BY <1>1, <1>4
<1> QED
  BY <1>5

-----------------------------------------------------------------------------

Pick(s) == CHOOSE x \in s : TRUE
Total(f, S) == FoldFunctionOnSet(+, 0, f, S)

\* g adds up f over each of the sets in D.
Adds(g, f, D) ==
  g = [s \in D |-> IF s = {} THEN 0 ELSE f[Pick(s)] + g[s \ {Pick(s)}]]

(* A total is what a function chosen to add up yields. *)
LEMMA TotalIsChosen ==
  ASSUME NEW f, NEW S
  PROVE  Total(f, S) = (CHOOSE g : Adds(g, f, SUBSET S))[S]
BY DEF Total, FoldFunctionOnSet, MapThenFoldSet, Adds, Pick

(* Over a finite set there is such a function. *)
LEMMA AddsExists ==
  ASSUME NEW f, NEW S, IsFiniteSet(S)
  PROVE  \E g : Adds(g, f, SUBSET S)
<1> DEFINE D(n) == {s \in SUBSET S : Cardinality(s) <= n}
           A == {n \in Nat : \E g : Adds(g, f, D(n))}
<1>1. \A T \in SUBSET S : IsFiniteSet(T) /\ Cardinality(T) \in Nat /\ Cardinality(T) <= Cardinality(S)
  BY FS_Subset, FS_CardinalityType
<1>2. 0 \in A
  <2>1. D(0) = {{}}
    BY <1>1, FS_EmptySet
  <2>2. Adds([s \in D(0) |-> 0], f, D(0))
    BY <2>1 DEF Adds
  <2> QED
    BY <2>2
<1>3. ASSUME NEW n \in Nat, n \in A
      PROVE  n + 1 \in A
  <2>1. PICK g : Adds(g, f, D(n))
    BY <1>3
  <2> DEFINE h == [s \in D(n + 1) |-> IF s = {} THEN 0 ELSE f[Pick(s)] + g[s \ {Pick(s)}]]
  <2>2. ASSUME NEW s \in D(n + 1), s # {}
        PROVE  /\ s \ {Pick(s)} \in D(n) /\ s \ {Pick(s)} \in D(n + 1)
    <3>1. Pick(s) \in s
      BY <2>2 DEF Pick
    <3>2. Cardinality(s \ {Pick(s)}) = Cardinality(s) - 1
      BY <1>1, <3>1, FS_RemoveElement
    <3> QED
      BY <1>1, <3>2
  <2>3. ASSUME NEW s \in D(n) PROVE s \in D(n + 1) /\ h[s] = g[s]
    <3>1. s \in D(n + 1)
      BY <1>1
    <3> HIDE DEF D
    <3>2. g[s] = IF s = {} THEN 0 ELSE f[Pick(s)] + g[s \ {Pick(s)}]
      BY <2>1 DEF Adds
    <3> QED
      BY <3>1, <3>2
  <2>4. h = [s \in D(n + 1) |-> IF s = {} THEN 0 ELSE f[Pick(s)] + h[s \ {Pick(s)}]]
    <3> HIDE DEF D
    <3>1. ASSUME NEW s \in D(n + 1), s # {} PROVE g[s \ {Pick(s)}] = h[s \ {Pick(s)}]
      BY <2>2, <2>3, <3>1
    <3> QED
      BY <3>1
  <2>5. Adds(h, f, D(n + 1))
    BY <2>4 DEF Adds
  <2> HIDE DEF D, h
  <2> QED
    BY <2>5
<1>4. Nat \subseteq A
  BY <1>2, <1>3, NaturalInduction
<1>5. D(Cardinality(S)) = SUBSET S /\ Cardinality(S) \in Nat
  BY <1>1, FS_CardinalityType
<1> QED
  BY <1>4, <1>5

\* The same, in the form the proofs use it.
AddsUp(g, f, S) ==
  /\ g[{}] = 0
  /\ \A s \in SUBSET S : s # {} =>
       /\ Pick(s) \in s /\ s \ {Pick(s)} \in SUBSET S
       /\ g[s] = f[Pick(s)] + g[s \ {Pick(s)}]

(* A total is what some such function gives. *)
LEMMA TotalAdds ==
  ASSUME NEW f, NEW S, IsFiniteSet(S)
  PROVE  \E g : Total(f, S) = g[S] /\ AddsUp(g, f, S)
<1> DEFINE g == CHOOSE h : Adds(h, f, SUBSET S)
<1>1. Adds(g, f, SUBSET S)
  BY AddsExists
<1>2. Total(f, S) = g[S]
  BY TotalIsChosen
<1> HIDE DEF g
<1>3. \A s \in SUBSET S : g[s] = IF s = {} THEN 0 ELSE f[Pick(s)] + g[s \ {Pick(s)}]
  BY <1>1 DEF Adds
<1>4. \A s \in SUBSET S : s # {} => Pick(s) \in s /\ s \ {Pick(s)} \in SUBSET S
  BY DEF Pick
<1> QED
  BY <1>2, <1>3, <1>4 DEF AddsUp

(* Of natural numbers a total is one, and at least each of them. *)
LEMMA TotalIsNat ==
  ASSUME NEW f, NEW S, IsFiniteSet(S), \A x \in S : f[x] \in Nat
  PROVE  Total(f, S) \in Nat /\ \A x \in S : f[x] <= Total(f, S)
<1>1. PICK g : Total(f, S) = g[S] /\ AddsUp(g, f, S)
  BY TotalAdds
<1> DEFINE B == {s \in SUBSET S : g[s] \in Nat /\ \A x \in s : f[x] <= g[s]}
<1>2. {} \in B
  BY <1>1 DEF AddsUp
<1>3. ASSUME NEW T \in SUBSET S, T # {}, \A x \in T : T \ {x} \in B
      PROVE  T \in B
  <2>1. /\ Pick(T) \in T /\ T \ {Pick(T)} \in B
        /\ g[T] = f[Pick(T)] + g[T \ {Pick(T)}]
        /\ f[Pick(T)] \in Nat
    BY <1>1, <1>3 DEF AddsUp
  <2>2. \A x \in T : x = Pick(T) \/ x \in T \ {Pick(T)}
    OBVIOUS
  <2> QED
    BY <2>1, <2>2
<1> HIDE DEF B
<1>4. SUBSET S \subseteq B
  BY <1>2, <1>3, SubsetInduction
<1> QED
  BY <1>1, <1>4 DEF B

\* Over S, h is f but for i, where it is more by d.
Raised(f, h, S, i, d) ==
  /\ \A x \in S : f[x] \in Int
  /\ i \in S => h[i] = f[i] + d
  /\ \A x \in S \ {i} : h[x] = f[x]

(* Raising one of the numbers raises the total by as much. *)
LEMMA TotalRaised ==
  ASSUME NEW f, NEW h, NEW S, IsFiniteSet(S), NEW i, NEW d \in Int, Raised(f, h, S, i, d)
  PROVE  /\ Total(f, S) \in Int
         /\ i \in S => Total(h, S) = Total(f, S) + d
         /\ i \notin S => Total(h, S) = Total(f, S)
<1>1. PICK g : Total(f, S) = g[S] /\ AddsUp(g, f, S)
  BY TotalAdds
<1>2. PICK k : Total(h, S) = k[S] /\ AddsUp(k, h, S)
  BY TotalAdds
<1> DEFINE B == {s \in SUBSET S : g[s] \in Int /\ k[s] = g[s] + IF i \in s THEN d ELSE 0}
<1>3. {} \in B
  BY <1>1, <1>2 DEF AddsUp
<1>4. ASSUME NEW T \in SUBSET S, T # {}, \A x \in T : T \ {x} \in B
      PROVE  T \in B
  <2>1. /\ Pick(T) \in T /\ T \ {Pick(T)} \in B
        /\ g[T] = f[Pick(T)] + g[T \ {Pick(T)}]
        /\ k[T] = h[Pick(T)] + k[T \ {Pick(T)}]
    BY <1>1, <1>2, <1>4 DEF AddsUp
  <2>2. /\ f[Pick(T)] \in Int
        /\ h[Pick(T)] = f[Pick(T)] + IF Pick(T) = i THEN d ELSE 0
    BY <2>1 DEF Raised
  <2>3. i \in T <=> i = Pick(T) \/ i \in T \ {Pick(T)}
    BY <2>1
  <2> QED
    BY <2>1, <2>2, <2>3
<1> HIDE DEF B
<1>5. SUBSET S \subseteq B
  BY <1>3, <1>4, SubsetInduction
<1> QED
  BY <1>1, <1>2, <1>5 DEF B

(* Nothing adds up to nothing. *)
LEMMA TotalOfZeros ==
  ASSUME NEW f, NEW S, IsFiniteSet(S), \A x \in S : f[x] = 0
  PROVE  Total(f, S) = 0
<1>1. PICK g : Total(f, S) = g[S] /\ AddsUp(g, f, S)
  BY TotalAdds
<1> DEFINE B == {s \in SUBSET S : g[s] = 0}
<1>2. {} \in B
  BY <1>1 DEF AddsUp
<1>3. ASSUME NEW T \in SUBSET S, T # {}, \A x \in T : T \ {x} \in B
      PROVE  T \in B
  <2>1. /\ Pick(T) \in T /\ T \ {Pick(T)} \in B
        /\ g[T] = f[Pick(T)] + g[T \ {Pick(T)}]
    BY <1>1, <1>3 DEF AddsUp
  <2> QED
    BY <2>1
<1> HIDE DEF B
<1>4. SUBSET S \subseteq B
  BY <1>2, <1>3, SubsetInduction
<1> QED
  BY <1>1, <1>4 DEF B

-----------------------------------------------------------------------------

(* The community modules' sum of a function is the total over its domain. *)
LEMMA SumIsTotal ==
  ASSUME NEW f
  PROVE  SumFunction(f) = Total(f, DOMAIN f)
BY DEF SumFunction, SumFunctionOnSet, Total

(* A total over no elements. *)
LEMMA TotalOfNone ==
  ASSUME NEW f
  PROVE  Total(f, {}) = 0
<1>1. IsFiniteSet({})
  BY FS_EmptySet
<1> QED
  BY <1>1, TotalOfZeros

(* Two ways to add up f agree on the sets both add up. *)
LEMMA AddsUpOnce ==
  ASSUME NEW f, NEW S, NEW R \in SUBSET S, NEW g, NEW h, IsFiniteSet(S),
         AddsUp(g, f, S), AddsUp(h, f, R)
  PROVE  g[R] = h[R]
<1> DEFINE B == {s \in SUBSET R : g[s] = h[s]}
<1>1. {} \in B
  BY DEF AddsUp
<1>2. ASSUME NEW T \in SUBSET R, T # {}, \A x \in T : T \ {x} \in B
      PROVE  T \in B
  <2>1. /\ Pick(T) \in T /\ T \ {Pick(T)} \in B
        /\ g[T] = f[Pick(T)] + g[T \ {Pick(T)}]
        /\ h[T] = f[Pick(T)] + h[T \ {Pick(T)}]
    <3>1. T \in SUBSET S
      OBVIOUS
    <3> HIDE DEF B
    <3> QED
      BY <1>2, <3>1 DEF AddsUp
  <2> QED
    BY <2>1
<1>3. IsFiniteSet(R)
  BY FS_Subset
<1> HIDE DEF B
<1>4. SUBSET R \subseteq B
  BY <1>1, <1>2, <1>3, SubsetInduction
<1> QED
  BY <1>4 DEF B

(* Over whole numbers any element may be taken out of the total first. *)
LEMMA TotalRemoves ==
  ASSUME NEW f, NEW S, IsFiniteSet(S), \A x \in S : f[x] \in Int, NEW i \in S
  PROVE  /\ Total(f, S) \in Int /\ Total(f, S \ {i}) \in Int
         /\ Total(f, S) = f[i] + Total(f, S \ {i})
<1>1. PICK g : Total(f, S) = g[S] /\ AddsUp(g, f, S)
  BY TotalAdds
<1>2. IsFiniteSet(S \ {i})
  BY FS_Subset
<1>3. PICK h : Total(f, S \ {i}) = h[S \ {i}] /\ AddsUp(h, f, S \ {i})
  BY <1>2, TotalAdds
<1>4. S \ {i} \in SUBSET S
  OBVIOUS
<1>5. g[S \ {i}] = h[S \ {i}]
  BY <1>1, <1>3, <1>4, AddsUpOnce
<1> DEFINE B == {s \in SUBSET S : /\ g[s] \in Int
                                 /\ \A j \in s : g[s \ {j}] \in Int /\ g[s] = f[j] + g[s \ {j}]}
<1>6. {} \in B
  BY <1>1 DEF AddsUp
<1>7. ASSUME NEW T \in SUBSET S, T # {}, \A x \in T : T \ {x} \in B
      PROVE  T \in B
  <2> DEFINE p == Pick(T)
  <2>1. /\ p \in T /\ T \ {p} \in B
        /\ g[T] = f[p] + g[T \ {p}]
        /\ f[p] \in Int
    BY <1>1, <1>7 DEF AddsUp
  <2> HIDE DEF p
  <2>2. ASSUME NEW j \in T
        PROVE  g[T \ {j}] \in Int /\ g[T] = f[j] + g[T \ {j}]
    <3>1. T \ {j} \in B /\ f[j] \in Int
      BY <1>7
    <3>2. CASE j = p
      BY <2>1, <3>1, <3>2
    <3>3. CASE j # p
      <4> DEFINE R == (T \ {p}) \ {j}
      <4>1. R = (T \ {j}) \ {p} /\ j \in T \ {p} /\ p \in T \ {j}
        BY <2>1, <3>3
      <4>2. g[R] \in Int /\ g[T \ {p}] = f[j] + g[R]
        BY <2>1, <4>1
      <4>3. g[T \ {j}] = f[p] + g[R]
        BY <3>1, <4>1
      <4> HIDE DEF R
      <4> QED
        BY <2>1, <3>1, <4>2, <4>3
    <3> QED
      BY <3>2, <3>3
  <2> QED
    BY <2>1, <2>2
<1> HIDE DEF B
<1>8. SUBSET S \subseteq B
  BY <1>3, <1>6, <1>7, SubsetInduction
<1>9. S \in B
  BY <1>8
<1>10. g[S] \in Int /\ g[S \ {i}] \in Int /\ g[S] = f[i] + g[S \ {i}]
  BY <1>9 DEF B
<1> QED
  BY <1>1, <1>3, <1>5, <1>10

(* Over subsets of S the total is monotonic, in the numbers and in the set. *)
LEMMA TotalMonotone ==
  ASSUME NEW f, NEW h, NEW S, IsFiniteSet(S),
         \A x \in S : f[x] \in Int /\ h[x] \in Int /\ f[x] <= h[x]
  PROVE  Total(f, S) \in Int /\ Total(h, S) \in Int /\ Total(f, S) <= Total(h, S)
<1>1. PICK g : Total(f, S) = g[S] /\ AddsUp(g, f, S)
  BY TotalAdds
<1>2. PICK k : Total(h, S) = k[S] /\ AddsUp(k, h, S)
  BY TotalAdds
<1> DEFINE B == {s \in SUBSET S : g[s] \in Int /\ k[s] \in Int /\ g[s] <= k[s]}
<1>3. {} \in B
  BY <1>1, <1>2 DEF AddsUp
<1>4. ASSUME NEW T \in SUBSET S, T # {}, \A x \in T : T \ {x} \in B
      PROVE  T \in B
  <2>1. /\ Pick(T) \in T /\ T \ {Pick(T)} \in B
        /\ g[T] = f[Pick(T)] + g[T \ {Pick(T)}]
        /\ k[T] = h[Pick(T)] + k[T \ {Pick(T)}]
    BY <1>1, <1>2, <1>4 DEF AddsUp
  <2> QED
    BY <2>1
<1> HIDE DEF B
<1>5. SUBSET S \subseteq B
  BY <1>3, <1>4, SubsetInduction
<1> QED
  BY <1>1, <1>2, <1>5 DEF B

(* Equal numbers have equal totals. *)
LEMMA TotalSame ==
  ASSUME NEW f, NEW h, NEW S, IsFiniteSet(S), \A x \in S : f[x] \in Int /\ h[x] = f[x]
  PROVE  Total(h, S) = Total(f, S) /\ Total(f, S) \in Int
<1>1. Total(f, S) \in Int /\ Total(h, S) \in Int /\ Total(f, S) <= Total(h, S)
  BY TotalMonotone
<1>2. Total(h, S) <= Total(f, S)
  BY TotalMonotone
<1> QED
  BY <1>1, <1>2

(* Over a smaller set natural numbers add up to no more. *)
LEMMA TotalOfSubset ==
  ASSUME NEW f, NEW S, IsFiniteSet(S), \A x \in S : f[x] \in Nat, NEW R \in SUBSET S
  PROVE  Total(f, R) \in Nat /\ Total(f, S) \in Nat /\ Total(f, R) <= Total(f, S)
<1>1. IsFiniteSet(R) /\ \A s \in SUBSET S : IsFiniteSet(s)
  BY FS_Subset
<1>2. Total(f, R) \in Nat /\ Total(f, S) \in Nat /\ \A s \in SUBSET S : Total(f, s) \in Nat
  BY <1>1, TotalIsNat
<1> DEFINE B == {s \in SUBSET S : Total(f, R \cap s) <= Total(f, s)}
<1>3. {} \in B
  <2>1. R \cap {} = {}
    OBVIOUS
  <2> QED
    BY <2>1, TotalOfNone
<1>4. ASSUME NEW T \in SUBSET S, T # {}, \A x \in T : T \ {x} \in B
      PROVE  T \in B
  <2>1. PICK x \in T : TRUE
    BY <1>4
  <2>2. Total(f, T) = f[x] + Total(f, T \ {x}) /\ f[x] \in Nat
    BY <1>1, TotalRemoves
  <2>3. Total(f, R \cap (T \ {x})) <= Total(f, T \ {x})
    BY <1>4
  <2>4. /\ Total(f, R \cap (T \ {x})) \in Nat /\ Total(f, T \ {x}) \in Nat
        /\ Total(f, R \cap T) \in Nat /\ Total(f, T) \in Nat
    BY <1>2
  <2>5. CASE x \in R
    <3>1. (R \cap T) \ {x} = R \cap (T \ {x}) /\ x \in R \cap T
      BY <2>5
    <3>2. IsFiniteSet(R \cap T) /\ \A y \in R \cap T : f[y] \in Int
      BY <1>1
    <3>3. Total(f, R \cap T) = f[x] + Total(f, (R \cap T) \ {x})
      BY <3>1, <3>2, TotalRemoves
    <3> QED
      BY <2>2, <2>3, <2>4, <3>1, <3>3
  <2>6. CASE x \notin R
    <3>1. R \cap T = R \cap (T \ {x})
      BY <2>6
    <3> QED
      BY <2>2, <2>3, <2>4, <3>1
  <2> QED
    BY <2>5, <2>6
<1> HIDE DEF B
<1>5. SUBSET S \subseteq B
  BY <1>3, <1>4, SubsetInduction
<1>6. S \in B /\ R \cap S = R
  BY <1>5
<1> QED
  BY <1>2, <1>6 DEF B

(* Ones add up to the number of elements. *)
LEMMA TotalOfOnes ==
  ASSUME NEW f, NEW S, IsFiniteSet(S), \A x \in S : f[x] = 1
  PROVE  Total(f, S) = Cardinality(S)
<1>1. \A s \in SUBSET S : IsFiniteSet(s)
  BY FS_Subset
<1> DEFINE B == {s \in SUBSET S : Total(f, s) = Cardinality(s)}
<1>2. {} \in B
  BY TotalOfNone, FS_EmptySet
<1>3. ASSUME NEW T \in SUBSET S, T # {}, \A x \in T : T \ {x} \in B
      PROVE  T \in B
  <2>1. PICK x \in T : TRUE
    BY <1>3
  <2>2. Total(f, T) = f[x] + Total(f, T \ {x}) /\ f[x] = 1
    BY <1>1, TotalRemoves
  <2>3. Cardinality(T \ {x}) = Cardinality(T) - 1 /\ Cardinality(T) \in Nat
    BY <1>1, FS_RemoveElement, FS_CardinalityType
  <2>4. Total(f, T \ {x}) = Cardinality(T \ {x})
    BY <1>3
  <2> QED
    BY <2>2, <2>3, <2>4
<1> HIDE DEF B
<1>4. SUBSET S \subseteq B
  BY <1>2, <1>3, SubsetInduction
<1> QED
  BY <1>4 DEF B

\* The elements of S whose key is t.
Part(S, k, t) == {x \in S : k[x] = t}

\* The totals of the parts.
PartTotals(f, S, k, T) == [t \in T |-> Total(f, Part(S, k, t))]

(* A total is the total of the totals of its parts. *)
LEMMA TotalOfParts ==
  ASSUME NEW f, NEW S, IsFiniteSet(S), \A x \in S : f[x] \in Int,
         NEW T, IsFiniteSet(T), NEW k, \A x \in S : k[x] \in T
  PROVE  /\ \A t \in T : Total(f, Part(S, k, t)) \in Int
         /\ Total(PartTotals(f, S, k, T), T) = Total(f, S)
<1>1. /\ \A s \in SUBSET S : IsFiniteSet(s)
      /\ \A s \in SUBSET S : Total(f, s) \in Int
  BY FS_Subset, TotalSame
<1>2. ASSUME NEW s \in SUBSET S, NEW t PROVE Part(s, k, t) \in SUBSET S
  BY DEF Part
<1> DEFINE B == {s \in SUBSET S : Total(PartTotals(f, s, k, T), T) = Total(f, s)}
<1>3. {} \in B
  <2>1. \A t \in T : Part({}, k, t) = {}
    BY DEF Part
  <2>2. \A t \in T : PartTotals(f, {}, k, T)[t] = 0
    BY <2>1, TotalOfNone DEF PartTotals
  <2> QED
    BY <2>2, TotalOfZeros, TotalOfNone
<1>4. ASSUME NEW U \in SUBSET S, U # {}, \A x \in U : U \ {x} \in B
      PROVE  U \in B
  <2>1. PICK x \in U : TRUE
    BY <1>4
  <2> DEFINE V == U \ {x}
             before == PartTotals(f, V, k, T)
             after == PartTotals(f, U, k, T)
  <2>2. Total(f, U) = f[x] + Total(f, V) /\ f[x] \in Int /\ Total(f, V) \in Int
    BY <1>1, TotalRemoves
  <2>3. Total(before, T) = Total(f, V)
    BY <1>4
  <2>4. \A t \in T : before[t] \in Int
    BY <1>1, <1>2 DEF PartTotals
  <2>5. after[k[x]] = before[k[x]] + f[x]
    <3>1. /\ Part(V, k, k[x]) = Part(U, k, k[x]) \ {x} /\ x \in Part(U, k, k[x])
          /\ Part(U, k, k[x]) \in SUBSET S
      BY DEF Part
    <3>2. \A y \in Part(U, k, k[x]) : f[y] \in Int
      BY <3>1
    <3> HIDE DEF V
    <3>3. /\ Total(f, Part(U, k, k[x])) = f[x] + Total(f, Part(V, k, k[x]))
          /\ Total(f, Part(V, k, k[x])) \in Int
      BY <1>1, <3>1, <3>2, TotalRemoves
    <3> QED
      BY <2>2, <3>3 DEF PartTotals
  <2>6. \A t \in T \ {k[x]} : after[t] = before[t]
    <3>1. \A t \in T \ {k[x]} : Part(V, k, t) = Part(U, k, t)
      BY DEF Part
    <3> HIDE DEF V
    <3> QED
      BY <3>1 DEF PartTotals
  <2> HIDE DEF before, after
  <2>7. Raised(before, after, T, k[x], f[x])
    BY <2>4, <2>5, <2>6 DEF Raised
  <2>8. Total(after, T) = Total(before, T) + f[x]
    BY <2>2, <2>7, TotalRaised
  <2> HIDE DEF V
  <2> QED
    BY <2>2, <2>3, <2>8 DEF after
<1> HIDE DEF B
<1>5. SUBSET S \subseteq B
  BY <1>3, <1>4, SubsetInduction
<1> QED
  BY <1>1, <1>2, <1>5 DEF B

\* The sizes of the parts.
PartSizes(S, k, T) == [t \in T |-> Cardinality(Part(S, k, t))]

(* A finite set is as large as its parts together. *)
LEMMA SizeOfParts ==
  ASSUME NEW S, IsFiniteSet(S), NEW T, IsFiniteSet(T), NEW k, \A x \in S : k[x] \in T
  PROVE  /\ \A t \in T : Cardinality(Part(S, k, t)) \in Nat
         /\ Total(PartSizes(S, k, T), T) = Cardinality(S)
<1> DEFINE ones == [x \in S |-> 1]
<1>1. \A x \in S : ones[x] = 1
  OBVIOUS
<1> HIDE DEF ones
<1>2. \A t : Part(S, k, t) \in SUBSET S /\ IsFiniteSet(Part(S, k, t))
  BY FS_Subset DEF Part
<1>3. \A t : Total(ones, Part(S, k, t)) = Cardinality(Part(S, k, t))
  <2> SUFFICES ASSUME NEW t PROVE Total(ones, Part(S, k, t)) = Cardinality(Part(S, k, t))
    OBVIOUS
  <2>1. \A x \in Part(S, k, t) : ones[x] = 1
    BY <1>1, <1>2
  <2> QED
    BY <1>2, <2>1, TotalOfOnes
<1>4. PartTotals(ones, S, k, T) = PartSizes(S, k, T)
  BY <1>3 DEF PartTotals, PartSizes
<1>5. Total(PartTotals(ones, S, k, T), T) = Total(ones, S)
  BY <1>1, TotalOfParts
<1>6. Total(ones, S) = Cardinality(S)
  BY <1>1, TotalOfOnes
<1> QED
  BY <1>2, <1>4, <1>5, <1>6, FS_CardinalityType

\* The sizes of the sets of a family.
Sizes(F, T) == [t \in T |-> Cardinality(F[t])]

(* A finite union of finite sets is finite, and no larger than the sets together. *)
LEMMA SizeOfUnion ==
  ASSUME NEW T, IsFiniteSet(T), NEW F, \A t \in T : IsFiniteSet(F[t])
  PROVE  /\ IsFiniteSet(UNION {F[t] : t \in T})
         /\ Cardinality(UNION {F[t] : t \in T}) <= Total(Sizes(F, T), T)
<1> DEFINE U(s) == UNION {F[t] : t \in s}
           B == {s \in SUBSET T : /\ IsFiniteSet(U(s))
                                  /\ Cardinality(U(s)) <= Total(Sizes(F, T), s)}
<1>1. \A t \in T : Sizes(F, T)[t] \in Nat /\ Sizes(F, T)[t] = Cardinality(F[t])
  BY FS_CardinalityType DEF Sizes
<1>2. {} \in B
  BY FS_EmptySet, TotalOfNone
<1>3. ASSUME NEW V \in SUBSET T, V # {}, \A x \in V : V \ {x} \in B
      PROVE  V \in B
  <2>1. PICK x \in V : TRUE
    BY <1>3
  <2>2. U(V) = U(V \ {x}) \cup F[x]
    BY <2>1
  <2>3. /\ IsFiniteSet(U(V \ {x}))
        /\ Cardinality(U(V \ {x})) <= Total(Sizes(F, T), V \ {x})
    BY <1>3
  <2> HIDE DEF U
  <2>4. /\ IsFiniteSet(U(V))
        /\ Cardinality(U(V)) = Cardinality(U(V \ {x})) + Cardinality(F[x])
                                  - Cardinality(U(V \ {x}) \cap F[x])
    BY <2>2, <2>3, FS_Union
  <2>5. /\ Cardinality(U(V \ {x})) \in Nat /\ Cardinality(F[x]) \in Nat
        /\ Cardinality(U(V \ {x}) \cap F[x]) \in Nat
    BY <2>3, FS_Intersection, FS_CardinalityType
  <2>6. IsFiniteSet(V) /\ \A t \in V : Sizes(F, T)[t] \in Int
    BY <1>1, FS_Subset
  <2>7. /\ Total(Sizes(F, T), V) = Cardinality(F[x]) + Total(Sizes(F, T), V \ {x})
        /\ Total(Sizes(F, T), V \ {x}) \in Int
    BY <1>1, <2>6, TotalRemoves
  <2> QED
    BY <2>3, <2>4, <2>5, <2>7
<1> HIDE DEF B
<1>4. SUBSET T \subseteq B
  BY <1>2, <1>3, SubsetInduction
<1> QED
  BY <1>4 DEF B

(* The values of a function over a finite set are no more than its elements. *)
LEMMA SizeOfImage ==
  ASSUME NEW S, IsFiniteSet(S), NEW f
  PROVE  /\ IsFiniteSet({f[x] : x \in S})
         /\ Cardinality({f[x] : x \in S}) <= Cardinality(S)
<1> DEFINE T == {f[x] : x \in S}
           g == [x \in S |-> f[x]]
<1>1. g \in Surjection(S, T)
  BY DEF Surjection
<1> HIDE DEF g, T
<1>2. IsFiniteSet(T) /\ Cardinality(T) <= Cardinality(S)
  BY <1>1, FS_Surjection
<1> QED
  BY <1>2 DEF T
=============================================================================
