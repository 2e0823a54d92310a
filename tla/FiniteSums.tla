----------------------------- MODULE FiniteSums -----------------------------
(***************************************************************************)
(* Sums over finite sets (SumFunctionOnSet of the community modules): what *)
(* they are, what they do when the set or the function changes, and that   *)
(* they may be taken group by group.  Everything is stated of functions    *)
(* and sets, so it can be used without an operator to instantiate, and     *)
(* rests on one form of induction: a non-empty set of subsets of a finite  *)
(* set has a smallest member.                                              *)
(***************************************************************************)
EXTENDS Integers, Functions, FiniteSetTheorems, WellFoundedInduction, TLAPS

\* Among sets of subsets of a finite set there is one without a smaller one.
LEMMA SmallestSubset ==
    ASSUME NEW S, IsFiniteSet(S), NEW Bad \in SUBSET (SUBSET S), Bad # {}
    PROVE  \E T \in Bad : \A U \in Bad : U \subseteq T => U = T
<1>1. IsWellFoundedOn(StrictSubsetOrdering(S), SUBSET S)
  BY FS_StrictSubsetOrderingWellFounded, FS_FiniteSubsetsOfFinite
<1>2. PICK T \in Bad : \A U \in Bad : <<U, T>> \notin StrictSubsetOrdering(S)
  BY <1>1, WFMin, Zenon
<1>3. ASSUME NEW U \in Bad, U \subseteq T PROVE U = T
  BY <1>2, <1>3 DEF StrictSubsetOrdering
<1> QED
  BY <1>3

\* A number that has a property comes with a least one.
LEMMA LeastNumber ==
    ASSUME NEW N \in SUBSET Nat, N # {}
    PROVE  \E n \in N : \A m \in N : n <= m
<1>1. PICK n \in N : \A m \in N : <<m, n>> \notin OpToRel(<, Nat)
  BY WFMin, NatLessThanWellFounded, Zenon
<1>2. ASSUME NEW m \in N PROVE n <= m
  <2>1. ~ (m < n)
    BY <1>1 DEF OpToRel
  <2> QED
    BY <2>1
<1> QED
  BY <1>2

\* A finite set of numbers has a largest one: its tails have a smallest one.
SomeNumbers(N) == N \subseteq Nat /\ N # {} /\ IsFiniteSet(N)

LEMMA LargestNumber ==
    ASSUME NEW N, SomeNumbers(N)
    PROVE  \E n \in N : \A m \in N : n >= m
<1>0. \A Bad \in SUBSET (SUBSET N) :
          Bad # {} => \E T \in Bad : \A U \in Bad : U \subseteq T => U = T
  <2>1. IsFiniteSet(N)
    BY DEF SomeNumbers
  <2> QED
    BY <2>1, SmallestSubset
<1> DEFINE From(m) == {x \in N : x >= m}
           Tails == {U \in SUBSET N : \E m \in N : U = From(m)}
<1>1. Tails \in SUBSET (SUBSET N) /\ Tails # {}
  BY DEF SomeNumbers
<1>2. PICK T \in Tails : \A U \in Tails : U \subseteq T => U = T
  <2> HIDE DEF Tails
  <2> QED
    BY <1>0, <1>1, Zenon
<1>3. PICK n \in N : T = From(n)
  OBVIOUS
<1>4. \A x \in N : x \in Int
  BY DEF SomeNumbers
<1>5. ASSUME NEW m \in N, m > n PROVE FALSE
  <2>1. From(m) \in Tails
    OBVIOUS
  <2>2. From(m) \subseteq T
    <3>1. \A x \in N : x >= m => x >= n
      BY <1>4, <1>5
    <3> QED
      BY <1>3, <3>1
  <2>3. n \in T /\ n \notin From(m)
    BY <1>3, <1>4, <1>5
  <2> QED
    BY <1>2, <2>1, <2>2, <2>3
<1> QED
  BY <1>4, <1>5

-----------------------------------------------------------------------------
(***************************************************************************)
(* The recursion behind a sum has a solution.                              *)
(***************************************************************************)
Summable(f, S) == IsFiniteSet(S) /\ \A x \in S : f[x] \in Int
Pick(S) == CHOOSE x \in S : TRUE
Adds(g, f, S) == g = [s \in SUBSET S |-> IF s = {} THEN 0 ELSE f[Pick(s)] + g[s \ {Pick(s)}]]

AddsUpTo(g, f, S, n) ==
    \A s \in SUBSET S : Cardinality(s) <= n =>
        g[s] = IF s = {} THEN 0 ELSE f[Pick(s)] + g[s \ {Pick(s)}]

LEMMA SumIsChosen ==
    ASSUME NEW f, NEW S
    PROVE  SumFunctionOnSet(f, S) = (CHOOSE g : Adds(g, f, S))[S]
BY Zenon DEF SumFunctionOnSet, FoldFunctionOnSet, MapThenFoldSet, Adds, Pick

\* For subsets of at most n elements, by induction on n.
LEMMA SumExistsUpTo ==
    ASSUME NEW S, NEW f, Summable(f, S), NEW n \in Nat
    PROVE  \E g \in [SUBSET S -> Int] : AddsUpTo(g, f, S, n)
<1> DEFINE Sum(g, s) == IF s = {} THEN 0 ELSE f[Pick(s)] + g[s \ {Pick(s)}]
           Bad == {m \in Nat : ~ \E g \in [SUBSET S -> Int] : AddsUpTo(g, f, S, m)}
<1>1. ASSUME NEW s \in SUBSET S
      PROVE  /\ IsFiniteSet(s) /\ Cardinality(s) \in Nat
             /\ s = {} <=> Cardinality(s) = 0
             /\ s # {} => /\ Pick(s) \in s
                          /\ f[Pick(s)] \in Int
                          /\ s \ {Pick(s)} \in SUBSET S
                          /\ Cardinality(s \ {Pick(s)}) = Cardinality(s) - 1
  BY FS_Subset, FS_CardinalityType, FS_EmptySet, FS_RemoveElement DEF Pick, Summable
<1>2. 0 \notin Bad
  <2> DEFINE g == [s \in SUBSET S |-> 0]
  <2>1. ASSUME NEW s \in SUBSET S, Cardinality(s) <= 0 PROVE s = {}
    <3>1. Cardinality(s) \in Nat /\ (s = {} <=> Cardinality(s) = 0)
      BY <1>1, Zenon
    <3> QED
      BY <2>1, <3>1
  <2>2. g \in [SUBSET S -> Int] /\ AddsUpTo(g, f, S, 0)
    BY <2>1 DEF AddsUpTo
  <2> QED
    BY <2>2
<1>3. ASSUME NEW m \in Nat, m \notin Bad PROVE m + 1 \notin Bad
  <2>1. PICK g \in [SUBSET S -> Int] : AddsUpTo(g, f, S, m)
    BY <1>3
  <2> DEFINE h == [s \in SUBSET S |-> IF Cardinality(s) <= m THEN g[s] ELSE Sum(g, s)]
  <2>2. h \in [SUBSET S -> Int]
    <3>1. ASSUME NEW s \in SUBSET S PROVE Sum(g, s) \in Int
      <4>1. s # {} => f[Pick(s)] \in Int /\ g[s \ {Pick(s)}] \in Int
        BY <1>1
      <4> QED
        BY <4>1
    <3> HIDE DEF Sum
    <3> QED
      BY <3>1
  <2>3. ASSUME NEW s \in SUBSET S, Cardinality(s) <= m + 1 PROVE h[s] = Sum(h, s)
    <3>1. h[s] = Sum(g, s)
      BY <2>1 DEF AddsUpTo
    <3>2. s # {} => h[s \ {Pick(s)}] = g[s \ {Pick(s)}]
      BY <1>1, <2>3
    <3> QED
      BY <3>1, <3>2
  <2>4. AddsUpTo(h, f, S, m + 1)
    BY <2>3 DEF AddsUpTo
  <2> QED
    BY <2>2, <2>4
<1>4. Bad = {}
  <2>1. SUFFICES ASSUME Bad # {} PROVE FALSE
    OBVIOUS
  <2>2. PICK m \in Bad : \A k \in Bad : m <= k
    BY <2>1, LeastNumber
  <2>3. m \in Nat /\ m # 0
    BY <1>2
  <2>4. m - 1 \in Nat /\ (m - 1) + 1 = m /\ ~ (m <= m - 1)
    BY <2>3
  <2>5. m - 1 \notin Bad
    BY <2>2, <2>4
  <2> HIDE DEF Bad
  <2> QED
    BY <1>3, <2>4, <2>5
<1> QED
  BY <1>4

\* A sum is the value, at the whole set, of a function that adds up its subsets.
LEMMA SumEquation ==
    ASSUME NEW S, NEW f, Summable(f, S)
    PROVE  \E g \in [SUBSET S -> Int] : Adds(g, f, S) /\ SumFunctionOnSet(f, S) = g[S]
<1>1. /\ Cardinality(S) \in Nat
      /\ \A s \in SUBSET S : Cardinality(s) <= Cardinality(S)
  BY FS_CardinalityType, FS_Subset DEF Summable
<1>2. PICK h \in [SUBSET S -> Int] : AddsUpTo(h, f, S, Cardinality(S))
  BY <1>1, SumExistsUpTo
<1>3. Adds(h, f, S)
  BY <1>1, <1>2 DEF Adds, AddsUpTo
<1> DEFINE g == CHOOSE i : Adds(i, f, S)
<1>4. Adds(g, f, S)
  BY <1>3
<1>5. \A s \in SUBSET S : g[s] = h[s]
  <2> DEFINE Bad == {s \in SUBSET S : g[s] # h[s]}
  <2>1. SUFFICES ASSUME Bad # {} PROVE FALSE
    OBVIOUS
  <2>2. PICK T \in Bad : \A U \in Bad : U \subseteq T => U = T
    <3>1. Bad \in SUBSET (SUBSET S) /\ IsFiniteSet(S)
      BY DEF Summable
    <3> HIDE DEF Bad
    <3> QED
      BY <2>1, <3>1, SmallestSubset
  <2>3. T # {}
    BY <1>3, <1>4 DEF Adds
  <2>4. Pick(T) \in T
    BY <2>3 DEF Pick
  <2>5. T \ {Pick(T)} \in SUBSET S /\ T \ {Pick(T)} \notin Bad
    BY <2>2, <2>4
  <2> QED
    BY <1>3, <1>4, <2>3, <2>5 DEF Adds
<1>6. g = h
  BY <1>3, <1>4, <1>5 DEF Adds
<1> QED
  BY <1>4, <1>6, SumIsChosen

LEMMA SumOfNothing ==
    ASSUME NEW f
    PROVE  SumFunctionOnSet(f, {}) = 0
<1>1. Summable(f, {})
  BY FS_EmptySet DEF Summable
<1> QED
  BY <1>1, SumEquation DEF Adds

LEMMA SumType ==
    ASSUME NEW S, NEW f, Summable(f, S)
    PROVE  SumFunctionOnSet(f, S) \in Int
<1>1. PICK g \in [SUBSET S -> Int] : SumFunctionOnSet(f, S) = g[S]
  BY SumEquation
<1> QED
  BY <1>1

LEMMA SubsetSummable ==
    ASSUME NEW S, NEW f, Summable(f, S), NEW T, T \subseteq S
    PROVE  Summable(f, T)
BY FS_Subset DEF Summable

\* The sum of a subset, read off the function of the whole set.
LEMMA SumOfSubset ==
    ASSUME NEW S, NEW f, Summable(f, S), NEW g, Adds(g, f, S), NEW T \in SUBSET S
    PROVE  SumFunctionOnSet(f, T) = g[T]
<1>1. PICK h \in [SUBSET T -> Int] : Adds(h, f, T) /\ SumFunctionOnSet(f, T) = h[T]
  BY SubsetSummable, SumEquation
<1> DEFINE Bad == {s \in SUBSET T : g[s] # h[s]}
<1>2. SUFFICES ASSUME Bad # {} PROVE FALSE
  BY <1>1
<1>3. PICK U \in Bad : \A W \in Bad : W \subseteq U => W = U
  <2>1. Bad \in SUBSET (SUBSET T) /\ IsFiniteSet(T)
    BY SubsetSummable DEF Summable
  <2> HIDE DEF Bad
  <2> QED
    BY <1>2, <2>1, SmallestSubset
<1>4. U \in SUBSET T /\ U \in SUBSET S /\ g[U] # h[U]
  OBVIOUS
<1>5. U # {}
  BY <1>1, <1>4 DEF Adds
<1>6. Pick(U) \in U
  BY <1>5 DEF Pick
<1>7. g[U \ {Pick(U)}] = h[U \ {Pick(U)}] /\ U \ {Pick(U)} \in SUBSET T
  BY <1>3, <1>6
<1> QED
  BY <1>1, <1>4, <1>5, <1>7 DEF Adds

\* A sum begins with any element one likes.
LEMMA SumOfOneAndRest ==
    ASSUME NEW S, NEW f, Summable(f, S), NEW x \in S
    PROVE  SumFunctionOnSet(f, S) = f[x] + SumFunctionOnSet(f, S \ {x})
<1>1. PICK g \in [SUBSET S -> Int] : Adds(g, f, S) /\ SumFunctionOnSet(f, S) = g[S]
  BY SumEquation
<1> DEFINE Bad == {U \in SUBSET S : \E y \in U : g[U] # f[y] + g[U \ {y}]}
<1>2. Bad = {}
  <2>1. SUFFICES ASSUME Bad # {} PROVE FALSE
    OBVIOUS
  <2>2. PICK U \in Bad : \A W \in Bad : W \subseteq U => W = U
    <3>1. Bad \in SUBSET (SUBSET S) /\ IsFiniteSet(S)
      BY DEF Summable
    <3> HIDE DEF Bad
    <3> QED
      BY <2>1, <3>1, SmallestSubset
  <2>3. PICK y \in U : g[U] # f[y] + g[U \ {y}]
    OBVIOUS
  <2> DEFINE p == Pick(U)
  <2>4. p \in U /\ g[U] = f[p] + g[U \ {p}] /\ p # y
    BY <1>1, <2>3 DEF Adds, Pick
  <2> HIDE DEF p
  <2>5. g[U \ {p}] = f[y] + g[(U \ {p}) \ {y}]
    <3>1. U \ {p} \notin Bad /\ U \ {p} \in SUBSET S
      BY <2>2, <2>4
    <3> QED
      BY <2>3, <2>4, <3>1
  <2>6. g[U \ {y}] = f[p] + g[(U \ {y}) \ {p}]
    <3>1. U \ {y} \notin Bad /\ U \ {y} \in SUBSET S
      BY <2>2, <2>3
    <3> QED
      BY <2>3, <2>4, <3>1
  <2>7. (U \ {p}) \ {y} = (U \ {y}) \ {p}
    OBVIOUS
  <2>8. /\ f[p] \in Int /\ f[y] \in Int
        /\ g[(U \ {y}) \ {p}] \in Int
    BY <2>3, <2>4 DEF Summable
  <2>9. g[U] = f[y] + g[U \ {y}]
    <3>1. \A a, b, c \in Int : a + (b + c) = b + (a + c)
      OBVIOUS
    <3>2. g[U] = f[p] + (f[y] + g[(U \ {y}) \ {p}])
      BY <2>4, <2>5, <2>7, Zenon
    <3>3. g[U] = f[y] + (f[p] + g[(U \ {y}) \ {p}])
      BY <2>8, <3>1, <3>2, Zenon
    <3> QED
      BY <2>6, <3>3, Zenon
  <2> QED
    BY <2>3, <2>9
<1>3. g[S] = f[x] + g[S \ {x}]
  BY <1>2
<1> QED
  BY <1>1, <1>3, SumOfSubset

LEMMA SumWithOneMore ==
    ASSUME NEW S, NEW f, Summable(f, S), NEW x, x \notin S, f[x] \in Int
    PROVE  /\ Summable(f, S \cup {x})
           /\ SumFunctionOnSet(f, S \cup {x}) = f[x] + SumFunctionOnSet(f, S)
<1>1. Summable(f, S \cup {x})
  BY FS_AddElement DEF Summable
<1>2. (S \cup {x}) \ {x} = S /\ x \in S \cup {x}
  OBVIOUS
<1> QED
  BY <1>1, <1>2, SumOfOneAndRest
-----------------------------------------------------------------------------
(***************************************************************************)
(* What follows by taking a smallest subset for which it fails.            *)
(***************************************************************************)
\* Only the values on the set count.
LEMMA SumsAgree ==
    ASSUME NEW S, NEW f, Summable(f, S), NEW h, \A x \in S : h[x] = f[x]
    PROVE  Summable(h, S) /\ SumFunctionOnSet(h, S) = SumFunctionOnSet(f, S)
<1>1. Summable(h, S)
  BY DEF Summable
<1> DEFINE Bad == {U \in SUBSET S : SumFunctionOnSet(h, U) # SumFunctionOnSet(f, U)}
<1>2. SUFFICES ASSUME Bad # {} PROVE FALSE
  BY <1>1
<1>3. PICK U \in Bad : \A W \in Bad : W \subseteq U => W = U
  <2>1. Bad \in SUBSET (SUBSET S) /\ IsFiniteSet(S)
    BY DEF Summable
  <2> HIDE DEF Bad
  <2> QED
    BY <1>2, <2>1, SmallestSubset
<1>4. U # {}
  BY SumOfNothing
<1>5. PICK x \in U : TRUE
  BY <1>4
<1>6. SumFunctionOnSet(h, U \ {x}) = SumFunctionOnSet(f, U \ {x})
  BY <1>3
<1>7. Summable(f, U) /\ Summable(h, U)
  BY <1>1, SubsetSummable
<1> QED
  BY <1>6, <1>7, SumOfOneAndRest

\* A sum is at most another when each of its terms is.
LEMMA SumsCompare ==
    ASSUME NEW S, NEW f, Summable(f, S), NEW h, Summable(h, S), \A x \in S : f[x] <= h[x]
    PROVE  SumFunctionOnSet(f, S) <= SumFunctionOnSet(h, S)
<1> DEFINE Bad == {U \in SUBSET S : ~ (SumFunctionOnSet(f, U) <= SumFunctionOnSet(h, U))}
<1>2. SUFFICES ASSUME Bad # {} PROVE FALSE
  OBVIOUS
<1>3. PICK U \in Bad : \A W \in Bad : W \subseteq U => W = U
  <2>1. Bad \in SUBSET (SUBSET S) /\ IsFiniteSet(S)
    BY DEF Summable
  <2> HIDE DEF Bad
  <2> QED
    BY <1>2, <2>1, SmallestSubset
<1>4. U # {}
  BY SumOfNothing
<1>5. PICK x \in U : TRUE
  BY <1>4
<1>6. SumFunctionOnSet(f, U \ {x}) <= SumFunctionOnSet(h, U \ {x})
  BY <1>3
<1>7. /\ Summable(f, U) /\ Summable(h, U)
      /\ Summable(f, U \ {x}) /\ Summable(h, U \ {x})
  BY SubsetSummable
<1>8. /\ SumFunctionOnSet(f, U) = f[x] + SumFunctionOnSet(f, U \ {x})
      /\ SumFunctionOnSet(h, U) = h[x] + SumFunctionOnSet(h, U \ {x})
  BY <1>7, SumOfOneAndRest
<1>9. /\ f[x] \in Int /\ h[x] \in Int /\ f[x] <= h[x]
      /\ SumFunctionOnSet(f, U \ {x}) \in Int /\ SumFunctionOnSet(h, U \ {x}) \in Int
  BY <1>7, SumType DEF Summable
<1> QED
  BY <1>6, <1>8, <1>9

\* A sum of zeros is zero.
LEMMA SumOfZeros ==
    ASSUME NEW S, IsFiniteSet(S), NEW f, \A x \in S : f[x] = 0
    PROVE  SumFunctionOnSet(f, S) = 0
<1>1. Summable(f, S)
  BY DEF Summable
<1> DEFINE Bad == {U \in SUBSET S : SumFunctionOnSet(f, U) # 0}
<1>2. SUFFICES ASSUME Bad # {} PROVE FALSE
  OBVIOUS
<1>3. PICK U \in Bad : \A W \in Bad : W \subseteq U => W = U
  <2>1. Bad \in SUBSET (SUBSET S)
    OBVIOUS
  <2> HIDE DEF Bad
  <2> QED
    BY <1>2, <2>1, SmallestSubset
<1>4. U # {}
  BY SumOfNothing
<1>5. PICK x \in U : TRUE
  BY <1>4
<1>6. SumFunctionOnSet(f, U \ {x}) = 0 /\ f[x] = 0
  BY <1>3
<1> QED
  BY <1>1, <1>6, SubsetSummable, SumOfOneAndRest

\* Two disjoint sets add up.
LEMMA SumOfUnion ==
    ASSUME NEW S, NEW T, NEW f, Summable(f, S \cup T), S \cap T = {}
    PROVE  SumFunctionOnSet(f, S \cup T) = SumFunctionOnSet(f, S) + SumFunctionOnSet(f, T)
<1> DEFINE Sum(U) == SumFunctionOnSet(f, U)
           Bad == {U \in SUBSET T : Sum(S \cup U) # Sum(S) + Sum(U)}
<1>1. Summable(f, S) /\ Summable(f, T)
  BY SubsetSummable
<1>2. SUFFICES ASSUME Bad # {} PROVE FALSE
  OBVIOUS
<1>3. PICK U \in Bad : \A W \in Bad : W \subseteq U => W = U
  <2>1. Bad \in SUBSET (SUBSET T) /\ IsFiniteSet(T)
    BY <1>1 DEF Summable
  <2> HIDE DEF Bad
  <2> QED
    BY <1>2, <2>1, SmallestSubset
<1>4. U # {}
  <2>1. S \cup {} = S /\ Sum(S) \in Int /\ Sum({}) = 0
    BY <1>1, SumType, SumOfNothing
  <2>2. Sum(S \cup {}) = Sum(S) + Sum({})
    <3> HIDE DEF Sum
    <3> QED
      BY <2>1
  <2> QED
    BY <1>3, <2>2
<1>5. PICK x \in U : TRUE
  BY <1>4
<1>6. Sum(S \cup (U \ {x})) = Sum(S) + Sum(U \ {x})
  BY <1>3
<1>7. Summable(f, U) /\ Summable(f, U \ {x}) /\ Summable(f, S \cup U)
  BY SubsetSummable
<1>8. Sum(U) = f[x] + Sum(U \ {x})
  BY <1>7, SumOfOneAndRest
<1>9. Sum(S \cup U) = f[x] + Sum(S \cup (U \ {x}))
  <2>1. (S \cup U) \ {x} = S \cup (U \ {x}) /\ x \in S \cup U
    OBVIOUS
  <2> QED
    BY <1>7, <2>1, SumOfOneAndRest
<1>10. f[x] \in Int /\ Sum(S) \in Int /\ Sum(U \ {x}) \in Int
  BY <1>1, <1>7, SumType DEF Summable
<1>11. Sum(S \cup U) = Sum(S) + Sum(U)
  <2> HIDE DEF Sum
  <2> QED
    BY <1>6, <1>8, <1>9, <1>10
<1> QED
  BY <1>11

\* What is zero need not be added.
LEMMA SumSkipsZeros ==
    ASSUME NEW S, NEW f, Summable(f, S), NEW T \in SUBSET S, \A x \in S \ T : f[x] = 0
    PROVE  SumFunctionOnSet(f, S) = SumFunctionOnSet(f, T)
<1>1. T \cup (S \ T) = S /\ T \cap (S \ T) = {}
  OBVIOUS
<1>2. SumFunctionOnSet(f, S \ T) = 0
  BY SubsetSummable, SumOfZeros DEF Summable
<1>3. SumFunctionOnSet(f, S) = SumFunctionOnSet(f, T) + SumFunctionOnSet(f, S \ T)
  BY <1>1, SumOfUnion
<1>4. SumFunctionOnSet(f, T) \in Int
  BY SubsetSummable, SumType
<1> QED
  BY <1>2, <1>3, <1>4

\* A larger set of terms, none of them negative.
LEMMA SumGrows ==
    ASSUME NEW S, NEW f, Summable(f, S), NEW T \in SUBSET S, \A x \in S \ T : f[x] >= 0
    PROVE  SumFunctionOnSet(f, T) <= SumFunctionOnSet(f, S)
<1> DEFINE z == [x \in S |-> 0]
<1>1. T \cup (S \ T) = S /\ T \cap (S \ T) = {}
  OBVIOUS
<1>2. Summable(f, S \ T) /\ Summable(z, S \ T) /\ Summable(f, T)
  BY SubsetSummable DEF Summable
<1>3. SumFunctionOnSet(z, S \ T) = 0
  BY <1>2, SumOfZeros DEF Summable
<1>4. \A x \in S \ T : z[x] <= f[x]
  OBVIOUS
<1>5. SumFunctionOnSet(z, S \ T) <= SumFunctionOnSet(f, S \ T)
  BY <1>2, <1>4, SumsCompare
<1>6. SumFunctionOnSet(f, S) = SumFunctionOnSet(f, T) + SumFunctionOnSet(f, S \ T)
  BY <1>1, SumOfUnion
<1>7. SumFunctionOnSet(f, T) \in Int /\ SumFunctionOnSet(f, S \ T) \in Int
  BY <1>2, SumType
<1> QED
  BY <1>3, <1>5, <1>6, <1>7

\* A sum may be taken group by group.
LEMMA SumByGroups ==
    ASSUME NEW S, NEW f, Summable(f, S), NEW P, IsFiniteSet(P), NEW at \in [S -> P]
    PROVE  LET group == [p \in P |-> SumFunctionOnSet(f, {x \in S : at[x] = p})]
           IN  /\ Summable(group, P)
               /\ SumFunctionOnSet(group, P) = SumFunctionOnSet(f, S)
<1> DEFINE Of(U) == {x \in S : at[x] \in U}
           In(p) == {x \in S : at[x] = p}
           group == [p \in P |-> SumFunctionOnSet(f, In(p))]
           Bad == {U \in SUBSET P : SumFunctionOnSet(group, U) # SumFunctionOnSet(f, Of(U))}
<1>1. ASSUME NEW T \in SUBSET S PROVE Summable(f, T) /\ SumFunctionOnSet(f, T) \in Int
  BY SubsetSummable, SumType
<1>2. Summable(group, P)
  <2>1. \A p \in P : group[p] \in Int
    BY <1>1
  <2> QED
    BY <2>1 DEF Summable
<1>3. Bad = {}
  <2>1. SUFFICES ASSUME Bad # {} PROVE FALSE
    OBVIOUS
  <2>2. PICK U \in Bad : \A W \in Bad : W \subseteq U => W = U
    <3>1. Bad \in SUBSET (SUBSET P)
      OBVIOUS
    <3> HIDE DEF Bad
    <3> QED
      BY <2>1, <3>1, SmallestSubset
  <2>3. U # {}
    <3>1. Of({}) = {}
      OBVIOUS
    <3>2. SumFunctionOnSet(group, {}) = SumFunctionOnSet(f, Of({}))
      BY <3>1, SumOfNothing
    <3> QED
      BY <2>2, <3>2
  <2>4. PICK p \in U : TRUE
    BY <2>3
  <2>5. SumFunctionOnSet(group, U \ {p}) = SumFunctionOnSet(f, Of(U \ {p}))
    BY <2>2
  <2>6. SumFunctionOnSet(group, U) = group[p] + SumFunctionOnSet(group, U \ {p})
    <3>1. Summable(group, U)
      BY <1>2, SubsetSummable
    <3> HIDE DEF group, Bad
    <3> QED
      BY <3>1, SumOfOneAndRest
  <2>7. SumFunctionOnSet(f, Of(U)) = SumFunctionOnSet(f, In(p)) + SumFunctionOnSet(f, Of(U \ {p}))
    <3>1. Of(U) = In(p) \cup Of(U \ {p}) /\ In(p) \cap Of(U \ {p}) = {}
      OBVIOUS
    <3>2. Summable(f, Of(U))
      BY <1>1
    <3> HIDE DEF Of, In
    <3> QED
      BY <3>1, <3>2, SumOfUnion
  <2>8. SumFunctionOnSet(group, U) = SumFunctionOnSet(f, Of(U))
    BY <2>5, <2>6, <2>7
  <2> QED
    BY <2>2, <2>8
<1>4. Of(P) = S
  OBVIOUS
<1>5. SumFunctionOnSet(group, P) = SumFunctionOnSet(f, Of(P))
  BY <1>3
<1> QED
  BY <1>2, <1>4, <1>5
=============================================================================
