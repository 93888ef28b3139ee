----------------------------- MODULE FiniteSums -----------------------------
(***************************************************************************)
(* Sums over finite sets, for the proofs about ledgers and budgets.        *)
(*                                                                         *)
(* The library's induction principles take an operator, which the provers  *)
(* cannot instantiate.  Here a predicate is a set of sets: the least       *)
(* element that a well-founded order gives every non-empty set turns that  *)
(* into induction, and recursion over subsets into a function that exists. *)
(***************************************************************************)
EXTENDS Integers, FiniteSets, FiniteSetsExt, FiniteSetTheorems,
        WellFoundedInduction, TLAPS

SumOf(f, S) == MapThenSumSet(LAMBDA x : f[x], S)

\* A set of subsets of a finite set that has an element has a least one.
LEMMA LeastSubset ==
  ASSUME NEW S, IsFiniteSet(S), NEW Bad, Bad \subseteq SUBSET S, Bad # {}
  PROVE  \E M \in Bad : \A L \in SUBSET M : L # M => L \notin Bad
<1>1. IsWellFoundedOn(StrictSubsetOrdering(S), SUBSET S)
  BY FS_StrictSubsetOrderingWellFounded, FS_FiniteSubsetsOfFinite
<1>2. PICK M \in Bad : \A T \in Bad : ~(<<T, M>> \in StrictSubsetOrdering(S))
  BY <1>1, WFMin, Zenon
<1>3. ASSUME NEW L \in SUBSET M, L # M, L \in Bad PROVE FALSE
  <2>1. <<L, M>> \in StrictSubsetOrdering(S)
    BY <1>3 DEF StrictSubsetOrdering
  <2> QED
    BY <1>2, <1>3, <2>1
<1> QED
  BY <1>3

\* Induction over the subsets of a finite set S, for the predicate "T \in P":
\* it holds of {} and adding an element keeps it.
LEMMA SubsetInduction ==
  ASSUME NEW S, IsFiniteSet(S), NEW P,
         {} \in P,
         \A T \in SUBSET S, x \in S : T \in P /\ x \notin T => T \cup {x} \in P
  PROVE  \A T \in SUBSET S : T \in P
<1> SUFFICES ASSUME NEW T0 \in SUBSET S, T0 \notin P PROVE FALSE
  OBVIOUS
<1> DEFINE Bad == {T \in SUBSET S : T \notin P}
<1>0. Bad \subseteq SUBSET S /\ Bad # {}
  OBVIOUS
<1>1. PICK M \in Bad : \A L \in SUBSET M : L # M => L \notin Bad
  <2> HIDE DEF Bad
  <2> QED
    BY <1>0, LeastSubset, Zenon
<1>2. PICK x \in M : TRUE
  OBVIOUS
<1> DEFINE L == M \ {x}
<1>3. L \in SUBSET M /\ L # M /\ x \notin L /\ M = L \cup {x}
  BY <1>2
<1>4. L \in P
  BY <1>1, <1>3
<1> QED
  BY <1>2, <1>3, <1>4

\* A set of natural numbers that has an element has a least one.
LEMMA LeastNatural ==
  ASSUME NEW N, N \subseteq Nat, N # {}
  PROVE  \E k \in N : \A l \in N : k <= l
<1> DEFINE Less == OpToRel(<, Nat)
<1>1. IsWellFoundedOn(Less, Nat)
  BY NatLessThanWellFounded
<1>2. \A i, j \in Nat : i < j => <<i, j>> \in Less
  BY DEF OpToRel
<1> HIDE DEF Less
<1>3. PICK k \in N : \A l \in N : ~(<<l, k>> \in Less)
  BY <1>1, WFMin, Zenon
<1>4. \A l \in N : ~(l < k)
  BY <1>2, <1>3
<1> QED
  BY <1>4

\* Induction over the natural numbers, for the predicate "n \in P".
LEMMA SetOfNatInduction ==
  ASSUME NEW P, 0 \in P, \A n \in Nat : n \in P => n + 1 \in P
  PROVE  Nat \subseteq P
<1> SUFFICES ASSUME NEW n0 \in Nat, n0 \notin P PROVE FALSE
  OBVIOUS
<1> DEFINE Bad == {n \in Nat : n \notin P}
<1>2. Bad \subseteq Nat /\ Bad # {}
  OBVIOUS
<1> HIDE DEF Bad
<1>4. PICK m \in Bad : \A n \in Bad : m <= n
  BY <1>2, LeastNatural
<1>5. m \in Nat /\ m \notin P /\ m # 0
  BY DEF Bad
<1>6. m - 1 \in Nat /\ m - 1 < m /\ (m - 1) + 1 = m
  BY <1>5
<1>7. m - 1 \in P
  BY <1>4, <1>5, <1>6 DEF Bad
<1> QED
  BY <1>5, <1>6, <1>7

\* A set given by its three elements is finite.
LEMMA ThreeIsFinite == ASSUME NEW a, NEW b, NEW c PROVE IsFiniteSet({a, b, c})
<1>1. IsFiniteSet({a} \cup {b})
  BY FS_Singleton, FS_AddElement
<1>2. IsFiniteSet(({a} \cup {b}) \cup {c})
  BY <1>1, FS_AddElement
<1>3. ({a} \cup {b}) \cup {c} = {a, b, c}
  OBVIOUS
<1> QED
  BY <1>2, <1>3

\* The element that the library's fold takes first, and one turn of the fold.
First(s) == CHOOSE x \in s : TRUE
FoldOnce(f, g, s) == IF s = {} THEN 0 ELSE f[First(s)] + g[s \ {First(s)}]
IsFold(g, f, S) == \A s \in SUBSET S : g[s] = FoldOnce(f, g, s)

\* The element taken first from a non-empty set is one of its own.
LEMMA FirstIsElement == \A s : s # {} => First(s) \in s
  BY DEF First

\* The function that the fold defines on the subsets of S exists.
LEMMA FoldExists ==
  ASSUME NEW S, IsFiniteSet(S), NEW f, \A x \in S : f[x] \in Int
  PROVE  \E g \in [SUBSET S -> Int] : \A s \in SUBSET S : g[s] = FoldOnce(f, g, s)
<1> DEFINE Upto(n) == {s \in SUBSET S : Cardinality(s) <= n}
           Has(n) == \E g \in [Upto(n) -> Int] : \A s \in Upto(n) : g[s] = FoldOnce(f, g, s)
           P == {n \in Nat : Has(n)}
<1>1. \A s \in SUBSET S : IsFiniteSet(s) /\ Cardinality(s) \in Nat
  BY FS_Subset, FS_CardinalityType
<1>2. \A s \in SUBSET S : s # {} =>
        /\ First(s) \in S
        /\ s \ {First(s)} \in SUBSET S
        /\ Cardinality(s \ {First(s)}) = Cardinality(s) - 1
  BY <1>1, FirstIsElement, FS_RemoveElement
<1>3. 0 \in P
  <2> DEFINE g == [s \in Upto(0) |-> 0]
  <2>1. \A s \in Upto(0) : s = {}
    BY <1>1, FS_EmptySet
  <2>2. g \in [Upto(0) -> Int] /\ \A s \in Upto(0) : g[s] = FoldOnce(f, g, s)
    BY <2>1 DEF FoldOnce
  <2> QED
    BY <2>2
<1>4. ASSUME NEW n \in Nat, n \in P PROVE n + 1 \in P
  <2>1. PICK g \in [Upto(n) -> Int] : \A s \in Upto(n) : g[s] = FoldOnce(f, g, s)
    BY <1>4
  <2> DEFINE h == [s \in Upto(n + 1) |-> FoldOnce(f, g, s)]
  <2>2. ASSUME NEW s \in Upto(n + 1), s # {}
        PROVE  s \ {First(s)} \in Upto(n) /\ s \ {First(s)} \in Upto(n + 1) /\ f[First(s)] \in Int
    BY <1>1, <1>2, <2>2
  <2>3. h \in [Upto(n + 1) -> Int]
    <3>1. ASSUME NEW s \in Upto(n + 1) PROVE FoldOnce(f, g, s) \in Int
      BY <2>1, <2>2 DEF FoldOnce
    <3> QED
      BY <3>1
  <2>4. \A s \in Upto(n) : h[s] = g[s]
    BY <1>1, <2>1
  <2>5. \A s \in Upto(n + 1) : h[s] = FoldOnce(f, h, s)
    BY <2>2, <2>4 DEF FoldOnce
  <2> HIDE DEF h, Upto
  <2>6. Has(n + 1)
    BY <2>3, <2>5
  <2> QED
    BY <2>6
<1>5. Cardinality(S) \in P
  BY <1>1, <1>3, <1>4, SetOfNatInduction
<1>6. Upto(Cardinality(S)) = SUBSET S
  BY <1>1, FS_Subset
<1> QED
  BY <1>5, <1>6

\* It is the only one.
LEMMA FoldUnique ==
  ASSUME NEW S, IsFiniteSet(S), NEW f,
         NEW g, IsFold(g, f, S), NEW h, IsFold(h, f, S)
  PROVE  \A s \in SUBSET S : g[s] = h[s]
<1> USE DEF IsFold
<1> SUFFICES ASSUME NEW s0 \in SUBSET S, g[s0] # h[s0] PROVE FALSE
  OBVIOUS
<1> DEFINE Bad == {s \in SUBSET S : g[s] # h[s]}
<1>0. Bad \subseteq SUBSET S /\ Bad # {}
  OBVIOUS
<1>1. PICK M \in Bad : \A L \in SUBSET M : L # M => L \notin Bad
  <2> HIDE DEF Bad
  <2> QED BY <1>0, LeastSubset
<1>2. M # {}
  BY DEF FoldOnce
<1>3. First(M) \in M
  BY <1>2, FirstIsElement
<1>4. g[M \ {First(M)}] = h[M \ {First(M)}]
  BY <1>1, <1>3
<1> QED
  BY <1>2, <1>4 DEF FoldOnce

\* The library's sum is the value at S of that function.
LEMMA SumIsFold ==
  ASSUME NEW S, IsFiniteSet(S), NEW f, \A x \in S : f[x] \in Int
  PROVE  \E g \in [SUBSET S -> Int] :
           /\ \A s \in SUBSET S : g[s] = FoldOnce(f, g, s)
           /\ SumOf(f, S) = g[S]
<1> DEFINE Solves(g) == g = [s \in SUBSET S |-> FoldOnce(f, g, s)]
           iter == CHOOSE g : Solves(g)
<1>1. SumOf(f, S) = iter[S]
  BY DEF SumOf, MapThenSumSet, MapThenFoldSet, FoldOnce, First
<1>2. PICK g \in [SUBSET S -> Int] : \A s \in SUBSET S : g[s] = FoldOnce(f, g, s)
  BY FoldExists
<1>3. Solves(g)
  BY <1>2
<1>4. Solves(iter)
  BY <1>3
<1> HIDE DEF iter
<1>5. \A s \in SUBSET S : iter[s] = FoldOnce(f, iter, s)
  BY <1>4
<1>6. iter[S] = g[S]
  BY <1>2, <1>5, FoldUnique DEF IsFold
<1> QED
  BY <1>1, <1>2, <1>6

\* The sum of a subset is the value of the whole set's fold there.
LEMMA SumOfSubset ==
  ASSUME NEW S, IsFiniteSet(S), NEW f, \A x \in S : f[x] \in Int,
         NEW g, \A s \in SUBSET S : g[s] = FoldOnce(f, g, s),
         NEW T \in SUBSET S
  PROVE  SumOf(f, T) = g[T]
<1>1. IsFiniteSet(T)
  BY FS_Subset
<1>2. PICK h \in [SUBSET T -> Int] : IsFold(h, f, T) /\ SumOf(f, T) = h[T]
  BY <1>1, SumIsFold DEF IsFold
<1>3. IsFold(g, f, T)
  BY DEF IsFold
<1>4. \A s \in SUBSET T : g[s] = h[s]
  BY <1>1, <1>2, <1>3, FoldUnique
<1> QED
  BY <1>2, <1>4

-----------------------------------------------------------------------------
(* What the proofs use. *)

\* A sum of integers is an integer, and that of no terms is zero.
LEMMA SumIsInt ==
  ASSUME NEW S, IsFiniteSet(S), NEW f, \A x \in S : f[x] \in Int
  PROVE  SumOf(f, S) \in Int
<1>1. PICK g \in [SUBSET S -> Int] :
        (\A s \in SUBSET S : g[s] = FoldOnce(f, g, s)) /\ SumOf(f, S) = g[S]
  BY SumIsFold
<1> QED
  BY <1>1

\* The sum over nothing is zero.
LEMMA SumOfNone == ASSUME NEW f PROVE SumOf(f, {}) = 0
<1>1. PICK g \in [SUBSET {} -> Int] :
        /\ \A s \in SUBSET {} : g[s] = FoldOnce(f, g, s)
        /\ SumOf(f, {}) = g[{}]
  BY SumIsFold, FS_EmptySet
<1> QED
  BY <1>1 DEF FoldOnce

\* Any term may be taken out of a sum, whichever the fold takes first.
LEMMA SumRemove ==
  ASSUME NEW S, IsFiniteSet(S), NEW f, \A x \in S : f[x] \in Int, NEW y \in S
  PROVE  SumOf(f, S) = f[y] + SumOf(f, S \ {y})
<1> DEFINE Bad == {T \in SUBSET S : \E x \in T : SumOf(f, T) # f[x] + SumOf(f, T \ {x})}
<1> SUFFICES ASSUME Bad # {} PROVE FALSE
  OBVIOUS
<1>0. Bad \subseteq SUBSET S
  OBVIOUS
<1>1. PICK M \in Bad : \A L \in SUBSET M : L # M => L \notin Bad
  <2> HIDE DEF Bad
  <2> QED BY <1>0, LeastSubset
<1>2. PICK x \in M : SumOf(f, M) # f[x] + SumOf(f, M \ {x})
  OBVIOUS
<1> DEFINE c == First(M)
<1>3. c \in M
  BY <1>2, FirstIsElement
<1>4. PICK g \in [SUBSET S -> Int] : \A s \in SUBSET S : g[s] = FoldOnce(f, g, s)
  BY FoldExists
<1>5. \A T \in SUBSET S : SumOf(f, T) = g[T]
  BY <1>4, SumOfSubset
<1>6. SumOf(f, M) = f[c] + SumOf(f, M \ {c})
  BY <1>2, <1>3, <1>4, <1>5 DEF FoldOnce
<1> HIDE DEF c
<1>7. c # x
  BY <1>2, <1>6
<1>8. M \ {c} \in SUBSET S /\ M \ {x} \in SUBSET S /\ x \in M \ {c} /\ c \in M \ {x}
  BY <1>2, <1>3, <1>7
<1> DEFINE R == M \ {c, x}
<1>9. (M \ {c}) \ {x} = R /\ (M \ {x}) \ {c} = R /\ R \in SUBSET S
  OBVIOUS
<1>10. M \ {c} \notin Bad /\ M \ {x} \notin Bad
  BY <1>1, <1>2, <1>3
<1>11. SumOf(f, M \ {c}) = f[x] + SumOf(f, R) /\ SumOf(f, M \ {x}) = f[c] + SumOf(f, R)
  BY <1>8, <1>9, <1>10
<1>12. f[x] \in Int /\ f[c] \in Int /\ SumOf(f, R) \in Int
  BY <1>2, <1>3, <1>4, <1>5, <1>9
<1> HIDE DEF R
<1> QED
  BY <1>2, <1>6, <1>11, <1>12

\* Sums of functions that agree on the set are equal.
LEMMA SumSame ==
  ASSUME NEW S, IsFiniteSet(S), NEW f, NEW g,
         \A x \in S : f[x] \in Int /\ g[x] = f[x]
  PROVE  SumOf(f, S) = SumOf(g, S)
<1> DEFINE P == {T \in SUBSET S : SumOf(f, T) = SumOf(g, T)}
<1>1. {} \in P
  BY SumOfNone
<1>2. ASSUME NEW T \in SUBSET S, NEW x \in S, T \in P, x \notin T
      PROVE  T \cup {x} \in P
  <2>1. IsFiniteSet(T \cup {x}) /\ T \cup {x} \in SUBSET S
    BY FS_Subset
  <2>2. (T \cup {x}) \ {x} = T
    BY <1>2
  <2>3. SumOf(f, T \cup {x}) = f[x] + SumOf(f, T)
    BY <2>1, <2>2, SumRemove
  <2>4. SumOf(g, T \cup {x}) = g[x] + SumOf(g, T)
    BY <2>1, <2>2, SumRemove
  <2> QED
    BY <1>2, <2>1, <2>3, <2>4
<1> HIDE DEF P
<1>3. S \in P
  BY <1>1, <1>2, SubsetInduction
<1> QED
  BY <1>3 DEF P

\* Changing one term changes the sum by the difference.
LEMMA SumUpdate ==
  ASSUME NEW S, IsFiniteSet(S), NEW f, NEW g, NEW y \in S,
         \A x \in S : f[x] \in Int /\ g[x] \in Int,
         \A x \in S \ {y} : g[x] = f[x]
  PROVE  SumOf(g, S) = SumOf(f, S) - f[y] + g[y]
<1>1. SumOf(f, S) = f[y] + SumOf(f, S \ {y})
  BY SumRemove
<1>2. SumOf(g, S) = g[y] + SumOf(g, S \ {y})
  BY SumRemove
<1>3. IsFiniteSet(S \ {y})
  BY FS_RemoveElement
<1>4. SumOf(f, S \ {y}) = SumOf(g, S \ {y})
  BY <1>3, SumSame
<1>5. SumOf(f, S \ {y}) \in Int
  BY <1>3, SumIsInt
<1> QED
  BY <1>1, <1>2, <1>4, <1>5

\* Terms that are zero may be left out of a sum.
LEMMA SumSkipsZeros ==
  ASSUME NEW S, IsFiniteSet(S), NEW f, \A x \in S : f[x] \in Int,
         NEW T \in SUBSET S, \A x \in S \ T : f[x] = 0
  PROVE  SumOf(f, S) = SumOf(f, T)
<1> DEFINE P == {U \in SUBSET (S \ T) : SumOf(f, T \cup U) = SumOf(f, T)}
<1>1. {} \in P
  <2>1. T \cup {} = T
    OBVIOUS
  <2> QED
    BY <2>1
<1>2. ASSUME NEW U \in SUBSET (S \ T), NEW x \in S \ T, U \in P, x \notin U
      PROVE  U \cup {x} \in P
  <2> DEFINE V == T \cup (U \cup {x})
  <2>1. V \in SUBSET S /\ x \in V /\ V \ {x} = T \cup U
    BY <1>2
  <2>2. IsFiniteSet(V) /\ IsFiniteSet(T)
    BY <2>1, FS_Subset
  <2>3. SumOf(f, V) = f[x] + SumOf(f, T \cup U)
    <3> HIDE DEF V
    <3> QED
      BY <2>1, <2>2, SumRemove
  <2>4. SumOf(f, T) \in Int
    BY <2>2, SumIsInt
  <2> QED
    BY <1>2, <2>3, <2>4
<1>3. IsFiniteSet(S \ T)
  BY FS_Difference
<1> HIDE DEF P
<1> DEFINE R == S \ T
<1> HIDE DEF R
<1>4. R \in P
  <2>1. \A U \in SUBSET R, x \in R : U \in P /\ x \notin U => U \cup {x} \in P
    BY <1>2 DEF R
  <2>2. IsFiniteSet(R)
    BY <1>3 DEF R
  <2>3. \A U \in SUBSET R : U \in P
    BY <1>1, <2>1, <2>2, SubsetInduction
  <2> QED
    BY <2>3
<1>5. T \cup (S \ T) = S
  OBVIOUS
<1> QED
  BY <1>4, <1>5 DEF P, R

\* A sum of zeros is zero.
LEMMA SumOfZeros ==
  ASSUME NEW S, IsFiniteSet(S), NEW f, \A x \in S : f[x] = 0
  PROVE  SumOf(f, S) = 0
  BY SumSkipsZeros, SumOfNone

\* A sum of natural numbers is one, and no smaller than any of its terms.
LEMMA SumOfNats ==
  ASSUME NEW S, IsFiniteSet(S), NEW f, \A x \in S : f[x] \in Nat
  PROVE  SumOf(f, S) \in Nat /\ \A y \in S : f[y] <= SumOf(f, S)
<1> DEFINE P == {T \in SUBSET S : SumOf(f, T) \in Nat}
<1>1. {} \in P
  BY SumOfNone
<1>2. ASSUME NEW T \in SUBSET S, NEW x \in S, T \in P, x \notin T
      PROVE  T \cup {x} \in P
  <2>1. T \cup {x} \in SUBSET S /\ (T \cup {x}) \ {x} = T
    BY <1>2
  <2>2. SumOf(f, T \cup {x}) = f[x] + SumOf(f, T)
    BY <2>1, FS_Subset, SumRemove, SMTT(20)
  <2> QED
    BY <1>2, <2>1, <2>2
<1> HIDE DEF P
<1>3. \A T \in SUBSET S : T \in P
  BY <1>1, <1>2, SubsetInduction
<1>4. ASSUME NEW y \in S PROVE f[y] <= SumOf(f, S)
  <2>1. SumOf(f, S) = f[y] + SumOf(f, S \ {y})
    BY SumRemove
  <2>2. SumOf(f, S \ {y}) \in Nat
    BY <1>3 DEF P
  <2> QED
    BY <2>1, <2>2
<1> QED
  BY <1>3, <1>4 DEF P

\* Leaving terms out of a sum of natural numbers does not make it larger.
LEMMA SumOfPart ==
  ASSUME NEW S, IsFiniteSet(S), NEW f, \A x \in S : f[x] \in Nat, NEW T \in SUBSET S
  PROVE  SumOf(f, T) \in Nat /\ SumOf(f, S) \in Nat /\ SumOf(f, T) <= SumOf(f, S)
<1> DEFINE P == {U \in SUBSET (S \ T) : SumOf(f, T) <= SumOf(f, T \cup U)}
           R == S \ T
<1>0. \A U \in SUBSET S : IsFiniteSet(U) /\ SumOf(f, U) \in Nat
  <2>1. \A U \in SUBSET S : IsFiniteSet(U)
    BY FS_Subset
  <2> QED
    BY <2>1, SumOfNats
<1>1. {} \in P
  <2>1. T \cup {} = T
    OBVIOUS
  <2> QED
    BY <1>0, <2>1
<1>2. ASSUME NEW U \in SUBSET R, NEW x \in R, U \in P, x \notin U
      PROVE  U \cup {x} \in P
  <2> DEFINE V == T \cup (U \cup {x})
             W == T \cup U
  <2>1. V \in SUBSET S /\ W \in SUBSET S /\ x \in V /\ V \ {x} = W /\ x \in S
    BY <1>2
  <2>2. SumOf(f, T) <= SumOf(f, W)
    BY <1>2
  <2> HIDE DEF V, W
  <2>3. SumOf(f, V) = f[x] + SumOf(f, W)
    BY <1>0, <2>1, SumRemove
  <2>4. SumOf(f, T) <= SumOf(f, V)
    BY <1>0, <2>1, <2>2, <2>3
  <2> QED
    BY <2>4 DEF V
<1>3. IsFiniteSet(R)
  BY FS_Difference
<1> HIDE DEF P, R
<1>4. R \in P
  <2>1. \A U \in SUBSET R : U \in P
    BY <1>1, <1>2, <1>3, SubsetInduction
  <2> QED
    BY <2>1
<1>5. T \cup R = S
  BY DEF R
<1> QED
  BY <1>0, <1>4, <1>5 DEF P

\* Terms that are c times others, but for a remainder below c, add up to c times
\* the others' sum, but for less than c for each.
LEMMA SumOfMultiples ==
  ASSUME NEW c \in Nat \ {0}, NEW S, IsFiniteSet(S), NEW f, NEW g,
         \A x \in S : /\ f[x] \in Nat /\ g[x] \in Nat
                       /\ c * g[x] <= f[x] /\ f[x] <= c * g[x] + (c - 1)
  PROVE  /\ SumOf(f, S) \in Nat /\ SumOf(g, S) \in Nat /\ Cardinality(S) \in Nat
         /\ c * SumOf(g, S) <= SumOf(f, S)
         /\ SumOf(f, S) <= c * SumOf(g, S) + (c - 1) * Cardinality(S)
<1> DEFINE Within(T) == /\ c * SumOf(g, T) <= SumOf(f, T)
                        /\ SumOf(f, T) <= c * SumOf(g, T) + (c - 1) * Cardinality(T)
           P == {T \in SUBSET S : Within(T)}
<1>0. \A T \in SUBSET S : /\ IsFiniteSet(T) /\ Cardinality(T) \in Nat
                          /\ SumOf(f, T) \in Nat /\ SumOf(g, T) \in Nat
  <2>1. \A T \in SUBSET S : IsFiniteSet(T) /\ Cardinality(T) \in Nat
    BY FS_Subset, FS_CardinalityType
  <2> QED
    BY <2>1, SumOfNats
<1>1. {} \in P
  <2>1. SumOf(f, {}) = 0 /\ SumOf(g, {}) = 0 /\ Cardinality({}) = 0
    BY SumOfNone, FS_EmptySet
  <2>2. Within({})
    BY <2>1
  <2> QED
    BY <2>2
<1>2. ASSUME NEW T \in SUBSET S, NEW x \in S, T \in P, x \notin T
      PROVE  T \cup {x} \in P
  <2> DEFINE V == T \cup {x}
  <2>1. V \in SUBSET S /\ x \in V /\ V \ {x} = T
    BY <1>2
  <2>2. Cardinality(V) = Cardinality(T) + 1
    BY <1>0, <1>2, FS_AddElement
  <2> HIDE DEF V
  <2>3. SumOf(f, V) = f[x] + SumOf(f, T) /\ SumOf(g, V) = g[x] + SumOf(g, T)
    BY <1>0, <2>1, SumRemove
  <2>4. \A fx, gx, ft, gt, n \in Nat :
          /\ c * gx <= fx /\ fx <= c * gx + (c - 1)
          /\ c * gt <= ft /\ ft <= c * gt + (c - 1) * n
          => /\ c * (gx + gt) <= fx + ft
             /\ fx + ft <= c * (gx + gt) + (c - 1) * (n + 1)
    <3>1. \A a, b \in Nat : c * (a + b) = c * a + c * b
      OBVIOUS
    <3>2. \A n \in Nat : (c - 1) * (n + 1) = (c - 1) * n + (c - 1)
      OBVIOUS
    <3>3. \A a \in Nat : c * a \in Nat /\ (c - 1) * a \in Nat
      OBVIOUS
    <3> QED
      BY <3>1, <3>2, <3>3
  <2>5. Within(T)
    BY <1>2
  <2>6. Within(V)
    BY <1>0, <2>2, <2>3, <2>4, <2>5
  <2> QED
    BY <2>1, <2>6 DEF V
<1> HIDE DEF P
<1>3. \A T \in SUBSET S : T \in P
  BY <1>1, <1>2, SubsetInduction
<1> QED
  BY <1>0, <1>3 DEF P

-----------------------------------------------------------------------------
(* Counting: how a set's size changes with one element. *)

\* A subset of a finite set is finite and has no more elements.
LEMMA SubsetIsSmaller ==
  ASSUME NEW T, IsFiniteSet(T), NEW S, S \subseteq T
  PROVE  /\ IsFiniteSet(S) /\ Cardinality(S) \in Nat /\ Cardinality(T) \in Nat
         /\ Cardinality(S) <= Cardinality(T)
BY FS_Subset, FS_CardinalityType

\* One element more adds at most one to the size.
LEMMA OneMore ==
  ASSUME NEW T, IsFiniteSet(T), NEW x, NEW S, S \subseteq T \cup {x}
  PROVE  Cardinality(S) \in Nat /\ Cardinality(S) <= Cardinality(T) + 1
<1>1. IsFiniteSet(T \cup {x}) /\ Cardinality(T \cup {x}) <= Cardinality(T) + 1
  <2>1. /\ IsFiniteSet(T \cup {x})
        /\ Cardinality(T \cup {x}) =
             IF x \in T THEN Cardinality(T) ELSE Cardinality(T) + 1
    BY FS_AddElement
  <2> QED
    BY <2>1, FS_CardinalityType
<1>2. /\ Cardinality(S) \in Nat /\ Cardinality(T \cup {x}) \in Nat
      /\ Cardinality(S) <= Cardinality(T \cup {x})
  BY <1>1, SubsetIsSmaller
<1> QED
  BY <1>1, <1>2, FS_CardinalityType

\* One element fewer takes at least one from the size.
LEMMA OneFewer ==
  ASSUME NEW T, IsFiniteSet(T), NEW x \in T, NEW S, S \subseteq T \ {x}
  PROVE  Cardinality(S) \in Nat /\ Cardinality(S) <= Cardinality(T) - 1
<1>1. IsFiniteSet(T \ {x}) /\ Cardinality(T \ {x}) = Cardinality(T) - 1
  BY FS_RemoveElement
<1>2. Cardinality(S) \in Nat /\ Cardinality(S) <= Cardinality(T \ {x})
  BY <1>1, SubsetIsSmaller
<1> QED
  BY <1>1, <1>2, FS_CardinalityType

\* A sum is that of a part and that of the rest.
LEMMA SumSplit ==
  ASSUME NEW S, IsFiniteSet(S), NEW f, \A x \in S : f[x] \in Int, NEW T \in SUBSET S
  PROVE  SumOf(f, S) = SumOf(f, T) + SumOf(f, S \ T)
<1> DEFINE P == {U \in SUBSET S : SumOf(f, S) = SumOf(f, U) + SumOf(f, S \ U)}
<1>1. {} \in P
  <2>1. SumOf(f, {}) = 0 /\ S \ {} = S /\ SumOf(f, S) \in Int
    BY SumOfNone, SumIsInt
  <2> QED
    BY <2>1
<1>2. \A U \in SUBSET S, x \in S : U \in P /\ x \notin U => U \cup {x} \in P
  <2> SUFFICES ASSUME NEW U \in SUBSET S, NEW x \in S, U \in P, x \notin U
               PROVE  SumOf(f, S) = SumOf(f, U \cup {x}) + SumOf(f, S \ (U \cup {x}))
    OBVIOUS
  <2>1. IsFiniteSet(U \cup {x}) /\ IsFiniteSet(S \ U) /\ IsFiniteSet(U)
        /\ IsFiniteSet(S \ (U \cup {x}))
    BY FS_Subset
  <2>2. SumOf(f, U \cup {x}) = f[x] + SumOf(f, (U \cup {x}) \ {x})
    BY <2>1, SumRemove
  <2>3. SumOf(f, S \ U) = f[x] + SumOf(f, (S \ U) \ {x})
    BY <2>1, SumRemove
  <2>4. (U \cup {x}) \ {x} = U /\ (S \ U) \ {x} = S \ (U \cup {x})
    OBVIOUS
  <2>5. SumOf(f, U) \in Int /\ SumOf(f, S \ (U \cup {x})) \in Int /\ f[x] \in Int
    BY <2>1, SumIsInt
  <2>6. SumOf(f, S) = SumOf(f, U) + SumOf(f, S \ U)
    OBVIOUS
  <2>7. SumOf(f, S) = SumOf(f, U) + (f[x] + SumOf(f, S \ (U \cup {x})))
    BY <2>3, <2>4, <2>6, Zenon
  <2>8. SumOf(f, U \cup {x}) = f[x] + SumOf(f, U)
    BY <2>2, <2>4, Zenon
  <2>9. \A a, b, c \in Int : a + (c + b) = (c + a) + b
    OBVIOUS
  <2>10. SumOf(f, U) + (f[x] + SumOf(f, S \ (U \cup {x})))
           = (f[x] + SumOf(f, U)) + SumOf(f, S \ (U \cup {x}))
    BY <2>5, <2>9, Zenon
  <2> QED
    BY <2>7, <2>8, <2>10, Zenon
<1> HIDE DEF P
<1>3. T \in P
  BY <1>1, <1>2, SubsetInduction
<1> QED
  BY <1>3 DEF P

\* The indices of a sum may be renamed.
ImageOf(s, S) == {s[i] : i \in S}

\* A sum does not depend on the names of what is summed.
LEMMA SumReindex ==
  ASSUME NEW S, IsFiniteSet(S), NEW s, NEW f, NEW g,
         \A i, j \in S : s[i] = s[j] => i = j,
         \A i \in S : g[i] \in Int /\ f[s[i]] = g[i]
  PROVE  SumOf(f, ImageOf(s, S)) = SumOf(g, S)
<1> DEFINE P == {U \in SUBSET S : SumOf(f, ImageOf(s, U)) = SumOf(g, U)}
<1>1. {} \in P
  <2>1. ImageOf(s, {}) = {}
    BY DEF ImageOf
  <2> QED
    BY <2>1, SumOfNone
<1>2. \A U \in SUBSET S, x \in S : U \in P /\ x \notin U => U \cup {x} \in P
  <2> SUFFICES ASSUME NEW U \in SUBSET S, NEW x \in S, U \in P, x \notin U
               PROVE  SumOf(f, ImageOf(s, U \cup {x})) = SumOf(g, U \cup {x})
    OBVIOUS
  <2> DEFINE V == ImageOf(s, U \cup {x})
             y == s[x]
  <2>1. /\ V = ImageOf(s, U) \cup {y} /\ y \notin ImageOf(s, U)
        /\ y \in V /\ \A z \in V : f[z] \in Int
    BY DEF ImageOf
  <2>2. SumOf(f, ImageOf(s, U)) = SumOf(g, U)
    OBVIOUS
  <2>3. IsFiniteSet(U \cup {x}) /\ IsFiniteSet(V)
    <3>1. IsFiniteSet(U \cup {x})
      BY FS_Subset
    <3> DEFINE h == [i \in U \cup {x} |-> s[i]]
    <3>2. h \in Surjection(U \cup {x}, V)
      BY DEF Surjection, ImageOf
    <3> HIDE DEF h, V
    <3> QED
      BY <3>1, <3>2, FS_Surjection
  <2> HIDE DEF V, P
  <2>4. SumOf(f, V) = f[y] + SumOf(f, V \ {y})
    <3> HIDE DEF y
    <3> QED
      BY <2>1, <2>3, SumRemove
  <2>5. SumOf(g, U \cup {x}) = g[x] + SumOf(g, (U \cup {x}) \ {x})
    BY <2>3, SumRemove
  <2>6. V \ {y} = ImageOf(s, U) /\ (U \cup {x}) \ {x} = U /\ f[y] = g[x]
    BY <2>1
  <2>7. SumOf(f, V) = SumOf(g, U \cup {x})
    BY <2>2, <2>4, <2>5, <2>6, Zenon
  <2> QED
    BY <2>7 DEF V
<1> HIDE DEF P
<1>3. S \in P
  BY <1>1, <1>2, SubsetInduction
<1> QED
  BY <1>3 DEF P
=============================================================================
