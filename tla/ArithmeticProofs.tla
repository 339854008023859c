---------------------------- MODULE ArithmeticProofs ----------------------------
(***************************************************************************)
(* What the sums, the powers, the folds and the compressed matrices        *)
(* in this project satisfy.                                                *)
(*                                                                         *)
(* The induction theorems of the library take an operator as a parameter.  *)
(* The lemmas here take the set of what satisfies the claim instead, and   *)
(* rest on the well-foundedness of the strict subset relation: a proof by  *)
(* induction defines that set and shows that it has every subset.  The     *)
(* recursive functions inside a fold are CHOOSEn, so that each is shown to *)
(* exist and to be unique before its equation is used.                     *)
(*                                                                         *)
(* For the layouts of a matrix, the conversion is a fold that places one   *)
(* entry after the other, and the place of each is known from the start:   *)
(* it is its rank by the line it goes to and the line it comes from.       *)
(***************************************************************************)
EXTENDS SparseMatrix, FiniteSetTheorems, WellFoundedInduction, TLAPS

\* Subsets of a finite set by way of their own subsets.
LEMMA SubsetInduction ==
  ASSUME NEW S, IsFiniteSet(S), NEW F \in SUBSET (SUBSET S),
         \A T \in SUBSET S : (\A U \in SUBSET T : U # T => U \in F) => T \in F
  PROVE  \A T \in SUBSET S : T \in F
<1> DEFINE bad == (SUBSET S) \ F
<1> SUFFICES ASSUME bad # {} PROVE FALSE
  OBVIOUS
<1>1. IsWellFoundedOn(StrictSubsetOrdering(S), FiniteSubsetsOf(S))
  BY FS_StrictSubsetOrderingWellFounded
<1>2. FiniteSubsetsOf(S) = SUBSET S
  BY FS_FiniteSubsetsOfFinite
<1>3. bad \subseteq SUBSET S
  OBVIOUS
<1>4. PICK T \in bad : \A U \in bad : ~(<<U, T>> \in StrictSubsetOrdering(S))
  <2> HIDE DEF bad
  <2> QED
    BY <1>1, <1>2, <1>3, WFMin
<1>5. \A U \in SUBSET T : U # T => U \notin bad
  BY <1>4 DEF StrictSubsetOrdering
<1> QED
  BY <1>5

\* A set is finite if it is built up one element at a time.
LEMMA ElementInduction ==
  ASSUME NEW S, IsFiniteSet(S), NEW F \in SUBSET (SUBSET S), {} \in F,
         \A T \in F, x \in S : x \notin T => T \cup {x} \in F
  PROVE  S \in F
<1>1. ASSUME NEW T \in SUBSET S, \A U \in SUBSET T : U # T => U \in F
      PROVE  T \in F
  <2>1. CASE T = {}
    BY <2>1
  <2>2. CASE T # {}
    <3>1. PICK x \in T : TRUE
      BY <2>2
    <3>2. T \ {x} \in F
      BY <1>1
    <3>3. (T \ {x}) \cup {x} = T
      OBVIOUS
    <3> QED
      BY <3>2, <3>3
  <2> QED
    BY <2>1, <2>2
<1>2. \A T \in SUBSET S : T \in F
  BY <1>1, SubsetInduction
<1> QED
  BY <1>2

\* A set of naturals with zero and every successor has them all.
LEMMA NaturalInduction ==
  ASSUME NEW F \in SUBSET Nat, 0 \in F, \A k \in F : k + 1 \in F
  PROVE  F = Nat
<1> SUFFICES ASSUME NEW n \in Nat, n \notin F
             PROVE  FALSE
  OBVIOUS
<1> DEFINE G == {T \in SUBSET (0..n) : \E k \in 0..n : k \notin F /\ T = 0..k}
<1>1. IsFiniteSet(0..n)
  BY FS_Interval
<1> DEFINE good == (SUBSET (0..n)) \ G
<1>2. ASSUME NEW T \in SUBSET (0..n), \A U \in SUBSET T : U # T => U \in good
      PROVE  T \in good
  <2> SUFFICES ASSUME NEW k \in 0..n, k \notin F, T = 0..k
               PROVE  FALSE
    OBVIOUS
  <2>1. k # 0 /\ k - 1 \in 0..n /\ k - 1 \notin F
    <3>1. k # 0
      OBVIOUS
    <3>2. k - 1 \in 0..n /\ (k - 1) + 1 = k
      BY <3>1
    <3> QED
      BY <3>1, <3>2
  <2>2. 0..(k - 1) \in SUBSET T /\ 0..(k - 1) # T
    BY <2>1
  <2> QED
    BY <1>2, <2>1, <2>2
<1>3. \A T \in SUBSET (0..n) : T \in good
  <2> DEFINE all == 0..n
  <2>1. good \in SUBSET (SUBSET all) /\ IsFiniteSet(all)
    BY <1>1
  <2>2. \A T \in SUBSET all : (\A U \in SUBSET T : U # T => U \in good) => T \in good
    BY <1>2
  <2> HIDE DEF good, all
  <2>3. \A T \in SUBSET all : T \in good
    BY <2>1, <2>2, SubsetInduction
  <2> QED
    BY <2>3 DEF all
<1>4. n \in 0..n /\ 0..n \in SUBSET (0..n)
  OBVIOUS
<1> QED
  BY <1>3, <1>4

-----------------------------------------------------------------------------
\* The fold of a sum, as the library defines it: by chosen elements.
First(s) == CHOOSE x \in s : TRUE

IsPartialSum(f, S, g) ==
  g = [s \in SUBSET S |-> IF s = {} THEN 0 ELSE f[First(s)] + g[s \ {First(s)}]]

PartialSum(f, S) == CHOOSE g : IsPartialSum(f, S, g)

\* A fold goes by a chosen element, which is one of the set.
LEMMA FirstIsElement == ASSUME NEW S, S # {} PROVE First(S) \in S
BY DEF First

\* A sum is the fold that goes by chosen elements.
LEMMA SumIsPartialSum == ASSUME NEW f, NEW S PROVE SumOver(f, S) = PartialSum(f, S)[S]
BY DEF SumOver, FoldFunctionOnSet, MapThenFoldSet, PartialSum, IsPartialSum, First

\* Two folds of the same function agree where both are defined.
LEMMA PartialSumUnique ==
  ASSUME NEW f, NEW A, NEW B, IsFiniteSet(A),
         NEW g, NEW h, IsPartialSum(f, A, g), IsPartialSum(f, B, h)
  PROVE  \A s \in SUBSET (A \cap B) : g[s] = h[s]
<1> DEFINE C == A \cap B
           F == {s \in SUBSET C : g[s] = h[s]}
<1>1. F \in SUBSET (SUBSET C) /\ IsFiniteSet(C)
  BY FS_Intersection
<1>2. ASSUME NEW s \in SUBSET C, \A u \in SUBSET s : u # s => u \in F
      PROVE  s \in F
  <2>1. /\ g[s] = IF s = {} THEN 0 ELSE f[First(s)] + g[s \ {First(s)}]
        /\ h[s] = IF s = {} THEN 0 ELSE f[First(s)] + h[s \ {First(s)}]
    BY DEF IsPartialSum
  <2>2. s # {} => g[s \ {First(s)}] = h[s \ {First(s)}]
    BY <1>2, FirstIsElement
  <2> QED
    BY <2>1, <2>2
<1>3. \A s \in SUBSET C : s \in F
  <2> HIDE DEF F, C
  <2> QED
    BY <1>1, <1>2, SubsetInduction
<1> QED
  BY <1>3

\* Such a fold exists over every finite set.
LEMMA PartialSumExists ==
  ASSUME NEW f, NEW S, IsFiniteSet(S)
  PROVE  IsPartialSum(f, S, PartialSum(f, S))
<1> DEFINE F == {T \in SUBSET S : IsPartialSum(f, T, PartialSum(f, T))}
<1>1. ASSUME NEW T \in SUBSET S, \A U \in SUBSET T : U # T => U \in F
      PROVE  T \in F
  <2> DEFINE value(s) == PartialSum(f, s)[s]
             G == [s \in SUBSET T |->
                     IF s = {} THEN 0 ELSE f[First(s)] + value(s \ {First(s)})]
  <2>1. \A U \in SUBSET T : U # T => IsPartialSum(f, U, PartialSum(f, U)) /\ IsFiniteSet(U)
    BY <1>1, FS_Subset
  <2>2. ASSUME NEW s \in SUBSET T, s # T
        PROVE  G[s] = value(s)
    <3>1. value(s) = IF s = {} THEN 0 ELSE f[First(s)] + PartialSum(f, s)[s \ {First(s)}]
      BY <2>1, <2>2 DEF IsPartialSum
    <3>2. CASE s # {}
      <4> DEFINE r == s \ {First(s)}
      <4>1. First(s) \in s
        BY <3>2, FirstIsElement
      <4>2. /\ IsPartialSum(f, s, PartialSum(f, s)) /\ IsFiniteSet(s)
            /\ IsPartialSum(f, r, PartialSum(f, r))
        BY <2>1, <2>2, <4>1
      <4>3. r \in SUBSET (s \cap r)
        OBVIOUS
      <4>4. PartialSum(f, s)[r] = PartialSum(f, r)[r]
        BY <4>2, <4>3, PartialSumUnique
      <4> QED
        BY <3>1, <3>2, <4>4
    <3> QED
      BY <3>1, <3>2
  <2>3. \A s \in SUBSET T : s # {} => G[s \ {First(s)}] = value(s \ {First(s)})
    BY <2>2, FirstIsElement
  <2>4. G = [s \in SUBSET T |-> IF s = {} THEN 0 ELSE f[First(s)] + G[s \ {First(s)}]]
    BY <2>3
  <2>5. IsPartialSum(f, T, G)
    BY <2>4 DEF IsPartialSum
  <2> QED
    BY <2>5 DEF PartialSum
<1>2. F \in SUBSET (SUBSET S)
  OBVIOUS
<1>3. S \in F
  <2> HIDE DEF F
  <2> QED
    BY <1>1, <1>2, SubsetInduction
<1> QED
  BY <1>3

\* One element after the other, in the order of the library.
LEMMA SumStep ==
  ASSUME NEW f, NEW S, IsFiniteSet(S)
  PROVE  SumOver(f, S) = IF S = {} THEN 0 ELSE f[First(S)] + SumOver(f, S \ {First(S)})
<1>1. IsPartialSum(f, S, PartialSum(f, S))
  BY PartialSumExists
<1>2. SumOver(f, S) = IF S = {} THEN 0 ELSE f[First(S)] + PartialSum(f, S)[S \ {First(S)}]
  BY <1>1, SumIsPartialSum DEF IsPartialSum
<1> DEFINE r == S \ {First(S)}
<1>3. IsFiniteSet(r)
  BY FS_RemoveElement
<1>4. IsPartialSum(f, r, PartialSum(f, r))
  BY <1>3, PartialSumExists
<1>5. PartialSum(f, S)[r] = PartialSum(f, r)[r]
  BY <1>1, <1>4, PartialSumUnique
<1> QED
  BY <1>2, <1>5, SumIsPartialSum

\* Nothing sums up to zero.
LEMMA SumEmpty == ASSUME NEW f PROVE SumOver(f, {}) = 0
BY SumStep, FS_EmptySet

\* The sum of integers is one.
LEMMA SumType ==
  ASSUME NEW f, NEW S, IsFiniteSet(S), \A x \in S : f[x] \in Int
  PROVE  SumOver(f, S) \in Int
<1> DEFINE F == {T \in SUBSET S : SumOver(f, T) \in Int}
<1>1. F \in SUBSET (SUBSET S)
  OBVIOUS
<1>2. ASSUME NEW T \in SUBSET S, \A U \in SUBSET T : U # T => U \in F
      PROVE  T \in F
  <2>1. IsFiniteSet(T)
    BY FS_Subset
  <2>2. SumOver(f, T) = IF T = {} THEN 0 ELSE f[First(T)] + SumOver(f, T \ {First(T)})
    BY <2>1, SumStep
  <2>3. T # {} => First(T) \in T
    BY FirstIsElement
  <2>4. T # {} => SumOver(f, T \ {First(T)}) \in Int
    BY <1>2, <2>3
  <2> QED
    BY <2>2, <2>3, <2>4
<1>3. S \in F
  <2> HIDE DEF F
  <2> QED
    BY <1>1, <1>2, SubsetInduction
<1> QED
  BY <1>3

\* Any element may be taken out.
LEMMA SumRemove ==
  ASSUME NEW f, NEW S, IsFiniteSet(S), \A x \in S : f[x] \in Int, NEW a \in S
  PROVE  SumOver(f, S) = f[a] + SumOver(f, S \ {a})
<1> DEFINE F == {T \in SUBSET S : \A x \in T : SumOver(f, T) = f[x] + SumOver(f, T \ {x})}
<1>1. F \in SUBSET (SUBSET S)
  OBVIOUS
<1>2. ASSUME NEW T \in SUBSET S, \A U \in SUBSET T : U # T => U \in F
      PROVE  T \in F
  <2> SUFFICES ASSUME NEW x \in T PROVE SumOver(f, T) = f[x] + SumOver(f, T \ {x})
    OBVIOUS
  <2> DEFINE y == First(T)
             R == T \ {x, y}
  <2>1. y \in T
    BY FirstIsElement
  <2>2. SumOver(f, T) = f[y] + SumOver(f, T \ {y})
    BY SumStep, FS_Subset
  <2>3. CASE x = y
    BY <2>2, <2>3
  <2>4. CASE x # y
    <3>1. SumOver(f, T \ {y}) = f[x] + SumOver(f, R)
      <4>1. T \ {y} \in F /\ x \in T \ {y} /\ (T \ {y}) \ {x} = R
        BY <1>2, <2>1, <2>4
      <4> HIDE DEF R, y
      <4> QED
        BY <4>1
    <3>2. SumOver(f, T \ {x}) = f[y] + SumOver(f, R)
      <4>1. T \ {x} \in F /\ y \in T \ {x} /\ (T \ {x}) \ {y} = R
        BY <1>2, <2>1, <2>4
      <4> HIDE DEF R, y
      <4> QED
        BY <4>1
    <3>3. SumOver(f, R) \in Int /\ f[x] \in Int /\ f[y] \in Int
      BY <2>1, SumType, FS_Subset
    <3> HIDE DEF R, y
    <3> QED
      BY <2>2, <3>1, <3>2, <3>3
  <2> QED
    BY <2>3, <2>4
<1>3. S \in F
  <2> HIDE DEF F
  <2> QED
    BY <1>1, <1>2, SubsetInduction
<1> QED
  BY <1>3

\* One more element adds its term.
LEMMA SumAdd ==
  ASSUME NEW f, NEW S, IsFiniteSet(S), NEW a, a \notin S, \A x \in S \cup {a} : f[x] \in Int
  PROVE  SumOver(f, S \cup {a}) = f[a] + SumOver(f, S)
<1>1. (S \cup {a}) \ {a} = S /\ IsFiniteSet(S \cup {a})
  BY FS_AddElement
<1> QED
  BY <1>1, SumRemove

\* A larger term makes a larger sum.
LEMMA SumMonotone ==
  ASSUME NEW f, NEW g, NEW S, IsFiniteSet(S),
         \A x \in S : f[x] \in Int /\ g[x] \in Int /\ f[x] <= g[x]
  PROVE  SumOver(f, S) <= SumOver(g, S)
<1> DEFINE F == {T \in SUBSET S : SumOver(f, T) <= SumOver(g, T)}
<1>1. F \in SUBSET (SUBSET S) /\ {} \in F
  BY SumEmpty
<1>2. ASSUME NEW T \in F, NEW a \in S, a \notin T
      PROVE  T \cup {a} \in F
  <2>1. /\ SumOver(f, T \cup {a}) = f[a] + SumOver(f, T)
        /\ SumOver(g, T \cup {a}) = g[a] + SumOver(g, T)
    BY <1>2, SumAdd, FS_Subset
  <2>2. SumOver(f, T) \in Int /\ SumOver(g, T) \in Int
    BY SumType, FS_Subset
  <2> QED
    BY <2>1, <2>2
<1>3. S \in F
  <2> HIDE DEF F
  <2> QED
    BY <1>1, <1>2, ElementInduction
<1> QED
  BY <1>3

\* A sum depends on the terms alone.
LEMMA SumEqual ==
  ASSUME NEW f, NEW g, NEW S, IsFiniteSet(S), \A x \in S : f[x] = g[x] /\ f[x] \in Int
  PROVE  SumOver(f, S) = SumOver(g, S)
<1>1. SumOver(f, S) <= SumOver(g, S) /\ SumOver(g, S) <= SumOver(f, S)
  BY SumMonotone
<1> QED
  BY <1>1, SumType

\* The sum of sums, term by term.
LEMMA SumPlus ==
  ASSUME NEW f, NEW g, NEW h, NEW S, IsFiniteSet(S),
         \A x \in S : f[x] \in Int /\ g[x] \in Int /\ h[x] = f[x] + g[x]
  PROVE  SumOver(h, S) = SumOver(f, S) + SumOver(g, S)
<1> DEFINE F == {T \in SUBSET S : SumOver(h, T) = SumOver(f, T) + SumOver(g, T)}
<1>1. F \in SUBSET (SUBSET S) /\ {} \in F
  BY SumEmpty
<1>2. ASSUME NEW T \in F, NEW a \in S, a \notin T
      PROVE  T \cup {a} \in F
  <2>1. /\ SumOver(f, T \cup {a}) = f[a] + SumOver(f, T)
        /\ SumOver(g, T \cup {a}) = g[a] + SumOver(g, T)
        /\ SumOver(h, T \cup {a}) = h[a] + SumOver(h, T)
    BY <1>2, SumAdd, FS_Subset
  <2>2. SumOver(f, T) \in Int /\ SumOver(g, T) \in Int
    BY SumType, FS_Subset
  <2> QED
    BY <2>1, <2>2
<1>3. S \in F
  <2> HIDE DEF F
  <2> QED
    BY <1>1, <1>2, ElementInduction
<1> QED
  BY <1>3

\* A common factor comes out of a sum.
LEMMA SumScale ==
  ASSUME NEW c \in Int, NEW f, NEW h, NEW S, IsFiniteSet(S),
         \A x \in S : f[x] \in Int /\ h[x] = c * f[x]
  PROVE  SumOver(h, S) = c * SumOver(f, S)
<1> DEFINE F == {T \in SUBSET S : SumOver(h, T) = c * SumOver(f, T)}
<1>1. F \in SUBSET (SUBSET S) /\ {} \in F
  BY SumEmpty
<1>2. ASSUME NEW T \in F, NEW a \in S, a \notin T
      PROVE  T \cup {a} \in F
  <2>1. /\ SumOver(f, T \cup {a}) = f[a] + SumOver(f, T)
        /\ SumOver(h, T \cup {a}) = h[a] + SumOver(h, T)
    BY <1>2, SumAdd, FS_Subset
  <2>2. SumOver(f, T) \in Int /\ f[a] \in Int
    BY SumType, FS_Subset
  <2>3. c * (f[a] + SumOver(f, T)) = c * f[a] + c * SumOver(f, T)
    BY <2>2
  <2> QED
    BY <2>1, <2>2, <2>3
<1>3. S \in F
  <2> HIDE DEF F
  <2> QED
    BY <1>1, <1>2, ElementInduction
<1> QED
  BY <1>3

\* Zeros sum up to zero.
LEMMA SumOfZeros ==
  ASSUME NEW f, NEW S, IsFiniteSet(S), \A x \in S : f[x] = 0
  PROVE  SumOver(f, S) = 0
<1>1. SumOver(f, S) = 0 * SumOver(f, S)
  BY SumScale
<1> QED
  BY <1>1, SumType

\* If the terms are in order and the sums are equal, the terms are.
LEMMA SumTight ==
  ASSUME NEW f, NEW g, NEW S, IsFiniteSet(S),
         \A x \in S : f[x] \in Int /\ g[x] \in Int /\ f[x] <= g[x],
         SumOver(f, S) = SumOver(g, S)
  PROVE  \A x \in S : f[x] = g[x]
<1> SUFFICES ASSUME NEW a \in S PROVE f[a] = g[a]
  OBVIOUS
<1>1. SumOver(f, S \ {a}) <= SumOver(g, S \ {a})
  BY SumMonotone, FS_RemoveElement
<1>2. /\ SumOver(f, S) = f[a] + SumOver(f, S \ {a})
      /\ SumOver(g, S) = g[a] + SumOver(g, S \ {a})
  BY SumRemove
<1>3. SumOver(f, S \ {a}) \in Int /\ SumOver(g, S \ {a}) \in Int
  BY SumType, FS_RemoveElement
<1>4. f[a] \in Int /\ g[a] \in Int /\ f[a] <= g[a]
  OBVIOUS
<1>5. f[a] + SumOver(f, S \ {a}) = g[a] + SumOver(g, S \ {a})
  BY <1>2
<1> QED
  BY <1>1, <1>3, <1>4, <1>5

\* The order of two summations does not matter.
LEMMA SumExchange ==
  ASSUME NEW I, NEW J, IsFiniteSet(I), IsFiniteSet(J), NEW a \in [I -> [J -> Int]]
  PROVE  SumOver([i \in I |-> SumOver(a[i], J)], I)
           = SumOver([j \in J |-> SumOver([i \in I |-> a[i][j]], I)], J)
<1> DEFINE byRow == [i \in I |-> SumOver(a[i], J)]
           col(j) == [i \in I |-> a[i][j]]
           byCol(T) == [j \in J |-> SumOver(col(j), T)]
           F == {T \in SUBSET I : SumOver(byRow, T) = SumOver(byCol(T), J)}
<1>0. /\ \A i \in I : byRow[i] \in Int
      /\ \A T \in SUBSET I : IsFiniteSet(T) /\ \A j \in J : byCol(T)[j] \in Int
  BY SumType, FS_Subset
<1>1. F \in SUBSET (SUBSET I) /\ {} \in F
  <2>1. SumOver(byCol({}), J) = 0
    BY SumEmpty, SumOfZeros
  <2> QED
    BY <2>1, SumEmpty
<1>2. ASSUME NEW T \in F, NEW k \in I, k \notin T
      PROVE  T \cup {k} \in F
  <2>1. SumOver(byRow, T \cup {k}) = byRow[k] + SumOver(byRow, T)
    BY <1>0, <1>2, SumAdd
  <2>2. \A j \in J : byCol(T \cup {k})[j] = a[k][j] + byCol(T)[j]
    <3> TAKE j \in J
    <3>1. \A i \in T \cup {k} : col(j)[i] = a[i][j] /\ col(j)[i] \in Int
      OBVIOUS
    <3>2. SumOver(col(j), T \cup {k}) = col(j)[k] + SumOver(col(j), T)
      <4> HIDE DEF col
      <4> QED
        BY <1>0, <1>2, <3>1, SumAdd
    <3> QED
      BY <3>1, <3>2
  <2>3. SumOver(byCol(T \cup {k}), J) = SumOver(a[k], J) + SumOver(byCol(T), J)
    <3> DEFINE p == byCol(T)
               q == byCol(T \cup {k})
    <3>1. \A j \in J : a[k][j] \in Int /\ p[j] \in Int /\ q[j] = a[k][j] + p[j]
      BY <1>0, <2>2
    <3> HIDE DEF p, q
    <3>2. SumOver(q, J) = SumOver(a[k], J) + SumOver(p, J)
      BY <3>1, SumPlus
    <3> QED
      BY <3>2 DEF p, q
  <2> QED
    BY <2>1, <2>3
<1>3. I \in F
  <2> HIDE DEF F
  <2> QED
    BY <1>1, <1>2, ElementInduction
<1> QED
  BY <1>3

\* Terms that are zero may be left out.
LEMMA SumSupport ==
  ASSUME NEW f, NEW S, IsFiniteSet(S), NEW T \in SUBSET S,
         \A x \in S : f[x] \in Int, \A x \in S \ T : f[x] = 0
  PROVE  SumOver(f, S) = SumOver(f, T)
<1> DEFINE rest == S \ T
           F == {R \in SUBSET rest : SumOver(f, T \cup R) = SumOver(f, T)}
<1>1. F \in SUBSET (SUBSET rest) /\ {} \in F
  OBVIOUS
<1>2. ASSUME NEW R \in F, NEW a \in rest, a \notin R
      PROVE  R \cup {a} \in F
  <2> DEFINE U == T \cup R
  <2>1. /\ IsFiniteSet(U) /\ a \notin U /\ \A x \in U \cup {a} : f[x] \in Int
        /\ T \cup (R \cup {a}) = U \cup {a} /\ f[a] = 0
    BY <1>2, FS_Subset
  <2>2. SumOver(f, U) \in Int /\ SumOver(f, U) = SumOver(f, T)
    BY <2>1, SumType
  <2>3. SumOver(f, U \cup {a}) = f[a] + SumOver(f, U)
    <3> HIDE DEF U
    <3> QED
      BY <2>1, SumAdd
  <2>4. SumOver(f, U \cup {a}) = SumOver(f, T)
    BY <2>1, <2>2, <2>3
  <2>5. R \cup {a} \in SUBSET rest
    BY <1>2
  <2> QED
    BY <2>1, <2>4, <2>5
<1>3. IsFiniteSet(rest) /\ T \cup rest = S
  BY FS_Subset
<1>4. rest \in F
  <2> HIDE DEF F, rest
  <2> QED
    BY <1>1, <1>2, <1>3, ElementInduction
<1> QED
  BY <1>3, <1>4

\* The products of row i of a matrix with a vector, and of column j with one.
Along(a, d, i, J) == SumOver([j \in J |-> a[i][j] * d[j]], J)
Across(a, y, j, I) == SumOver([i \in I |-> a[i][j] * y[i]], I)

\* The terms of the two sides of y (A d) = (y A) d.
AreTransposed(f, g, a, y, d, I, J) ==
  /\ IsFiniteSet(I) /\ IsFiniteSet(J)
  /\ \A i \in I : y[i] \in Int /\ \A j \in J : a[i][j] \in Int
  /\ \A j \in J : d[j] \in Int
  /\ \A i \in I : f[i] = y[i] * Along(a, d, i, J)
  /\ \A j \in J : g[j] = Across(a, y, j, I) * d[j]

\* The weighted sum of the activities of the rows is the sum of the columns,
\* weighted by the transposed product.
LEMMA SumTranspose ==
  ASSUME NEW I, NEW J, NEW a, NEW y, NEW d, NEW f, NEW g, AreTransposed(f, g, a, y, d, I, J)
  PROVE  SumOver(f, I) = SumOver(g, J)
<1> USE DEF AreTransposed
<1> DEFINE b == [i \in I |-> [j \in J |-> (a[i][j] * y[i]) * d[j]]]
           activity(i) == [j \in J |-> a[i][j] * d[j]]
           product(j) == [i \in I |-> a[i][j] * y[i]]
           col(j) == [i \in I |-> b[i][j]]
<1>1. b \in [I -> [J -> Int]]
  OBVIOUS
<1>2. SumOver([i \in I |-> SumOver(b[i], J)], I) = SumOver([j \in J |-> SumOver(col(j), I)], J)
  <2> HIDE DEF b
  <2> QED
    BY <1>1, SumExchange
<1>3. ASSUME NEW i \in I
      PROVE  SumOver(b[i], J) = y[i] * SumOver(activity(i), J)
  <2>1. \A j \in J : activity(i)[j] \in Int /\ b[i][j] = y[i] * activity(i)[j]
    OBVIOUS
  <2> HIDE DEF b, activity
  <2> QED
    BY <2>1, SumScale
<1>4. ASSUME NEW j \in J
      PROVE  SumOver(col(j), I) = SumOver(product(j), I) * d[j]
  <2>1. \A i \in I : product(j)[i] \in Int /\ col(j)[i] = d[j] * product(j)[i]
    OBVIOUS
  <2>2. SumOver(product(j), I) \in Int
    BY <2>1, SumType
  <2> HIDE DEF product, col
  <2>3. SumOver(col(j), I) = d[j] * SumOver(product(j), I)
    BY <2>1, SumScale
  <2> QED
    BY <2>2, <2>3
<1>5. /\ \A i \in I : Along(a, d, i, J) = SumOver(activity(i), J)
      /\ \A j \in J : Across(a, y, j, I) = SumOver(product(j), I)
  BY DEF Along, Across
<1> HIDE DEF b, activity, product, col
<1> DEFINE byRow == [i \in I |-> SumOver(b[i], J)]
           byCol == [j \in J |-> SumOver(col(j), I)]
<1>6. \A i \in I : byRow[i] = f[i] /\ byRow[i] \in Int
  BY <1>1, <1>3, <1>5, SumType
<1>7. \A j \in J : byCol[j] = g[j] /\ byCol[j] \in Int
  <2>1. \A j \in J : SumOver(col(j), I) \in Int
    BY <1>1, SumType DEF col
  <2> QED
    BY <1>4, <1>5, <2>1
<1>8. SumOver(byRow, I) = SumOver(byCol, J)
  BY <1>2
<1> HIDE DEF byRow, byCol
<1> QED
  BY <1>6, <1>7, <1>8, SumEqual

\* The terms of the two sides of c d = (c - y A) d + y (A d).
AreLagrangian(f, g, h, a, c, y, d, I, J) ==
  /\ IsFiniteSet(I) /\ IsFiniteSet(J)
  /\ \A i \in I : y[i] \in Int /\ \A j \in J : a[i][j] \in Int
  /\ \A j \in J : c[j] \in Int /\ d[j] \in Int
  /\ \A j \in J : f[j] = (c[j] - Across(a, y, j, I)) * d[j]
  /\ \A i \in I : g[i] = y[i] * Along(a, d, i, J)
  /\ \A j \in J : h[j] = c[j] * d[j]

\* The Lagrangian: what a linear function of d gives is what is left of it
\* after some multiple of the rows is subtracted, and that multiple.
LEMMA SumLagrange ==
  ASSUME NEW I, NEW J, NEW a, NEW c, NEW y, NEW d, NEW f, NEW g, NEW h,
         AreLagrangian(f, g, h, a, c, y, d, I, J)
  PROVE  SumOver(h, J) = SumOver(f, J) + SumOver(g, I)
<1> USE DEF AreLagrangian
<1> DEFINE e == [j \in J |-> Across(a, y, j, I) * d[j]]
<1>1. \A j \in J : Across(a, y, j, I) \in Int
  BY SumType DEF Across
<1>2. \A j \in J : e[j] = Across(a, y, j, I) * d[j]
  OBVIOUS
<1> HIDE DEF e
<1>3. SumOver(g, I) = SumOver(e, J)
  <2>1. AreTransposed(g, e, a, y, d, I, J)
    BY <1>2 DEF AreTransposed
  <2> QED
    BY <2>1, SumTranspose
<1>4. \A j \in J : f[j] \in Int /\ e[j] \in Int /\ h[j] = f[j] + e[j]
  <2> TAKE j \in J
  <2>1. (c[j] - Across(a, y, j, I)) * d[j] + Across(a, y, j, I) * d[j] = c[j] * d[j]
    BY <1>1
  <2>2. c[j] \in Int /\ d[j] \in Int /\ Across(a, y, j, I) \in Int
    BY <1>1
  <2> QED
    BY <1>2, <2>1, <2>2
<1>5. SumOver(h, J) = SumOver(f, J) + SumOver(e, J)
  BY <1>4, SumPlus
<1> QED
  BY <1>3, <1>5

-----------------------------------------------------------------------------
(* Powers *)

\* The powers of a base up to n.
IsPowers(base, n, g) == g = [k \in 0..n |-> IF k = 0 THEN 1 ELSE base * g[k - 1]]
PowersUpTo(base, n) == CHOOSE g : IsPowers(base, n, g)

\* All of them, as the function that Power defines.
Powers(base) == CHOOSE g : g = [k \in Nat |-> IF k = 0 THEN 1 ELSE base * g[k - 1]]

\* The powers up to two limits agree below both.
LEMMA PowersUnique ==
  ASSUME NEW base, NEW m \in Nat, NEW n \in Nat, NEW g, NEW h,
         IsPowers(base, m, g), IsPowers(base, n, h)
  PROVE  \A k \in Nat : k <= m /\ k <= n => g[k] = h[k]
<1> DEFINE F == {k \in Nat : k <= m /\ k <= n => g[k] = h[k]}
<1>1. F \in SUBSET Nat /\ 0 \in F
  BY DEF IsPowers
<1>2. ASSUME NEW k \in F PROVE k + 1 \in F
  <2> SUFFICES ASSUME k + 1 <= m, k + 1 <= n PROVE g[k + 1] = h[k + 1]
    OBVIOUS
  <2>1. k \in 0..m /\ k \in 0..n /\ k + 1 \in 0..m /\ k + 1 \in 0..n
    OBVIOUS
  <2>2. g[k + 1] = base * g[k] /\ h[k + 1] = base * h[k] /\ g[k] = h[k]
    BY <2>1 DEF IsPowers
  <2> QED
    BY <2>2
<1>3. F = Nat
  <2> HIDE DEF F
  <2> QED
    BY <1>1, <1>2, NaturalInduction
<1> QED
  BY <1>3

\* The powers exist up to every limit.
LEMMA PowersExist ==
  ASSUME NEW base, NEW n \in Nat
  PROVE  IsPowers(base, n, PowersUpTo(base, n))
<1> DEFINE F == {k \in Nat : \E g : IsPowers(base, k, g)}
<1>1. F \in SUBSET Nat
  OBVIOUS
<1>2. 0 \in F
  <2>1. IsPowers(base, 0, [k \in 0..0 |-> 1])
    BY DEF IsPowers
  <2> QED
    BY <2>1
<1>3. ASSUME NEW m \in F PROVE m + 1 \in F
  <2>1. PICK g : IsPowers(base, m, g)
    OBVIOUS
  <2> DEFINE h == [k \in 0..(m + 1) |-> IF k <= m THEN g[k] ELSE base * g[m]]
  <2>2. ASSUME NEW k \in 0..(m + 1)
        PROVE  h[k] = IF k = 0 THEN 1 ELSE base * h[k - 1]
    <3>1. CASE k <= m
      <4>1. k \in 0..m /\ h[k] = g[k] /\ (k # 0 => h[k - 1] = g[k - 1])
        BY <3>1
      <4> QED
        BY <2>1, <4>1 DEF IsPowers
    <3>2. CASE k = m + 1
      BY <3>2
    <3> QED
      BY <3>1, <3>2
  <2>3. IsPowers(base, m + 1, h)
    BY <2>2 DEF IsPowers
  <2> QED
    BY <2>3
<1>4. F = Nat
  <2> HIDE DEF F
  <2> QED
    BY <1>1, <1>2, <1>3, NaturalInduction
<1> QED
  BY <1>4 DEF PowersUpTo

\* The recursive function is what its equation says.
LEMMA PowersEquation ==
  ASSUME NEW base
  PROVE  Powers(base) = [k \in Nat |-> IF k = 0 THEN 1 ELSE base * Powers(base)[k - 1]]
<1> DEFINE g == [k \in Nat |-> PowersUpTo(base, k)[k]]
<1>1. ASSUME NEW k \in Nat
      PROVE  g[k] = IF k = 0 THEN 1 ELSE base * g[k - 1]
  <2>1. IsPowers(base, k, PowersUpTo(base, k)) /\ k \in 0..k
    BY PowersExist
  <2>2. PowersUpTo(base, k)[k] = IF k = 0 THEN 1 ELSE base * PowersUpTo(base, k)[k - 1]
    BY <2>1 DEF IsPowers
  <2>3. ASSUME k # 0 PROVE PowersUpTo(base, k)[k - 1] = PowersUpTo(base, k - 1)[k - 1]
    <3>1. k - 1 \in Nat /\ k - 1 <= k /\ IsPowers(base, k - 1, PowersUpTo(base, k - 1))
      BY <2>3, PowersExist
    <3> QED
      BY <2>1, <3>1, PowersUnique
  <2> QED
    BY <2>2, <2>3
<1>2. g = [k \in Nat |-> IF k = 0 THEN 1 ELSE base * g[k - 1]]
  BY <1>1
<1> QED
  BY <1>2 DEF Powers

\* The powers start at one, and each is the base times the one before.
LEMMA PowerSteps ==
  ASSUME NEW base
  PROVE  Power(base, 0) = 1 /\ \A k \in Nat : Power(base, k + 1) = base * Power(base, k)
<1>1. \A k : Power(base, k) = Powers(base)[k]
  BY DEF Power, Powers
<1>2. \A k \in Nat : k + 1 \in Nat /\ k + 1 # 0 /\ (k + 1) - 1 = k
  OBVIOUS
<1>3. \A k \in Nat : Powers(base)[k] = IF k = 0 THEN 1 ELSE base * Powers(base)[k - 1]
  BY PowersEquation
<1> QED
  BY <1>1, <1>2, <1>3

\* Powers of a positive base are positive.
LEMMA PowerType ==
  ASSUME NEW base \in Nat \ {0}
  PROVE  \A k \in Nat : Power(base, k) \in Nat \ {0}
<1> DEFINE F == {k \in Nat : Power(base, k) \in Nat \ {0}}
<1>1. F \in SUBSET Nat /\ 0 \in F
  BY PowerSteps
<1>2. ASSUME NEW k \in F PROVE k + 1 \in F
  <2> DEFINE p == Power(base, k)
  <2>1. p \in Nat \ {0} /\ Power(base, k + 1) = base * p
    BY PowerSteps
  <2> HIDE DEF p
  <2>2. base * p \in Nat \ {0}
    BY <2>1
  <2> QED
    BY <2>1, <2>2
<1>3. F = Nat
  <2> HIDE DEF F
  <2> QED
    BY <1>1, <1>2, NaturalInduction
<1> QED
  BY <1>3

-----------------------------------------------------------------------------
(* Folds over a sequence *)

\* The steps of a fold over 1..K, taken from the largest element of a set down.
IsFold(F, base, K, g) ==
  /\ g[{}] = base
  /\ \A T \in SUBSET (1..K) : T # {} => g[T] = F[<<g[T \ {Max(T)}], Max(T)>>]

\* A nonempty set of naturals up to K has a largest element, which is its
\* maximum.
LEMMA LargestExists ==
  ASSUME NEW K \in Nat, NEW T \in SUBSET (1..K), T # {}
  PROVE  \E a \in T : \A b \in T : a >= b
<1> DEFINE F == {k \in Nat : \A U \in SUBSET (1..k) : U # {} => \E a \in U : \A b \in U : a >= b}
<1>1. 0 \in F
  <2>1. 1..0 = {}
    OBVIOUS
  <2> QED
    BY <2>1
<1>2. ASSUME NEW k \in F PROVE k + 1 \in F
  <2> SUFFICES ASSUME NEW U \in SUBSET (1..(k + 1)), U # {}
               PROVE  \E a \in U : \A b \in U : a >= b
    BY <1>2
  <2>1. CASE k + 1 \in U
    BY <1>2, <2>1
  <2>2. CASE k + 1 \notin U
    <3>1. U \in SUBSET (1..k)
      BY <1>2, <2>2
    <3> QED
      BY <1>2, <3>1
  <2> QED
    BY <2>1, <2>2
<1>3. K \in F
  <2>1. F \in SUBSET Nat
    OBVIOUS
  <2> HIDE DEF F
  <2> QED
    BY <1>1, <1>2, <2>1, NaturalInduction
<1> QED
  BY <1>3

LEMMA MaxIsElement ==
  ASSUME NEW K \in Nat, NEW T \in SUBSET (1..K), T # {}
  PROVE  Max(T) \in T /\ \A b \in T : Max(T) >= b
BY LargestExists DEF Max

\* A fold whose steps stay in a set of states exists.
LEMMA FoldExists ==
  ASSUME NEW K \in Nat, NEW X, NEW base \in X, NEW F \in [X \X (1..K) -> X]
  PROVE  \E g \in [SUBSET (1..K) -> X] : IsFold(F, base, K, g)
<1> DEFINE Step(T, g) == F[<<g[T \ {Max(T)}], Max(T)>>]
           Good(U, g) == /\ g \in [SUBSET U -> X]
                         /\ g[{}] = base
                         /\ \A T \in SUBSET U : T # {} => g[T] = Step(T, g)
           B == {k \in Nat : k <= K => \E g : Good(1..k, g)}
<1>1. 0 \in B
  <2> DEFINE g == [T \in SUBSET {} |-> base]
  <2>1. 1..0 = {}
    OBVIOUS
  <2>2. Good(1..0, g)
    BY <2>1
  <2> HIDE DEF Good
  <2> QED
    BY <2>2
<1>2. ASSUME NEW k \in B PROVE k + 1 \in B
  <2> SUFFICES ASSUME k + 1 <= K PROVE \E g : Good(1..(k + 1), g)
    <3> HIDE DEF Good
    <3> QED
      BY <1>2
  <2>1. PICK h : Good(1..k, h)
    <3>1. k \in Nat /\ (k <= K => \E g : Good(1..k, g))
      BY <1>2
    <3> HIDE DEF Good
    <3> QED
      BY <3>1
  <2> DEFINE top == k + 1
             g == [T \in SUBSET (1..top) |->
                     IF top \in T THEN F[<<h[T \ {top}], top>>] ELSE h[T]]
  <2>2. \A T \in SUBSET (1..top) : T \ {top} \in SUBSET (1..k)
    BY <1>2
  <2>3. top \in 1..K /\ k \in Nat
    BY <1>2
  <2>4. g \in [SUBSET (1..top) -> X]
    <3> HIDE DEF top
    <3>1. ASSUME NEW T \in SUBSET (1..top) PROVE g[T] \in X
      <4>1. h[T \ {top}] \in X
        BY <2>1, <2>2
      <4>2. top \notin T => T \ {top} = T
        OBVIOUS
      <4> QED
        BY <2>3, <4>1, <4>2
    <3> QED
      BY <3>1
  <2>5. g[{}] = base
    BY <2>1
  <2>6. ASSUME NEW T \in SUBSET (1..top), T # {} PROVE g[T] = Step(T, g)
    <3>1. CASE top \in T
      <4>1. Max(T) = top
        <5>1. top \in T /\ top \in Int /\ \A b \in T : b \in Int /\ top >= b
          BY <2>3, <3>1
        <5> HIDE DEF top
        <5>2. Max(T) \in T /\ \A b \in T : Max(T) >= b
          BY <5>1 DEF Max
        <5>3. top >= Max(T) /\ Max(T) >= top /\ Max(T) \in Int
          BY <5>1, <5>2
        <5> QED
          BY <5>1, <5>3
      <4>2. g[T \ {top}] = h[T \ {top}] /\ g[T] = F[<<h[T \ {top}], top>>]
        BY <3>1
      <4> QED
        BY <4>1, <4>2
    <3>2. CASE top \notin T
      <4>1. T \in SUBSET (1..k)
        BY <2>3, <3>2
      <4>2. Max(T) \in T
        BY <2>3, <2>6, <4>1, MaxIsElement
      <4>3. g[T] = h[T] /\ g[T \ {Max(T)}] = h[T \ {Max(T)}]
        <5> HIDE DEF top
        <5> QED
          BY <3>2
      <4> QED
        BY <2>1, <2>6, <4>1, <4>3
    <3> QED
      BY <3>1, <3>2
  <2>7. Good(1..top, g)
    BY <2>4, <2>5, <2>6
  <2> HIDE DEF Good, g
  <2> QED
    BY <2>7
<1>3. K \in B
  <2>1. B \in SUBSET Nat
    OBVIOUS
  <2> HIDE DEF B
  <2> QED
    BY <1>1, <1>2, <2>1, NaturalInduction
<1>4. PICK g : Good(1..K, g)
  <2> HIDE DEF Good
  <2> QED
    BY <1>3
<1> QED
  BY <1>4 DEF IsFold

\* The largest number of a segment.
LEMMA MaxOfSegment ==
  ASSUME NEW K \in Nat, NEW k \in 1..K
  PROVE  /\ 1..k \in SUBSET (1..K) /\ 1..k # {}
         /\ Max(1..k) = k /\ (1..k) \ {k} = 1..(k - 1)
<1>1. k \in 1..k /\ \A b \in 1..k : b \in Int /\ k >= b
  OBVIOUS
<1> DEFINE T == 1..k
<1>2. Max(T) \in T /\ Max(T) >= k
  <2> HIDE DEF T
  <2>1. k \in T /\ \A b \in T : k >= b
    BY <1>1 DEF T
  <2> QED
    BY <2>1 DEF Max
<1>3. Max(1..k) = k
  BY <1>2
<1> QED
  BY <1>3

\* The result of a fold is one of the states that its steps do not leave.
LEMMA FoldStays ==
  ASSUME NEW K \in Nat, NEW X, NEW h, h[{}] \in X,
         \A T \in SUBSET (1..K) : T # {} /\ h[T \ {Max(T)}] \in X => h[T] \in X
  PROVE  h[1..K] \in X
<1> DEFINE B == {k \in Nat : k <= K => h[1..k] \in X}
<1>1. 0 \in B
  <2>1. 1..0 = {}
    OBVIOUS
  <2> QED
    BY <2>1
<1>2. ASSUME NEW k \in B PROVE k + 1 \in B
  <2> SUFFICES ASSUME k + 1 <= K PROVE h[1..(k + 1)] \in X
    BY <1>2
  <2>1. k + 1 \in 1..K /\ k \in Nat /\ (k + 1) - 1 = k
    BY <1>2
  <2>2. /\ 1..(k + 1) \in SUBSET (1..K) /\ 1..(k + 1) # {}
        /\ Max(1..(k + 1)) = k + 1 /\ (1..(k + 1)) \ {k + 1} = 1..((k + 1) - 1)
    BY <2>1, MaxOfSegment
  <2>3. h[1..k] \in X
    BY <1>2, <2>1
  <2> QED
    BY <2>1, <2>2, <2>3
<1>3. K \in B
  <2>1. B \in SUBSET Nat
    OBVIOUS
  <2> HIDE DEF B
  <2> QED
    BY <1>1, <1>2, <2>1, NaturalInduction
<1> QED
  BY <1>3

\* What holds of the fold from left to right over 1..K after every step.
LEMMA FoldInvariant ==
  ASSUME NEW K \in Nat, NEW h, NEW Good, h[{}] \in Good[0],
         \A k \in 1..K : h[(1..k) \ {k}] \in Good[k - 1] => h[1..k] \in Good[k]
  PROVE  h[1..K] \in Good[K]
<1> DEFINE B == {k \in Nat : k <= K => h[1..k] \in Good[k]}
<1>1. 0 \in B
  <2>1. 1..0 = {}
    OBVIOUS
  <2> QED
    BY <2>1
<1>2. ASSUME NEW k \in B PROVE k + 1 \in B
  <2> SUFFICES ASSUME k + 1 <= K PROVE h[1..(k + 1)] \in Good[k + 1]
    BY <1>2
  <2>1. k + 1 \in 1..K /\ k \in Nat /\ (k + 1) - 1 = k
    BY <1>2
  <2>2. (1..(k + 1)) \ {k + 1} = 1..((k + 1) - 1)
    BY <2>1, MaxOfSegment
  <2>3. h[1..k] \in Good[k] /\ k + 1 <= K
    BY <1>2, <2>1
  <2>4. h[(1..(k + 1)) \ {k + 1}] \in Good[(k + 1) - 1]
    BY <2>1, <2>2, <2>3
  <2> QED
    BY <2>1, <2>4
<1>3. K \in B
  <2>1. B \in SUBSET Nat
    OBVIOUS
  <2> HIDE DEF B
  <2> QED
    BY <1>1, <1>2, <2>1, NaturalInduction
<1> QED
  BY <1>3

-----------------------------------------------------------------------------
(* The lines of a compressed matrix *)

\* Pointers grow along the lines, and count what the matrix has.
LEMMA PointersOrdered ==
  ASSUME NEW a, WellFormed(a)
  PROVE  /\ a.lines \in Nat /\ a.across \in Nat /\ nnz(a) \in Nat
         /\ \A i \in 1..(a.lines + 1) : a.ptr[i] \in 0..nnz(a)
         /\ \A i, j \in 1..(a.lines + 1) : i <= j => a.ptr[i] <= a.ptr[j]
         /\ a.ptr[1] = 0 /\ a.ptr[a.lines + 1] = nnz(a)
<1> DEFINE p == a.ptr
           m == a.lines
           F == {d \in Nat : \A i \in 1..(m + 1) : i + d <= m + 1 => p[i] <= p[i + d]}
<1>1. /\ m \in Nat /\ a.across \in Nat /\ Len(p) = m + 1 /\ p \in Seq(Int)
      /\ nnz(a) \in Nat
      /\ p[1] = 0 /\ p[m + 1] = nnz(a)
      /\ \A i \in 1..m : p[i] <= p[i + 1]
  <2>1. nnz(a) \in Nat
    BY DEF WellFormed, nnz
  <2> QED
    BY <2>1 DEF WellFormed
<1>2. \A i \in 1..(m + 1) : p[i] \in Int
  BY <1>1
<1> HIDE DEF p, m
<1>3. 0 \in F
  BY <1>1, <1>2
<1>4. ASSUME NEW d \in F PROVE d + 1 \in F
  <2> SUFFICES ASSUME NEW i \in 1..(m + 1), i + (d + 1) <= m + 1
               PROVE  p[i] <= p[i + (d + 1)]
    BY <1>4
  <2>1. i + d \in 1..m /\ (i + d) + 1 = i + (d + 1) /\ i + d \in 1..(m + 1)
        /\ i + (d + 1) \in 1..(m + 1)
    BY <1>1, <1>4
  <2>2. p[i] <= p[i + d] /\ p[i + d] <= p[i + (d + 1)]
    BY <1>1, <1>4, <2>1
  <2> QED
    BY <1>2, <2>1, <2>2
<1>5. F = Nat
  <2>1. F \in SUBSET Nat
    OBVIOUS
  <2> HIDE DEF F
  <2> QED
    BY <1>3, <1>4, <2>1, NaturalInduction
<1>6. ASSUME NEW i \in 1..(m + 1), NEW j \in 1..(m + 1), i <= j PROVE p[i] <= p[j]
  <2>1. j - i \in F /\ i + (j - i) = j
    <3>1. j - i \in Nat
      BY <1>1, <1>6
    <3> HIDE DEF F
    <3> QED
      BY <1>1, <1>5, <3>1
  <2> QED
    BY <1>1, <2>1
<1>7. ASSUME NEW i \in 1..(m + 1) PROVE p[i] \in 0..nnz(a)
  <2>1. 1 \in 1..(m + 1) /\ m + 1 \in 1..(m + 1) /\ 1 <= i /\ i <= m + 1
    BY <1>1
  <2> QED
    BY <1>1, <1>2, <1>6, <2>1
<1> QED
  BY <1>1, <1>6, <1>7 DEF p, m

\* Every entry is in one line, and lines are in order.
LEMMA LineOfEntry ==
  ASSUME NEW a, WellFormed(a), NEW k \in 1..nnz(a)
  PROVE  /\ LineOf(a, k) \in 1..a.lines /\ k \in Positions(a, LineOf(a, k))
         /\ \A i \in 1..a.lines : k \in Positions(a, i) => i = LineOf(a, k)
         /\ \A i \in 1..(a.lines + 1) : LineOf(a, k) < i <=> k <= a.ptr[i]
<1>1. /\ a.lines \in Nat /\ nnz(a) \in Nat /\ a.ptr[1] = 0 /\ a.ptr[a.lines + 1] = nnz(a)
      /\ \A i \in 1..(a.lines + 1) : a.ptr[i] \in Int
      /\ \A i, j \in 1..(a.lines + 1) : i <= j => a.ptr[i] <= a.ptr[j]
  BY PointersOrdered
<1> DEFINE m == a.lines
           p == a.ptr
           F == {d \in Nat : d <= m /\ k <= p[d + 1] => \E i \in 1..m : k \in (p[i] + 1)..p[i + 1]}
<1>2. 0 \in F
  BY <1>1
<1>3. ASSUME NEW d \in F PROVE d + 1 \in F
  <2> SUFFICES ASSUME d + 1 <= m, k <= p[d + 1 + 1]
               PROVE  \E i \in 1..m : k \in (p[i] + 1)..p[i + 1]
    BY <1>3
  <2>1. d + 1 \in 1..m /\ p[d + 1] \in Int /\ p[d + 1 + 1] \in Int
    BY <1>1, <1>3
  <2>2. CASE k <= p[d + 1]
    <3>1. d <= m
      BY <1>1, <1>3
    <3> QED
      BY <1>3, <2>2, <3>1
  <2>3. CASE ~(k <= p[d + 1])
    <3>1. k \in (p[d + 1] + 1)..p[d + 1 + 1]
      BY <2>1, <2>3
    <3> QED
      BY <2>1, <3>1
  <2> QED
    BY <2>2, <2>3
<1>4. m \in F
  <2>1. F \in SUBSET Nat
    OBVIOUS
  <2> HIDE DEF F
  <2> QED
    BY <1>1, <1>2, <1>3, <2>1, NaturalInduction
<1>5. \E i \in 1..m : k \in Positions(a, i)
  BY <1>1, <1>4 DEF Positions
<1>6. LineOf(a, k) \in 1..m /\ k \in Positions(a, LineOf(a, k))
  BY <1>5 DEF LineOf
<1> DEFINE l == LineOf(a, k)
<1>7. l \in 1..m /\ l \in 1..(m + 1) /\ l + 1 \in 1..(m + 1) /\ p[l] + 1 <= k /\ k <= p[l + 1]
  BY <1>1, <1>6 DEF Positions
<1> HIDE DEF l
<1>8. ASSUME NEW i \in 1..(m + 1) PROVE l < i <=> k <= p[i]
  <2>1. CASE l < i
    <3>1. l + 1 <= i
      BY <1>1, <1>7, <2>1
    <3>2. p[l + 1] <= p[i]
      BY <1>1, <1>7, <3>1
    <3> QED
      BY <1>1, <1>7, <2>1, <3>2
  <2>2. CASE ~(l < i)
    <3>1. i <= l
      BY <1>1, <1>7, <2>2
    <3>2. p[i] <= p[l]
      BY <1>1, <1>7, <3>1
    <3> QED
      BY <1>1, <1>7, <2>2, <3>2
  <2> QED
    BY <2>1, <2>2
<1>9. ASSUME NEW i \in 1..m, k \in Positions(a, i) PROVE i = l
  <2>1. i \in 1..(m + 1) /\ i + 1 \in 1..(m + 1) /\ p[i] + 1 <= k /\ k <= p[i + 1]
    BY <1>1, <1>9 DEF Positions
  <2>2. l < i + 1 /\ ~(l < i)
    BY <1>1, <1>8, <2>1
  <2> QED
    BY <1>7, <2>1, <2>2
<1> QED
  BY <1>6, <1>8, <1>9 DEF l

-----------------------------------------------------------------------------
(* The layouts of a matrix *)

\* A part has as many elements as the whole only if it is the whole.
LEMMA PartIsSmaller ==
  ASSUME NEW N \in Nat, NEW A \in SUBSET (1..N), NEW B \in SUBSET A
  PROVE  /\ Cardinality(A) \in Nat /\ Cardinality(B) \in Nat /\ Cardinality(A) <= N
         /\ Cardinality(B) <= Cardinality(A)
         /\ B # A => Cardinality(B) < Cardinality(A)
<1>1. IsFiniteSet(1..N) /\ Cardinality(1..N) = N
  BY FS_Interval
<1>2. IsFiniteSet(A) /\ Cardinality(A) <= N
  BY <1>1, FS_Subset
<1>3. IsFiniteSet(B) /\ Cardinality(B) <= Cardinality(A) /\ (Cardinality(A) = Cardinality(B) => A = B)
  BY <1>2, FS_Subset
<1> QED
  BY <1>2, <1>3, FS_CardinalityType

\* Functions with the same values.
LEMMA SameFunction ==
  ASSUME NEW A, NEW f, NEW g, f = [x \in A |-> f[x]], g = [x \in A |-> g[x]], \A x \in A : f[x] = g[x]
  PROVE  f = g
OBVIOUS

\* Disjoint sets.
LEMMA CardinalityOfTwo ==
  ASSUME NEW A, NEW B, IsFiniteSet(A), IsFiniteSet(B), \A e \in A : e \notin B
  PROVE  Cardinality(A \cup B) = Cardinality(A) + Cardinality(B)
<1>1. Cardinality(A \cup B) = Cardinality(A) + Cardinality(B) - Cardinality(A \cap B)
  BY FS_Union
<1>2. A \cap B = {}
  OBVIOUS
<1>3. Cardinality(A \cap B) = 0 /\ Cardinality(A) \in Nat /\ Cardinality(B) \in Nat
  BY <1>2, FS_EmptySet, FS_CardinalityType
<1> QED
  BY <1>1, <1>3

\* What lies across grows along a line.
LEMMA EntriesOrdered ==
  ASSUME NEW a, WellFormed(a), NEW k \in 1..nnz(a), NEW q \in 1..nnz(a), k < q,
         LineOf(a, k) = LineOf(a, q)
  PROVE  a.index[k] < a.index[q]
<1> DEFINE line == LineOf(a, k)
           F == {d \in Nat : k + d <= q => k + d = k \/ a.index[k] < a.index[k + d]}
<1>1. /\ line \in 1..a.lines /\ k \in Positions(a, line) /\ q \in Positions(a, line)
      /\ k \in Nat /\ q \in Nat /\ nnz(a) \in Nat
  BY LineOfEntry, PointersOrdered
<1>2. /\ a.lines \in Nat /\ a.ptr[line] \in Int /\ a.ptr[line + 1] \in Int
  BY <1>1, PointersOrdered
<1> HIDE DEF line
<1>3. \A e \in Positions(a, line) :
        a.index[e] \in Int /\ (e - 1 \in Positions(a, line) => a.index[e - 1] < a.index[e])
  <2>1. \A e \in Positions(a, line) :
          /\ a.index[e] \in 1..a.across
          /\ e - 1 \in Positions(a, line) => a.index[e - 1] < a.index[e]
    BY <1>1 DEF WellFormed
  <2> QED
    BY <2>1
<1>4. 0 \in F
  BY <1>1
<1>5. ASSUME NEW d \in F PROVE d + 1 \in F
  <2> SUFFICES ASSUME k + (d + 1) <= q PROVE a.index[k] < a.index[k + (d + 1)]
    BY <1>5
  <2>1. /\ k + d \in Positions(a, line) /\ k + (d + 1) \in Positions(a, line)
        /\ (k + (d + 1)) - 1 = k + d /\ d \in Nat
    BY <1>1, <1>2, <1>5 DEF Positions
  <2>2. a.index[k + d] < a.index[k + (d + 1)] /\ a.index[k + d] \in Int /\ a.index[k + (d + 1)] \in Int
    BY <1>3, <2>1
  <2>3. k + d = k \/ a.index[k] < a.index[k + d]
    BY <1>1, <1>5, <2>1
  <2> QED
    BY <1>1, <1>3, <2>2, <2>3
<1>6. q - k \in F
  <2>1. F \in SUBSET Nat /\ q - k \in Nat
    BY <1>1
  <2> HIDE DEF F
  <2> QED
    BY <1>4, <1>5, <2>1, NaturalInduction
<1> QED
  BY <1>1, <1>6

\* Where an entry goes in the other layout: behind those with less across, and
\* those with as much that stand before it.
Ahead(a, k) ==
  {q \in 1..nnz(a) : a.index[q] < a.index[k] \/ (a.index[q] = a.index[k] /\ q <= k)}
Dest(a, k) == Cardinality(Ahead(a, k))

LEMMA EntryTypes ==
  ASSUME NEW a, WellFormed(a), NEW k \in 1..nnz(a)
  PROVE  a.index[k] \in 1..a.across /\ a.values[k] \in Int /\ a.index[k] \in Int
<1>1. LineOf(a, k) \in 1..a.lines /\ k \in Positions(a, LineOf(a, k))
  BY LineOfEntry
<1>2. a.index[k] \in 1..a.across
  BY <1>1 DEF WellFormed
<1>3. a.values[k] \in Int
  BY DEF WellFormed, nnz
<1> QED
  BY <1>2, <1>3

\* This is one-to-one, and onto the places there are.
LEMMA DestOrders ==
  ASSUME NEW a, WellFormed(a)
  PROVE  /\ \A k \in 1..nnz(a) : Dest(a, k) \in 1..nnz(a)
         /\ \A k, q \in 1..nnz(a) :
              Dest(a, k) <= Dest(a, q) <=>
                a.index[k] < a.index[q] \/ (a.index[k] = a.index[q] /\ k <= q)
         /\ \A d \in 1..nnz(a) : \E k \in 1..nnz(a) : Dest(a, k) = d
<1> DEFINE n == nnz(a)
           x == a.index
           Upto(k, q) == x[k] < x[q] \/ (x[k] = x[q] /\ k <= q)
<1>1. n \in Nat /\ \A k \in 1..n : x[k] \in Int /\ k \in Int
  BY PointersOrdered, EntryTypes
<1> HIDE DEF n, x
<1>2. \A k \in 1..n : Ahead(a, k) = {q \in 1..n : Upto(q, k)}
  BY DEF Ahead, n, x
<1>3. ASSUME NEW k \in 1..n PROVE Dest(a, k) \in 1..n
  <2>1. k \in Ahead(a, k) /\ Ahead(a, k) \in SUBSET (1..n)
    BY <1>1, <1>2
  <2>2. {} \in SUBSET Ahead(a, k) /\ {} # Ahead(a, k)
    BY <2>1
  <2>3. Cardinality(Ahead(a, k)) \in Nat /\ Cardinality(Ahead(a, k)) <= n
        /\ Cardinality({}) < Cardinality(Ahead(a, k)) /\ Cardinality({}) \in Nat
    BY <1>1, <2>1, <2>2, PartIsSmaller
  <2> QED
    BY <1>1, <2>3 DEF Dest
<1>4. ASSUME NEW k \in 1..n, NEW q \in 1..n PROVE Dest(a, k) <= Dest(a, q) <=> Upto(k, q)
  <2>0. Ahead(a, k) \in SUBSET (1..n) /\ Ahead(a, q) \in SUBSET (1..n)
    BY <1>2
  <2>1. CASE Upto(k, q)
    <3>1. Ahead(a, k) \in SUBSET Ahead(a, q)
      BY <1>1, <1>2, <2>1
    <3> QED
      BY <1>1, <2>0, <2>1, <3>1, PartIsSmaller DEF Dest
  <2>2. CASE ~Upto(k, q)
    <3>1. Ahead(a, q) \in SUBSET Ahead(a, k) /\ k \in Ahead(a, k) /\ k \notin Ahead(a, q)
      BY <1>1, <1>2, <2>2
    <3>2. Cardinality(Ahead(a, q)) < Cardinality(Ahead(a, k))
          /\ Cardinality(Ahead(a, q)) \in Nat /\ Cardinality(Ahead(a, k)) \in Nat
      BY <1>1, <2>0, <3>1, PartIsSmaller
    <3> HIDE DEF Upto
    <3> QED
      BY <2>2, <3>2 DEF Dest
  <2> QED
    BY <2>1, <2>2
<1>5. ASSUME NEW d \in 1..n PROVE \E k \in 1..n : Dest(a, k) = d
  <2> DEFINE f == [k \in 1..n |-> Dest(a, k)]
  <2>1. f \in [1..n -> 1..n]
    BY <1>3
  <2>2. \A k, q \in 1..n : f[k] = f[q] => k = q
    <3> SUFFICES ASSUME NEW k \in 1..n, NEW q \in 1..n, Dest(a, k) = Dest(a, q) PROVE k = q
      OBVIOUS
    <3>1. Dest(a, k) \in Int /\ Dest(a, k) <= Dest(a, q) /\ Dest(a, q) <= Dest(a, k)
      BY <1>1, <1>3
    <3>2. Upto(k, q) /\ Upto(q, k)
      BY <1>4, <3>1
    <3> QED
      BY <1>1, <3>2
  <2> HIDE DEF f
  <2>3. f \in Injection(1..n, 1..n)
    BY <2>1, <2>2 DEF Injection, IsInjective
  <2>4. IsFiniteSet(1..n)
    BY <1>1, FS_Interval
  <2>5. f \in Surjection(1..n, 1..n)
    BY <2>3, <2>4, FS_Injection
  <2>6. \E k \in 1..n : f[k] = d
    BY <2>5 DEF Surjection
  <2> QED
    BY <2>6 DEF f
<1> QED
  BY <1>3, <1>4, <1>5 DEF n, x

\* The counts of the entries across are pointers, and each place is between
\* those of its new line.
LEMMA CountsArePointers ==
  ASSUME NEW a, WellFormed(a)
  PROVE  /\ Counted(a) \in [1..(a.across + 1) -> 0..nnz(a)]
         /\ Counted(a)[1] = 0 /\ Counted(a)[a.across + 1] = nnz(a)
         /\ \A i, j \in 1..(a.across + 1) : i <= j => Counted(a)[i] <= Counted(a)[j]
         /\ \A k \in 1..nnz(a), j \in 1..(a.across + 1) :
              Dest(a, k) <= Counted(a)[j] <=> a.index[k] < j
<1> DEFINE n == nnz(a)
           x == a.index
           Under(j) == {k \in 1..n : x[k] < j}
<1>1. /\ n \in Nat /\ a.across \in Nat /\ \A k \in 1..n : x[k] \in Int /\ x[k] \in 1..a.across /\ k \in Int
  BY PointersOrdered, EntryTypes
<1>2. \A j \in 1..(a.across + 1) : Counted(a)[j] = Cardinality(Under(j))
  BY DEF Counted
<1>3. \A k \in 1..n : Ahead(a, k) = {q \in 1..n : x[q] < x[k] \/ (x[q] = x[k] /\ q <= k)}
  BY DEF Ahead
<1>c. Counted(a) = [j \in 1..(a.across + 1) |-> Counted(a)[j]]
  BY DEF Counted
<1> HIDE DEF n, x
<1>4. \A j \in 1..(a.across + 1) : Under(j) \in SUBSET (1..n) /\ Cardinality(Under(j)) \in 0..n
  <2> SUFFICES ASSUME NEW j \in 1..(a.across + 1)
               PROVE  Under(j) \in SUBSET (1..n) /\ Cardinality(Under(j)) \in 0..n
    OBVIOUS
  <2>1. Under(j) \in SUBSET (1..n)
    OBVIOUS
  <2> HIDE DEF Under
  <2>2. Under(j) \in SUBSET Under(j)
    OBVIOUS
  <2>3. Cardinality(Under(j)) \in Nat /\ Cardinality(Under(j)) <= n
    BY <1>1, <2>1, <2>2, PartIsSmaller
  <2> QED
    BY <1>1, <2>1, <2>3
<1>5. Counted(a)[1] = 0
  <2>1. 1 \in 1..(a.across + 1) /\ Under(1) = {}
    BY <1>1
  <2> QED
    BY <1>2, <2>1, FS_EmptySet
<1>6. Counted(a)[a.across + 1] = n
  <2>1. a.across + 1 \in 1..(a.across + 1) /\ Under(a.across + 1) = 1..n
    BY <1>1
  <2>2. Cardinality(1..n) = n
    BY <1>1, FS_Interval
  <2> QED
    BY <1>2, <2>1, <2>2
<1>7. ASSUME NEW i \in 1..(a.across + 1), NEW j \in 1..(a.across + 1), i <= j
      PROVE  Counted(a)[i] <= Counted(a)[j]
  <2>1. Under(i) \in SUBSET Under(j)
    BY <1>1, <1>7
  <2> HIDE DEF Under
  <2> QED
    BY <1>1, <1>2, <1>4, <2>1, PartIsSmaller
<1>8. ASSUME NEW k \in 1..n, NEW j \in 1..(a.across + 1)
      PROVE  Dest(a, k) <= Counted(a)[j] <=> x[k] < j
  <2>1. Ahead(a, k) \in SUBSET (1..n) /\ Under(j) \in SUBSET (1..n) /\ k \in Ahead(a, k)
    BY <1>1, <1>3
  <2>2. CASE x[k] < j
    <3>1. Ahead(a, k) \in SUBSET Under(j)
      BY <1>1, <1>3, <2>2
    <3> HIDE DEF Under
    <3> QED
      BY <1>1, <1>2, <2>1, <2>2, <3>1, PartIsSmaller DEF Dest
  <2>3. CASE ~(x[k] < j)
    <3>1. Under(j) \in SUBSET Ahead(a, k) /\ k \notin Under(j)
      BY <1>1, <1>3, <2>3
    <3> HIDE DEF Under
    <3>2. Cardinality(Under(j)) < Cardinality(Ahead(a, k))
          /\ Cardinality(Under(j)) \in Nat /\ Cardinality(Ahead(a, k)) \in Nat
      BY <1>1, <2>1, <3>1, PartIsSmaller
    <3> QED
      BY <1>2, <2>3, <3>2 DEF Dest
  <2> QED
    BY <2>2, <2>3
<1>9. Counted(a) \in [1..(a.across + 1) -> 0..n]
  <2> HIDE DEF Under
  <2>1. \A j \in 1..(a.across + 1) : Counted(a)[j] \in 0..n
    BY <1>2, <1>4
  <2> QED
    BY <1>c, <2>1
<1> QED
  BY <1>5, <1>6, <1>7, <1>8, <1>9 DEF n, x

\* The sweep over the entries, as the library defines its fold.
Place(a, s, k) ==
  LET dest == s.cursor[a.index[k]] + 1
  IN  [s EXCEPT !.cursor[a.index[k]] = dest,
                !.index[dest] = LineOf(a, k), !.values[dest] = a.values[k]]
Unplaced(a) == [cursor |-> Counted(a), index |-> a.index, values |-> a.values]
IsPlacing(a, h) ==
  h = [T \in SUBSET (DOMAIN Sweep(a)) |->
         IF T = {} THEN Unplaced(a) ELSE Place(a, h[T \ {Max(T)}], Sweep(a)[Max(T)])]
Placing(a) == CHOOSE h : IsPlacing(a, h)

LEMMA PlacedIsPlacing == ASSUME NEW a PROVE Placed(a) = Placing(a)[DOMAIN Sweep(a)]
BY DEF Placed, FoldLeft, MapThenFoldSet, Placing, IsPlacing, Unplaced, Place

Layouts(a) ==
  [cursor : [1..(a.across + 1) -> Int], index : [1..nnz(a) -> Int], values : [1..nnz(a) -> Int]]

LEMMA PlacingSteps ==
  ASSUME NEW a, WellFormed(a)
  PROVE  /\ Placing(a)[{}] = Unplaced(a) /\ Unplaced(a) \in Layouts(a)
         /\ \A k \in 1..nnz(a) : Placing(a)[1..k] = Place(a, Placing(a)[(1..k) \ {k}], k)
         /\ Placed(a) = Placing(a)[1..nnz(a)]
<1> DEFINE X == Layouts(a)
           K == nnz(a)
           F == [t \in X \X (1..K) |-> Place(a, t[1], t[2])]
           h == Placing(a)
<1>1. Unplaced(a) \in X /\ K \in Nat
  <2>1. a.index \in [1..K -> Int] /\ a.values \in [1..K -> Int] /\ K \in Nat
    BY DEF WellFormed, nnz
  <2>2. Counted(a) \in [1..(a.across + 1) -> Int]
    BY CountsArePointers
  <2> QED
    BY <2>1, <2>2 DEF Unplaced, Layouts
<1>2. ASSUME NEW s \in X, NEW k \in 1..K PROVE Place(a, s, k) \in X
  <2>1. a.index[k] \in 1..(a.across + 1) /\ a.values[k] \in Int /\ LineOf(a, k) \in Int
        /\ s.cursor[a.index[k]] + 1 \in Int
    <3>1. a.index[k] \in 1..(a.across + 1)
      BY EntryTypes, PointersOrdered
    <3>2. a.values[k] \in Int
      BY EntryTypes
    <3>3. LineOf(a, k) \in Int
      BY LineOfEntry, PointersOrdered
    <3>4. s.cursor[a.index[k]] \in Int
      BY <3>1 DEF Layouts
    <3> QED
      BY <3>1, <3>2, <3>3, <3>4
  <2> QED
    BY <2>1 DEF Layouts, Place
<1>d. DOMAIN Sweep(a) = 1..K /\ \A k \in 1..K : Sweep(a)[k] = k
  BY DEF Sweep
<1>4. \E g : IsPlacing(a, g)
  <2>1. F \in [X \X (1..K) -> X]
    BY <1>2
  <2>2. PICK g \in [SUBSET (1..K) -> X] : IsFold(F, Unplaced(a), K, g)
    <3> HIDE DEF F, X
    <3> QED
      BY <1>1, <2>1, FoldExists
  <2>3. ASSUME NEW T \in SUBSET (1..K), T # {}
        PROVE  g[T] = Place(a, g[T \ {Max(T)}], Sweep(a)[Max(T)])
    <3>1. Max(T) \in 1..K /\ T \ {Max(T)} \in SUBSET (1..K)
      BY <1>1, <2>3, MaxIsElement
    <3>2. g[T] = F[<<g[T \ {Max(T)}], Max(T)>>]
      BY <2>2, <2>3 DEF IsFold
    <3>3. g[T \ {Max(T)}] \in X
      BY <3>1
    <3> QED
      BY <1>d, <3>1, <3>2, <3>3
  <2>4. g[{}] = Unplaced(a)
    BY <2>2 DEF IsFold
  <2>5. IsPlacing(a, g)
    BY <1>d, <2>3, <2>4 DEF IsPlacing
  <2> QED
    BY <2>5
<1>5. IsPlacing(a, h)
  BY <1>4 DEF Placing
<1> HIDE DEF h
<1>6. h[{}] = Unplaced(a) /\ \A T \in SUBSET (1..K) : T # {} =>
        h[T] = Place(a, h[T \ {Max(T)}], Sweep(a)[Max(T)])
  BY <1>5, <1>d DEF IsPlacing
<1>7. ASSUME NEW k \in 1..K PROVE h[1..k] = Place(a, h[(1..k) \ {k}], k)
  <2>1. 1..k \in SUBSET (1..K) /\ 1..k # {} /\ Max(1..k) = k
    BY <1>1, MaxOfSegment
  <2> QED
    BY <1>6, <1>d, <2>1
<1>8. Placed(a) = h[1..K]
  BY <1>d, PlacedIsPlacing DEF h
<1> QED
  BY <1>1, <1>6, <1>7, <1>8 DEF h

\* What the sweep has done after k entries: a cursor has advanced once for each
\* entry of its line, and the entries are where they go.
Swept(a, k) ==
  {s \in Layouts(a) :
     /\ \A j \in 1..a.across :
          s.cursor[j] = Counted(a)[j] + Cardinality({q \in 1..k : a.index[q] = j})
     /\ \A q \in 1..k : s.index[Dest(a, q)] = LineOf(a, q) /\ s.values[Dest(a, q)] = a.values[q]}

LEMMA DestIsCursor ==
  ASSUME NEW a, WellFormed(a), NEW k \in 1..nnz(a)
  PROVE  Dest(a, k) = Counted(a)[a.index[k]] + Cardinality({q \in 1..(k - 1) : a.index[q] = a.index[k]}) + 1
<1> DEFINE n == nnz(a)
           x == a.index
           Under == {q \in 1..n : x[q] < x[k]}
           Same == {q \in 1..(k - 1) : x[q] = x[k]}
<1>1. /\ n \in Nat /\ k \in 1..n /\ a.across \in Nat
      /\ \A q \in 1..n : x[q] \in Int /\ x[q] \in 1..a.across /\ q \in Int
  BY PointersOrdered, EntryTypes
<1>2. Counted(a)[x[k]] = Cardinality(Under)
  <2>1. x[k] \in 1..(a.across + 1)
    BY <1>1
  <2> QED
    BY <2>1 DEF Counted
<1>3. Ahead(a, k) = {q \in 1..n : x[q] < x[k] \/ (x[q] = x[k] /\ q <= k)}
  BY DEF Ahead
<1> HIDE DEF n, x
<1>4. /\ Under \in SUBSET (1..n) /\ Same \cup {k} \in SUBSET (1..n) /\ k \notin Same
      /\ Same \in SUBSET (1..n) /\ Under \cap (Same \cup {k}) = {}
      /\ Ahead(a, k) = Under \cup (Same \cup {k})
  <2>1. Same \in SUBSET (1..n) /\ k \notin Same /\ Same \cup {k} \in SUBSET (1..n)
    BY <1>1
  <2>2. Under \cap (Same \cup {k}) = {}
    <3>1. \A q \in Same \cup {k} : x[q] = x[k] /\ x[q] \in Int
      BY <1>1
    <3> QED
      BY <3>1
  <2>3. Ahead(a, k) = Under \cup (Same \cup {k})
    <3>1. \A q \in 1..n : q <= k <=> q \in 1..(k - 1) \/ q = k
      BY <1>1
    <3> QED
      BY <1>1, <1>3, <3>1
  <2> QED
    BY <2>1, <2>2, <2>3
<1> HIDE DEF Under, Same
<1>5. /\ Cardinality(Ahead(a, k)) = Cardinality(Under) + Cardinality(Same \cup {k})
      /\ Cardinality(Same \cup {k}) = Cardinality(Same) + Cardinality({k})
  <2>1. IsFiniteSet(1..n)
    BY <1>1, FS_Interval
  <2>2. IsFiniteSet(Under) /\ IsFiniteSet(Same) /\ IsFiniteSet({k})
    BY <1>4, <2>1, FS_Subset, FS_Singleton
  <2>3. Cardinality(Same \cup {k}) = Cardinality(Same) + Cardinality({k})
    BY <1>4, <2>2, CardinalityOfTwo
  <2> DEFINE B == Same \cup {k}
  <2>4. IsFiniteSet(B) /\ (\A e \in Under : e \notin B) /\ Ahead(a, k) = Under \cup B
    BY <1>4, <2>2, FS_AddElement
  <2> HIDE DEF B
  <2>5. Cardinality(Under \cup B) = Cardinality(Under) + Cardinality(B)
    BY <2>2, <2>4, CardinalityOfTwo
  <2> QED
    BY <2>3, <2>4, <2>5 DEF B
<1>6. Cardinality({k}) = 1 /\ Cardinality(Under) \in Nat /\ Cardinality(Same) \in Nat
  <2>1. IsFiniteSet(1..n)
    BY <1>1, FS_Interval
  <2>2. IsFiniteSet(Under) /\ IsFiniteSet(Same)
    BY <1>4, <2>1, FS_Subset
  <2> QED
    BY <2>2, FS_Singleton, FS_CardinalityType
<1> QED
  BY <1>2, <1>5, <1>6 DEF Dest, Same, x

LEMMA PlacingSweeps == ASSUME NEW a, WellFormed(a) PROVE Placed(a) \in Swept(a, nnz(a))
<1> DEFINE K == nnz(a)
           x == a.index
           h == Placing(a)
           Good == [k \in 0..K |-> Swept(a, k)]
<1>1. /\ h[{}] = Unplaced(a) /\ Unplaced(a) \in Layouts(a)
      /\ \A k \in 1..K : h[1..k] = Place(a, h[(1..k) \ {k}], k)
      /\ Placed(a) = h[1..K]
  BY PlacingSteps
<1>2. K \in Nat /\ a.across \in Nat /\ Counted(a) \in [1..(a.across + 1) -> 0..nnz(a)]
  BY PointersOrdered, CountsArePointers
<1> HIDE DEF h
<1>3. h[{}] \in Swept(a, 0)
  <2>1. 1..0 = {}
    OBVIOUS
  <2>2. \A j \in 1..a.across : Counted(a)[j] \in Int
    BY <1>2
  <2>3. \A j : {q \in 1..0 : x[q] = j} = {}
    BY <2>1
  <2>4. Unplaced(a).cursor = Counted(a) /\ Cardinality({}) = 0
    BY FS_EmptySet DEF Unplaced
  <2>5. \A j \in 1..a.across : Unplaced(a).cursor[j] = Counted(a)[j] + Cardinality({q \in 1..0 : x[q] = j})
    BY <2>2, <2>3, <2>4
  <2> QED
    BY <1>1, <2>1, <2>5 DEF Swept
<1>4. ASSUME NEW k \in 1..K, NEW s \in Swept(a, k - 1) PROVE Place(a, s, k) \in Swept(a, k)
  <2> DEFINE j == x[k]
             dest == s.cursor[j] + 1
             t == Place(a, s, k)
             Same(i, l) == {q \in 1..l : x[q] = i}
  <2>1. /\ j \in 1..a.across /\ j \in 1..(a.across + 1) /\ a.values[k] \in Int /\ LineOf(a, k) \in Int
        /\ k \in 1..K /\ s \in Layouts(a) /\ Counted(a)[j] \in Int
    <3>1. j \in 1..a.across /\ a.values[k] \in Int
      BY EntryTypes
    <3>2. LineOf(a, k) \in Int
      BY LineOfEntry, PointersOrdered
    <3> QED
      BY <1>2, <3>1, <3>2 DEF Swept
  <2>2. \A i \in 1..a.across : s.cursor[i] = Counted(a)[i] + Cardinality(Same(i, k - 1))
    BY DEF Swept
  <2>3. dest = Dest(a, k)
    <3>1. Dest(a, k) = Counted(a)[j] + Cardinality(Same(j, k - 1)) + 1
      BY DestIsCursor
    <3> HIDE DEF Same, j
    <3> QED
      BY <2>1, <2>2, <3>1
  <2>4. /\ t = [s EXCEPT !.cursor[j] = dest, !.index[dest] = LineOf(a, k), !.values[dest] = a.values[k]]
    BY DEF Place
  <2>5. dest \in 1..K
    BY <2>3, DestOrders
  <2> HIDE DEF dest, t, j
  <2>6. /\ t \in Layouts(a)
        /\ \A i \in 1..a.across : t.cursor[i] = IF i = j THEN dest ELSE s.cursor[i]
        /\ \A d \in 1..K : t.index[d] = IF d = dest THEN LineOf(a, k) ELSE s.index[d]
        /\ \A d \in 1..K : t.values[d] = IF d = dest THEN a.values[k] ELSE s.values[d]
    <3>1. /\ s.cursor \in [1..(a.across + 1) -> Int] /\ s.index \in [1..K -> Int]
          /\ s.values \in [1..K -> Int]
      BY <2>1 DEF Layouts
    <3>2. /\ t.cursor = [s.cursor EXCEPT ![j] = dest] /\ t.index = [s.index EXCEPT ![dest] = LineOf(a, k)]
          /\ t.values = [s.values EXCEPT ![dest] = a.values[k]]
      BY <2>1, <2>4 DEF Layouts
    <3>3. dest \in Int
      BY <1>2, <2>5
    <3>4. t.cursor \in [1..(a.across + 1) -> Int] /\ t.index \in [1..K -> Int] /\ t.values \in [1..K -> Int]
      <4> DEFINE f == s.cursor
                 g == t.cursor
      <4>1. f \in [1..(a.across + 1) -> Int]
        BY <3>1
      <4>2. g = [f EXCEPT ![j] = dest]
        BY <3>2
      <4> HIDE DEF f, g
      <4>3. g \in [1..(a.across + 1) -> Int]
        BY <3>3, <4>1, <4>2
      <4>4. t.index \in [1..K -> Int]
        BY <2>1, <3>1, <3>2, <3>3
      <4>5. t.values \in [1..K -> Int]
        BY <2>1, <3>1, <3>2, <3>3
      <4> QED
        BY <4>3, <4>4, <4>5 DEF g
    <3>6. t = [cursor |-> t.cursor, index |-> t.index, values |-> t.values]
      BY <2>1, <2>4 DEF Layouts
    <3>7. t \in Layouts(a)
      BY <3>4, <3>6 DEF Layouts
    <3>5. \A i \in 1..a.across : i \in 1..(a.across + 1)
      BY <1>2
    <3> QED
      BY <3>1, <3>2, <3>5, <3>7
  <2>7. ASSUME NEW i \in 1..a.across PROVE t.cursor[i] = Counted(a)[i] + Cardinality(Same(i, k))
    <3>0. Counted(a)[i] \in Int /\ IsFiniteSet(Same(i, k - 1))
      <4>1. IsFiniteSet(1..(k - 1))
        BY <1>2, <2>1, FS_Interval
      <4>2. Same(i, k - 1) \in SUBSET (1..(k - 1))
        OBVIOUS
      <4> HIDE DEF Same
      <4> QED
        BY <1>2, <4>1, <4>2, FS_Subset
    <3>1. CASE i = j
      <4>1. Same(i, k) = Same(i, k - 1) \cup {k} /\ k \notin Same(i, k - 1)
        BY <1>2, <2>1, <3>1 DEF j
      <4> HIDE DEF Same
      <4>2. Cardinality(Same(i, k)) = Cardinality(Same(i, k - 1)) + 1 /\ Cardinality(Same(i, k - 1)) \in Nat
        BY <3>0, <4>1, FS_AddElement, FS_CardinalityType
      <4>3. dest = s.cursor[i] + 1
        BY <3>1 DEF dest
      <4> QED
        BY <2>2, <2>6, <3>0, <3>1, <4>2, <4>3
    <3>2. CASE i # j
      <4>1. Same(i, k) = Same(i, k - 1)
        BY <1>2, <2>1, <3>2 DEF j
      <4> HIDE DEF Same
      <4> QED
        BY <2>2, <2>6, <3>2, <4>1
    <3> QED
      BY <3>1, <3>2
  <2>8. ASSUME NEW q \in 1..k
        PROVE  t.index[Dest(a, q)] = LineOf(a, q) /\ t.values[Dest(a, q)] = a.values[q]
    <3>1. CASE q = k
      BY <2>3, <2>5, <2>6, <3>1
    <3>2. CASE q # k
      <4>1. q \in 1..(k - 1) /\ q \in 1..K
        BY <1>2, <2>1, <3>2
      <4>2. s.index[Dest(a, q)] = LineOf(a, q) /\ s.values[Dest(a, q)] = a.values[q]
        BY <4>1 DEF Swept
      <4>3. Dest(a, q) \in 1..K /\ Dest(a, q) # Dest(a, k)
        <5>1. Dest(a, k) <= Dest(a, q) <=> x[k] < x[q] \/ (x[k] = x[q] /\ k <= q)
          BY <2>1, <4>1, DestOrders
        <5>2. Dest(a, q) <= Dest(a, k) <=> x[q] < x[k] \/ (x[q] = x[k] /\ q <= k)
          BY <2>1, <4>1, DestOrders
        <5>3. x[k] \in Int /\ x[q] \in Int /\ Dest(a, q) \in 1..K /\ Dest(a, k) \in 1..K
          BY <2>1, <4>1, DestOrders, EntryTypes
        <5> HIDE DEF x
        <5> QED
          BY <1>2, <2>1, <4>1, <5>1, <5>2, <5>3
      <4> QED
        BY <2>3, <2>6, <4>2, <4>3
    <3> QED
      BY <3>1, <3>2
  <2> QED
    BY <2>6, <2>7, <2>8 DEF Swept, t
<1>5. h[1..K] \in Good[K]
  <2>1. 0 \in 0..K /\ K \in 0..K /\ h[{}] \in Good[0]
    BY <1>2, <1>3
  <2>2. \A k \in 1..K : h[(1..k) \ {k}] \in Good[k - 1] => h[1..k] \in Good[k]
    <3> SUFFICES ASSUME NEW k \in 1..K, h[(1..k) \ {k}] \in Good[k - 1] PROVE h[1..k] \in Good[k]
      OBVIOUS
    <3>1. k - 1 \in 0..K /\ k \in 0..K
      BY <1>2
    <3> QED
      BY <1>1, <1>4, <3>1
  <2> HIDE DEF Good
  <2> QED
    BY <1>2, <2>1, <2>2, FoldInvariant
<1> QED
  BY <1>1, <1>2, <1>5

\* What the conversion makes of a matrix.
LEMMA ReorderedIs ==
  ASSUME NEW a, WellFormed(a)
  PROVE  LET b == Reordered(a) IN
           /\ b = Compressed(a.across, a.lines, b.ptr, b.index, b.values)
           /\ b.lines = a.across /\ b.across = a.lines /\ b.ptr = Counted(a)
           /\ b.index \in [1..nnz(a) -> Int] /\ b.values \in [1..nnz(a) -> Int] /\ nnz(b) = nnz(a)
           /\ \A k \in 1..nnz(a) : /\ b.index[Dest(a, k)] = LineOf(a, k)
                                   /\ b.values[Dest(a, k)] = a.values[k]
<1> DEFINE b == Reordered(a)
           placed == Placed(a)
<1>1. b = [lines |-> a.across, across |-> a.lines, ptr |-> Counted(a), index |-> placed.index,
           values |-> placed.values]
  BY DEF Reordered, Compressed
<1>2. placed \in Swept(a, nnz(a))
  BY PlacingSweeps
<1> HIDE DEF b, placed
<1>3. /\ placed.index \in [1..nnz(a) -> Int] /\ placed.values \in [1..nnz(a) -> Int]
      /\ \A k \in 1..nnz(a) : placed.index[Dest(a, k)] = LineOf(a, k) /\ placed.values[Dest(a, k)] = a.values[k]
  BY <1>2 DEF Swept, Layouts
<1>4. /\ b.lines = a.across /\ b.across = a.lines /\ b.ptr = Counted(a)
      /\ b.index = placed.index /\ b.values = placed.values
  BY <1>1
<1>5. b = Compressed(a.across, a.lines, b.ptr, b.index, b.values)
  BY <1>1, <1>4 DEF Compressed
<1>6. nnz(b) = nnz(a)
  <2>1. b.values \in [1..nnz(a) -> Int] /\ nnz(a) \in Nat
    BY <1>3, <1>4, PointersOrdered
  <2> QED
    BY <2>1 DEF nnz
<1> QED
  BY <1>3, <1>4, <1>5, <1>6 DEF b

\* The place of an entry is in the line it lay across, and in no other.
LEMMA DestIsInLine ==
  ASSUME NEW a, WellFormed(a), NEW k \in 1..nnz(a), NEW j \in 1..a.across
  PROVE  Dest(a, k) \in (Counted(a)[j] + 1)..Counted(a)[j + 1] <=> j = a.index[k]
<1>1. /\ a.across \in Nat /\ a.index[k] \in 1..a.across /\ Dest(a, k) \in Int
      /\ j \in 1..(a.across + 1) /\ j + 1 \in 1..(a.across + 1)
  BY PointersOrdered, EntryTypes, DestOrders
<1>2. Counted(a)[j] \in Int /\ Counted(a)[j + 1] \in Int
  <2>1. Counted(a) \in [1..(a.across + 1) -> 0..nnz(a)]
    BY CountsArePointers
  <2> HIDE DEF Counted, nnz
  <2> QED
    BY <1>1, <2>1
<1>3. (Dest(a, k) <= Counted(a)[j] <=> a.index[k] < j)
      /\ (Dest(a, k) <= Counted(a)[j + 1] <=> a.index[k] < j + 1)
  BY <1>1, CountsArePointers
<1> QED
  BY <1>1, <1>2, <1>3

\* The other layout is well formed.
LEMMA ReorderedWellFormed == ASSUME NEW a, WellFormed(a) PROVE WellFormed(Reordered(a))
<1> DEFINE b == Reordered(a)
           n == nnz(a)
<1>1. /\ b.lines = a.across /\ b.across = a.lines /\ b.ptr = Counted(a)
      /\ b.index \in [1..n -> Int] /\ b.values \in [1..n -> Int] /\ nnz(b) = n
      /\ \A k \in 1..n : b.index[Dest(a, k)] = LineOf(a, k) /\ b.values[Dest(a, k)] = a.values[k]
  BY ReorderedIs
<1>2. a.lines \in Nat /\ a.across \in Nat /\ n \in Nat
  BY PointersOrdered
<1>3. /\ Counted(a) \in [1..(a.across + 1) -> 0..n]
      /\ Counted(a)[1] = 0 /\ Counted(a)[a.across + 1] = n
      /\ \A i, j \in 1..(a.across + 1) : i <= j => Counted(a)[i] <= Counted(a)[j]
  BY CountsArePointers
<1> HIDE DEF b
<1>4. /\ b.ptr \in Seq(Int) /\ b.index \in Seq(Int) /\ b.values \in Seq(Int)
      /\ Len(b.ptr) = b.lines + 1 /\ Len(b.index) = nnz(b)
  <2>1. /\ Len(b.ptr) = a.across + 1 /\ b.ptr \in Seq(Int)
    <3>1. DOMAIN b.ptr = 1..(a.across + 1) /\ a.across + 1 \in Nat
      BY <1>1, <1>2, <1>3
    <3>2. b.ptr \in [1..(a.across + 1) -> 0..n]
      BY <1>1, <1>3
    <3>3. b.ptr \in [1..(a.across + 1) -> Int]
      <4> DEFINE p == b.ptr
                 m == a.across + 1
      <4>1. p \in [1..m -> 0..n]
        BY <3>2
      <4> HIDE DEF p, m, n
      <4>2. p \in [1..m -> Int]
        BY <4>1
      <4> QED
        BY <4>2 DEF p, m
    <3> QED
      BY <3>1, <3>3
  <2>2. b.index \in Seq(Int) /\ Len(b.index) = n /\ b.values \in Seq(Int)
    <3> DEFINE x == b.index
               y == b.values
    <3>1. n \in Nat /\ x \in [1..n -> Int] /\ y \in [1..n -> Int]
      BY <1>1, <1>2
    <3> HIDE DEF x, y, n
    <3>2. x \in Seq(Int) /\ Len(x) = n
      BY <3>1
    <3>3. y \in Seq(Int)
      BY <3>1
    <3> QED
      BY <3>2, <3>3 DEF x, y
  <2> QED
    BY <1>1, <2>1, <2>2
<1>5. b.lines \in Nat /\ b.across \in Nat /\ b.ptr[1] = 0 /\ b.ptr[b.lines + 1] = nnz(b)
  BY <1>1, <1>2, <1>3
<1>6. ASSUME NEW j \in 1..b.lines
      PROVE  /\ b.ptr[j] <= b.ptr[j + 1]
             /\ \A d \in Positions(b, j) :
                  /\ b.index[d] \in 1..b.across
                  /\ d - 1 \in Positions(b, j) => b.index[d - 1] < b.index[d]
  <2>1. j \in 1..a.across /\ j \in 1..(a.across + 1) /\ j + 1 \in 1..(a.across + 1) /\ j <= j + 1
    BY <1>1, <1>2
  <2>2. b.ptr[j] <= b.ptr[j + 1]
    BY <1>1, <1>3, <2>1
  <2>3. Positions(b, j) = (Counted(a)[j] + 1)..Counted(a)[j + 1]
        /\ Counted(a)[j] \in 0..n /\ Counted(a)[j + 1] \in 0..n
    BY <1>1, <1>3, <2>1 DEF Positions
  <2>4. ASSUME NEW d \in Positions(b, j)
        PROVE  \E k \in 1..n : Dest(a, k) = d /\ a.index[k] = j
    <3>1. d \in 1..n
      BY <1>2, <2>3
    <3>2. PICK k \in 1..n : Dest(a, k) = d
      BY <3>1, DestOrders
    <3>3. a.index[k] = j
      BY <2>1, <2>3, <3>2, DestIsInLine
    <3> QED
      BY <3>2, <3>3
  <2>5. ASSUME NEW d \in Positions(b, j) PROVE b.index[d] \in 1..b.across
    <3>1. PICK k \in 1..n : Dest(a, k) = d
      BY <2>4
    <3> QED
      BY <1>1, <3>1, LineOfEntry
  <2>6. ASSUME NEW d \in Positions(b, j), d - 1 \in Positions(b, j) PROVE b.index[d - 1] < b.index[d]
    <3>1. PICK k \in 1..n : Dest(a, k) = d /\ a.index[k] = j
      BY <2>4
    <3>2. PICK q \in 1..n : Dest(a, q) = d - 1 /\ a.index[q] = j
      BY <2>4, <2>6
    <3>3. d \in Int /\ j \in Int
      BY <2>1, <2>3
    <3>4. q < k
      <4>1. Dest(a, k) <= Dest(a, q) <=>
              a.index[k] < a.index[q] \/ (a.index[k] = a.index[q] /\ k <= q)
        BY DestOrders
      <4> QED
        BY <1>2, <3>1, <3>2, <3>3, <4>1
    <3>5. LineOf(a, q) # LineOf(a, k)
      BY <3>1, <3>2, <3>3, <3>4, EntriesOrdered
    <3>6. LineOf(a, q) <= LineOf(a, k)
      <4> DEFINE l == LineOf(a, k)
                 l2 == LineOf(a, q)
      <4>1. l \in 1..a.lines /\ l2 \in 1..a.lines /\ l + 1 \in 1..(a.lines + 1)
        BY <1>2, LineOfEntry
      <4>2. (l < l + 1 <=> k <= a.ptr[l + 1]) /\ (l2 < l + 1 <=> q <= a.ptr[l + 1]) /\ a.ptr[l + 1] \in Int
        BY <4>1, LineOfEntry, PointersOrdered
      <4> HIDE DEF l, l2
      <4>3. l2 < l + 1
        BY <1>2, <3>4, <4>1, <4>2
      <4> QED
        BY <1>2, <4>1, <4>3 DEF l, l2
    <3>7. LineOf(a, q) \in Int /\ LineOf(a, k) \in Int
      BY <1>2, LineOfEntry
    <3> QED
      BY <1>1, <3>1, <3>2, <3>5, <3>6, <3>7
  <2> QED
    BY <2>2, <2>5, <2>6
<1> QED
  BY <1>4, <1>5, <1>6 DEF WellFormed, b

\* An entry is found in the other layout, in the line of what it lay across.
LEMMA LineOfDest ==
  ASSUME NEW a, WellFormed(a), NEW k \in 1..nnz(a)
  PROVE  LineOf(Reordered(a), Dest(a, k)) = a.index[k]
<1> DEFINE b == Reordered(a)
<1>1. /\ WellFormed(b) /\ b.lines = a.across /\ b.ptr = Counted(a) /\ nnz(b) = nnz(a)
  BY ReorderedIs, ReorderedWellFormed
<1>2. Dest(a, k) \in 1..nnz(a) /\ a.index[k] \in 1..a.across
  BY DestOrders, EntryTypes
<1>3. Dest(a, k) \in Positions(b, a.index[k])
  BY <1>1, <1>2, DestIsInLine DEF Positions
<1> HIDE DEF b
<1> QED
  BY <1>1, <1>2, <1>3, LineOfEntry DEF b

\* Lines are in the order of the entries.
LEMMA LinesOrdered ==
  ASSUME NEW a, WellFormed(a), NEW k \in 1..nnz(a), NEW q \in 1..nnz(a), q <= k
  PROVE  LineOf(a, q) <= LineOf(a, k)
<1> DEFINE l == LineOf(a, k)
           l2 == LineOf(a, q)
<1>0. a.lines \in Nat /\ nnz(a) \in Nat
  BY PointersOrdered
<1>1. l \in 1..a.lines /\ l2 \in 1..a.lines /\ l + 1 \in 1..(a.lines + 1)
  BY <1>0, LineOfEntry
<1>2. (l < l + 1 <=> k <= a.ptr[l + 1]) /\ (l2 < l + 1 <=> q <= a.ptr[l + 1]) /\ a.ptr[l + 1] \in Int
  BY <1>1, LineOfEntry, PointersOrdered
<1> HIDE DEF l, l2
<1>3. l2 < l + 1
  BY <1>0, <1>1, <1>2
<1> QED
  BY <1>0, <1>1, <1>3 DEF l, l2

\* Entries and their places are as many.
LEMMA PlacesAreAsMany ==
  ASSUME NEW a, WellFormed(a), NEW T \in SUBSET (1..nnz(a))
  PROVE  Cardinality({Dest(a, k) : k \in T}) = Cardinality(T)
<1> DEFINE U == {Dest(a, k) : k \in T}
           f == [k \in T |-> Dest(a, k)]
<1>1. IsFiniteSet(T)
  <2>1. IsFiniteSet(1..nnz(a))
    BY PointersOrdered, FS_Interval
  <2> QED
    BY <2>1, FS_Subset
<1>2. \A k, q \in T : Dest(a, k) = Dest(a, q) => k = q
  <2> SUFFICES ASSUME NEW k \in T, NEW q \in T, Dest(a, k) = Dest(a, q) PROVE k = q
    OBVIOUS
  <2>1. /\ Dest(a, k) <= Dest(a, q) <=> a.index[k] < a.index[q] \/ (a.index[k] = a.index[q] /\ k <= q)
        /\ Dest(a, q) <= Dest(a, k) <=> a.index[q] < a.index[k] \/ (a.index[q] = a.index[k] /\ q <= k)
    BY DestOrders
  <2>2. Dest(a, k) \in Int /\ a.index[k] \in Int /\ a.index[q] \in Int /\ k \in Int /\ q \in Int
    BY DestOrders, EntryTypes
  <2> QED
    BY <2>1, <2>2
<1>3. f \in Bijection(T, U)
  BY <1>2 DEF Bijection, Injection, Surjection, IsInjective
<1>4. ExistsBijection(T, U)
  <2> HIDE DEF f, U
  <2> QED
    BY <1>3 DEF ExistsBijection
<1> QED
  BY <1>1, <1>4, FS_Bijection

\* The pointers of the other layout's other layout.
LEMMA CountedBack ==
  ASSUME NEW a, WellFormed(a), NEW i \in 1..(a.lines + 1)
  PROVE  Counted(Reordered(a))[i] = a.ptr[i]
<1> DEFINE b == Reordered(a)
           n == nnz(a)
           T == 1..a.ptr[i]
           U == {q \in 1..n : b.index[q] < i}
<1>1. /\ b.across = a.lines /\ nnz(b) = n /\ n \in Nat
      /\ \A k \in 1..n : b.index[Dest(a, k)] = LineOf(a, k)
  BY ReorderedIs, PointersOrdered
<1>2. Counted(b)[i] = Cardinality(U)
  BY <1>1 DEF Counted
<1>3. a.ptr[i] \in 0..n
  BY PointersOrdered
<1> HIDE DEF b
<1>4. T \in SUBSET (1..n) /\ Cardinality(T) = a.ptr[i]
  <2>1. Cardinality(T) = IF 1 > a.ptr[i] THEN 0 ELSE a.ptr[i] - 1 + 1
    <3>1. a.ptr[i] \in Int
      BY <1>1, <1>3
    <3> QED
      BY <3>1, FS_Interval
  <2> QED
    BY <1>1, <1>3, <2>1
<1>5. \A k \in 1..n : k \in T <=> b.index[Dest(a, k)] < i
  BY <1>1, <1>3, LineOfEntry
<1>6. U = {Dest(a, k) : k \in T}
  <2>1. ASSUME NEW q \in U PROVE q \in {Dest(a, k) : k \in T}
    <3>1. PICK k \in 1..n : Dest(a, k) = q
      BY DestOrders
    <3> QED
      BY <1>5, <3>1
  <2>2. ASSUME NEW k \in T PROVE Dest(a, k) \in U
    BY <1>4, <1>5, DestOrders
  <2> HIDE DEF T, U
  <2> QED
    BY <2>1, <2>2
<1> HIDE DEF T, U
<1>7. Cardinality(U) = Cardinality(T)
  BY <1>4, <1>6, PlacesAreAsMany
<1> QED
  BY <1>2, <1>4, <1>7 DEF b

\* An entry comes back to its place.
LEMMA DestBack ==
  ASSUME NEW a, WellFormed(a), NEW k \in 1..nnz(a)
  PROVE  Dest(Reordered(a), Dest(a, k)) = k
<1> DEFINE b == Reordered(a)
           n == nnz(a)
           d == Dest(a, k)
           T == 1..k
           U == {q \in 1..n : b.index[q] < b.index[d] \/ (b.index[q] = b.index[d] /\ q <= d)}
<1>1. /\ nnz(b) = n /\ n \in Nat /\ d \in 1..n /\ a.lines \in Nat
      /\ \A q \in 1..n : b.index[Dest(a, q)] = LineOf(a, q)
  BY ReorderedIs, PointersOrdered, DestOrders
<1>2. Dest(b, d) = Cardinality(U)
  BY <1>1 DEF Dest, Ahead
<1> HIDE DEF b
<1>3. T \in SUBSET (1..n) /\ Cardinality(T) = k
  <2>1. k \in 1..n /\ k \in Nat /\ 1 \in Int /\ k \in Int
    BY <1>1
  <2>2. Cardinality(1..k) = IF 1 > k THEN 0 ELSE k - 1 + 1
    BY <2>1, FS_Interval
  <2>3. Cardinality(1..k) = k
    BY <2>1, <2>2
  <2> QED
    BY <1>1, <2>1, <2>3
<1>4. ASSUME NEW q \in 1..n PROVE q \in T <=> Dest(a, q) \in U
  <2> DEFINE e == Dest(a, q)
             l == LineOf(a, k)
             l2 == LineOf(a, q)
  <2>1. e \in 1..n /\ b.index[e] = l2 /\ b.index[d] = l /\ l \in Int /\ l2 \in Int
    BY <1>1, DestOrders, LineOfEntry
  <2>2. /\ q <= k => l2 <= l
        /\ k <= q => l <= l2
    BY LinesOrdered
  <2>3. l = l2 => (e <= d <=> q <= k)
    <3> SUFFICES ASSUME l = l2 PROVE e <= d <=> q <= k
      OBVIOUS
    <3>1. e <= d <=> a.index[q] < a.index[k] \/ (a.index[q] = a.index[k] /\ q <= k)
      BY DestOrders
    <3>2. (q < k => a.index[q] < a.index[k]) /\ (k < q => a.index[k] < a.index[q])
      BY EntriesOrdered
    <3>3. a.index[k] \in Int /\ a.index[q] \in Int /\ k \in Int /\ q \in Int
      BY EntryTypes
    <3> HIDE DEF e, d
    <3> QED
      BY <3>1, <3>2, <3>3
  <2> HIDE DEF e, d, l, l2
  <2>4. e \in U <=> l2 < l \/ (l2 = l /\ e <= d)
    BY <2>1
  <2>5. q \in T <=> q <= k
    BY <1>1
  <2> QED
    BY <1>1, <2>1, <2>2, <2>3, <2>4, <2>5 DEF e
<1>5. U = {Dest(a, q) : q \in T}
  <2>1. ASSUME NEW q \in U PROVE q \in {Dest(a, p) : p \in T}
    <3>1. PICK p \in 1..n : Dest(a, p) = q
      BY DestOrders
    <3> QED
      BY <1>4, <3>1
  <2>2. ASSUME NEW q \in T PROVE Dest(a, q) \in U
    BY <1>3, <1>4
  <2> HIDE DEF T, U
  <2> QED
    BY <2>1, <2>2
<1> HIDE DEF T, U, d
<1>6. Cardinality(U) = Cardinality(T)
  BY <1>3, <1>5, PlacesAreAsMany
<1> QED
  BY <1>2, <1>3, <1>6 DEF b, d

\* Converting twice makes the matrix again.
LEMMA ReorderedBack ==
  ASSUME NEW a, WellFormed(a), a = Compressed(a.lines, a.across, a.ptr, a.index, a.values)
  PROVE  Reordered(Reordered(a)) = a
<1> DEFINE b == Reordered(a)
           c == Reordered(b)
           n == nnz(a)
<1>1. /\ WellFormed(b) /\ b.lines = a.across /\ b.across = a.lines /\ nnz(b) = n /\ n \in Nat
      /\ \A k \in 1..n : b.values[Dest(a, k)] = a.values[k]
  BY ReorderedIs, ReorderedWellFormed, PointersOrdered
<1>2. \A k \in 1..n : Dest(b, Dest(a, k)) = k /\ LineOf(b, Dest(a, k)) = a.index[k] /\ Dest(a, k) \in 1..n
  BY DestBack, LineOfDest, DestOrders
<1>3. \A i \in 1..(a.lines + 1) : Counted(b)[i] = a.ptr[i]
  BY CountedBack
<1>4. Counted(b) \in [1..(b.across + 1) -> 0..nnz(b)]
  BY <1>1, CountsArePointers
<1> HIDE DEF b
<1>5. /\ c = Compressed(b.across, b.lines, c.ptr, c.index, c.values) /\ c.ptr = Counted(b)
      /\ c.index \in [1..n -> Int] /\ c.values \in [1..n -> Int]
      /\ \A k \in 1..n : c.index[Dest(b, k)] = LineOf(b, k) /\ c.values[Dest(b, k)] = b.values[k]
  BY <1>1, ReorderedIs
<1> HIDE DEF c
<1>6. a.index \in [1..n -> Int] /\ a.values \in [1..n -> Int] /\ a.ptr \in [1..(a.lines + 1) -> Int]
  BY DEF WellFormed, nnz
<1>7. c.index = a.index /\ c.values = a.values
  <2>1. ASSUME NEW k \in 1..n PROVE c.index[k] = a.index[k] /\ c.values[k] = a.values[k]
    <3> DEFINE d == Dest(a, k)
    <3>1. d \in 1..n /\ Dest(b, d) = k /\ LineOf(b, d) = a.index[k] /\ b.values[d] = a.values[k]
      BY <1>1, <1>2
    <3> HIDE DEF d
    <3> QED
      BY <1>5, <3>1
  <2> DEFINE f == c.index
             g == a.index
             v == c.values
             w == a.values
  <2>2. /\ f \in [1..n -> Int] /\ g \in [1..n -> Int] /\ v \in [1..n -> Int] /\ w \in [1..n -> Int]
        /\ \A k \in 1..n : f[k] = g[k] /\ v[k] = w[k]
    BY <1>5, <1>6, <2>1
  <2> HIDE DEF f, g, v, w
  <2>i. /\ f = [k \in 1..n |-> f[k]] /\ g = [k \in 1..n |-> g[k]]
        /\ v = [k \in 1..n |-> v[k]] /\ w = [k \in 1..n |-> w[k]]
    BY <2>2
  <2>3. f = g /\ v = w
    BY <2>2, <2>i, SameFunction
  <2> QED
    BY <2>3 DEF f, g, v, w
<1>8. c.ptr = a.ptr
  <2> DEFINE f == Counted(b)
             g == a.ptr
  <2>1. /\ f \in [1..(a.lines + 1) -> 0..nnz(b)] /\ g \in [1..(a.lines + 1) -> Int]
        /\ \A i \in 1..(a.lines + 1) : f[i] = g[i]
    BY <1>1, <1>3, <1>4, <1>6
  <2> HIDE DEF f, g
  <2>i. f = [i \in 1..(a.lines + 1) |-> f[i]] /\ g = [i \in 1..(a.lines + 1) |-> g[i]]
    BY <2>1
  <2>2. f = g
    BY <2>1, <2>i, SameFunction
  <2> QED
    BY <1>5, <2>2 DEF f, g
<1>9. c = Compressed(a.lines, a.across, a.ptr, a.index, a.values)
  BY <1>1, <1>5, <1>7, <1>8
<1> QED
  BY <1>9 DEF b, c

\* The terms of a sum may be renamed.
Renames(d, f, D, g, U) ==
  /\ \A k \in D : \A q \in D : d[k] = d[q] => k = q
  /\ \A k \in D : f[k] \in Int /\ g[d[k]] = f[k]
  /\ U = {d[k] : k \in D}

LEMMA SumRenamed ==
  ASSUME NEW f, NEW g, NEW D, IsFiniteSet(D), NEW d, NEW U, Renames(d, f, D, g, U)
  PROVE  SumOver(g, U) = SumOver(f, D)
<1>0. /\ \A k \in D : \A q \in D : d[k] = d[q] => k = q
      /\ \A k \in D : f[k] \in Int /\ g[d[k]] = f[k]
      /\ U = {d[k] : k \in D}
  BY DEF Renames
<1> DEFINE Image(T) == {d[k] : k \in T}
           F == {T \in SUBSET D : IsFiniteSet(Image(T)) /\ SumOver(g, Image(T)) = SumOver(f, T)}
<1>1. F \in SUBSET (SUBSET D) /\ {} \in F
  <2>1. Image({}) = {}
    OBVIOUS
  <2> QED
    BY <2>1, SumEmpty, FS_EmptySet
<1>2. ASSUME NEW T \in F, NEW a \in D, a \notin T
      PROVE  T \cup {a} \in F
  <2>1. Image(T \cup {a}) = Image(T) \cup {d[a]} /\ d[a] \notin Image(T) /\ T \in SUBSET D
    BY <1>0, <1>2
  <2>2. IsFiniteSet(Image(T)) /\ IsFiniteSet(T) /\ SumOver(g, Image(T)) = SumOver(f, T)
    BY <1>2, FS_Subset
  <2>3. \A y \in Image(T) \cup {d[a]} : g[y] \in Int
    BY <1>0, <1>2
  <2> HIDE DEF Image
  <2>4. SumOver(g, Image(T) \cup {d[a]}) = g[d[a]] + SumOver(g, Image(T))
    BY <2>1, <2>2, <2>3, SumAdd
  <2>5. SumOver(f, T \cup {a}) = f[a] + SumOver(f, T)
    BY <1>0, <1>2, <2>1, <2>2, SumAdd
  <2>6. IsFiniteSet(Image(T) \cup {d[a]})
    BY <2>2, FS_AddElement
  <2> QED
    BY <1>0, <1>2, <2>1, <2>2, <2>4, <2>5, <2>6
<1>3. D \in F
  <2> HIDE DEF F
  <2> QED
    BY <1>1, <1>2, ElementInduction
<1> QED
  BY <1>0, <1>3

\* The transposed product, as the library defines its fold.
Gather(a, x, y, k) == [y EXCEPT ![a.index[k]] = @ + a.values[k] * x[LineOf(a, k)]]
Zeros(a) == [j \in 1..a.across |-> 0]
IsGathering(a, x, h) ==
  h = [T \in SUBSET (DOMAIN Sweep(a)) |->
         IF T = {} THEN Zeros(a) ELSE Gather(a, x, h[T \ {Max(T)}], Sweep(a)[Max(T)])]
Gathering(a, x) == CHOOSE h : IsGathering(a, x, h)

LEMMA GatheredIsGathering ==
  ASSUME NEW a, NEW x PROVE multiply_transpose(a, x) = Gathering(a, x)[DOMAIN Sweep(a)]
BY DEF multiply_transpose, FoldLeft, MapThenFoldSet, Gathering, IsGathering, Zeros, Gather

\* What it has gathered after k entries.
Term(a, x) == [k \in 1..nnz(a) |-> a.values[k] * x[LineOf(a, k)]]
EntriesAcross(a, k, j) == {q \in 1..k : a.index[q] = j}
Gathered(a, x, k) ==
  {y \in [1..a.across -> Int] :
     \A j \in 1..a.across : y[j] = SumOver(Term(a, x), EntriesAcross(a, k, j))}

LEMMA TermTypes ==
  ASSUME NEW a, WellFormed(a), NEW x \in [1..a.lines -> Int], NEW k \in 1..nnz(a)
  PROVE  Term(a, x)[k] \in Int /\ Term(a, x)[k] = a.values[k] * x[LineOf(a, k)]
<1>1. a.values[k] \in Int /\ x[LineOf(a, k)] \in Int
  BY EntryTypes, LineOfEntry
<1>2. Term(a, x)[k] = a.values[k] * x[LineOf(a, k)]
  BY DEF Term
<1> QED
  BY <1>1, <1>2

LEMMA TransposeGathers ==
  ASSUME NEW a, WellFormed(a), NEW x \in [1..a.lines -> Int]
  PROVE  multiply_transpose(a, x) \in Gathered(a, x, nnz(a))
<1> DEFINE X == [1..a.across -> Int]
           K == nnz(a)
           F == [t \in X \X (1..K) |-> Gather(a, x, t[1], t[2])]
           h == Gathering(a, x)
           Good == [k \in 0..K |-> Gathered(a, x, k)]
<1>1. Zeros(a) \in X /\ K \in Nat
  BY PointersOrdered DEF Zeros
<1>2. ASSUME NEW y \in X, NEW k \in 1..K
      PROVE  /\ Gather(a, x, y, k) \in X
             /\ \A j \in 1..a.across : Gather(a, x, y, k)[j] =
                  IF j = a.index[k] THEN y[j] + Term(a, x)[k] ELSE y[j]
  <2>1. a.index[k] \in 1..a.across /\ Term(a, x)[k] \in Int
        /\ Term(a, x)[k] = a.values[k] * x[LineOf(a, k)]
    BY TermTypes, EntryTypes
  <2>2. Gather(a, x, y, k) = [y EXCEPT ![a.index[k]] = @ + Term(a, x)[k]]
    BY <2>1 DEF Gather
  <2> QED
    BY <2>1, <2>2
<1>d. DOMAIN Sweep(a) = 1..K /\ \A k \in 1..K : Sweep(a)[k] = k
  BY DEF Sweep
<1>4. \E g : IsGathering(a, x, g)
  <2>1. F \in [X \X (1..K) -> X]
    BY <1>2
  <2>2. PICK g \in [SUBSET (1..K) -> X] : IsFold(F, Zeros(a), K, g)
    <3> HIDE DEF F, X
    <3> QED
      BY <1>1, <2>1, FoldExists
  <2>3. ASSUME NEW T \in SUBSET (1..K), T # {}
        PROVE  g[T] = Gather(a, x, g[T \ {Max(T)}], Sweep(a)[Max(T)])
    <3>1. Max(T) \in 1..K /\ T \ {Max(T)} \in SUBSET (1..K)
      BY <1>1, <2>3, MaxIsElement
    <3>2. g[T] = F[<<g[T \ {Max(T)}], Max(T)>>]
      BY <2>2, <2>3 DEF IsFold
    <3>3. g[T \ {Max(T)}] \in X
      BY <3>1
    <3> QED
      BY <1>d, <3>1, <3>2, <3>3
  <2>4. g[{}] = Zeros(a)
    BY <2>2 DEF IsFold
  <2>5. IsGathering(a, x, g)
    BY <1>d, <2>3, <2>4 DEF IsGathering
  <2> QED
    BY <2>5
<1>5. IsGathering(a, x, h)
  BY <1>4 DEF Gathering
<1>6. multiply_transpose(a, x) = h[1..K]
  BY <1>d, GatheredIsGathering
<1> HIDE DEF h
<1>7. h[{}] = Zeros(a) /\ \A T \in SUBSET (1..K) : T # {} =>
        h[T] = Gather(a, x, h[T \ {Max(T)}], Sweep(a)[Max(T)])
  BY <1>5, <1>d DEF IsGathering
<1>8. ASSUME NEW k \in 1..K PROVE h[1..k] = Gather(a, x, h[(1..k) \ {k}], k)
  <2>1. 1..k \in SUBSET (1..K) /\ 1..k # {} /\ Max(1..k) = k
    BY <1>1, MaxOfSegment
  <2> QED
    BY <1>7, <1>d, <2>1
<1>9. Zeros(a) \in Gathered(a, x, 0)
  <2>1. \A j : EntriesAcross(a, 0, j) = {}
    <3>1. 1..0 = {}
      OBVIOUS
    <3> QED
      BY <3>1 DEF EntriesAcross
  <2>2. \A j \in 1..a.across : Zeros(a)[j] = 0
    BY DEF Zeros
  <2> QED
    BY <1>1, <2>1, <2>2, SumEmpty DEF Gathered
<1>10. ASSUME NEW k \in 1..K, NEW y \in Gathered(a, x, k - 1)
       PROVE  Gather(a, x, y, k) \in Gathered(a, x, k)
  <2> DEFINE z == Gather(a, x, y, k)
  <2>1. y \in X /\ \A j \in 1..a.across : y[j] = SumOver(Term(a, x), EntriesAcross(a, k - 1, j))
    BY DEF Gathered
  <2>2. z \in X /\ \A j \in 1..a.across : z[j] = IF j = a.index[k] THEN y[j] + Term(a, x)[k] ELSE y[j]
    BY <1>2, <2>1
  <2> HIDE DEF z
  <2>3. ASSUME NEW j \in 1..a.across PROVE z[j] = SumOver(Term(a, x), EntriesAcross(a, k, j))
    <3>1. CASE j = a.index[k]
      <4>1. /\ EntriesAcross(a, k, j) = EntriesAcross(a, k - 1, j) \cup {k} /\ k \notin EntriesAcross(a, k - 1, j)
            /\ EntriesAcross(a, k - 1, j) \in SUBSET (1..K)
        BY <1>1, <3>1 DEF EntriesAcross
      <4>2. IsFiniteSet(EntriesAcross(a, k - 1, j))
        <5>1. IsFiniteSet(1..K)
          BY <1>1, FS_Interval
        <5> QED
          BY <4>1, <5>1, FS_Subset
      <4>3. \A q \in EntriesAcross(a, k - 1, j) \cup {k} : Term(a, x)[q] \in Int
        BY <4>1, TermTypes
      <4>4. SumOver(Term(a, x), EntriesAcross(a, k - 1, j) \cup {k}) =
              Term(a, x)[k] + SumOver(Term(a, x), EntriesAcross(a, k - 1, j))
        BY <4>1, <4>2, <4>3, SumAdd
      <4>5. SumOver(Term(a, x), EntriesAcross(a, k - 1, j)) \in Int /\ Term(a, x)[k] \in Int
        BY <4>2, <4>3, SumType
      <4> QED
        BY <2>1, <2>2, <3>1, <4>1, <4>4, <4>5
    <3>2. CASE j # a.index[k]
      <4>1. EntriesAcross(a, k, j) = EntriesAcross(a, k - 1, j)
        BY <1>1, <3>2 DEF EntriesAcross
      <4> QED
        BY <2>1, <2>2, <3>2, <4>1
    <3> QED
      BY <3>1, <3>2
  <2> QED
    BY <2>2, <2>3 DEF Gathered, z
<1>11. h[1..K] \in Good[K]
  <2>1. 0 \in 0..K /\ K \in 0..K /\ h[{}] \in Good[0]
    BY <1>1, <1>7, <1>9
  <2>2. \A k \in 1..K : h[(1..k) \ {k}] \in Good[k - 1] => h[1..k] \in Good[k]
    <3> SUFFICES ASSUME NEW k \in 1..K, h[(1..k) \ {k}] \in Good[k - 1] PROVE h[1..k] \in Good[k]
      OBVIOUS
    <3>1. k - 1 \in 0..K /\ k \in 0..K
      BY <1>1
    <3> QED
      BY <1>8, <1>10, <3>1
  <2> HIDE DEF Good
  <2> QED
    BY <1>1, <2>1, <2>2, FoldInvariant
<1> QED
  BY <1>1, <1>6, <1>11

\* The product in one layout is the transposed product in the other.
LEMMA ProductsAgree ==
  ASSUME NEW a, WellFormed(a), NEW x \in [1..a.across -> Int]
  PROVE  multiply_transpose(Reordered(a), x) = multiply(a, x)
<1> DEFINE b == Reordered(a)
           n == nnz(a)
           y == multiply_transpose(b, x)
           z == multiply(a, x)
<1>1. /\ WellFormed(b) /\ b.lines = a.across /\ b.across = a.lines /\ nnz(b) = n /\ n \in Nat
      /\ \A k \in 1..n : b.values[Dest(a, k)] = a.values[k] /\ b.index[Dest(a, k)] = LineOf(a, k)
  BY ReorderedIs, ReorderedWellFormed, PointersOrdered
<1>2. \A k \in 1..n : LineOf(b, Dest(a, k)) = a.index[k] /\ Dest(a, k) \in 1..n
  BY LineOfDest, DestOrders
<1> HIDE DEF b
<1>3. y \in [1..a.lines -> Int] /\ \A l \in 1..a.lines : y[l] = SumOver(Term(b, x), EntriesAcross(b, n, l))
  <2>1. y \in Gathered(b, x, n)
    BY <1>1, TransposeGathers
  <2> QED
    BY <1>1, <2>1 DEF Gathered
<1>4. ASSUME NEW l \in 1..a.lines PROVE y[l] = z[l]
  <2> DEFINE P == Positions(a, l)
             d == [k \in 1..n |-> Dest(a, k)]
             f == [k \in P |-> a.values[k] * x[a.index[k]]]
             U == {d[k] : k \in P}
  <2>1. z[l] = SumOver(f, P)
    BY DEF multiply
  <2>2. P \in SUBSET (1..n) /\ IsFiniteSet(P)
    <3>1. a.ptr[l] \in 0..n /\ a.ptr[l + 1] \in 0..n
      BY PointersOrdered
    <3>2. P = (a.ptr[l] + 1)..a.ptr[l + 1]
      BY DEF Positions
    <3>3. P \in SUBSET (1..n)
      BY <1>1, <3>1, <3>2
    <3>4. IsFiniteSet(1..n)
      BY <1>1, FS_Interval
    <3> HIDE DEF P
    <3> QED
      BY <3>3, <3>4, FS_Subset
  <2>3. \A k \in 1..n : k \in P <=> LineOf(a, k) = l
    BY LineOfEntry
  <2> HIDE DEF P
  <2>4. ASSUME NEW k \in P PROVE f[k] \in Int /\ Term(b, x)[d[k]] = f[k]
    <3>1. k \in 1..n
      BY <2>2
    <3>2. /\ Dest(a, k) \in 1..nnz(b) /\ x \in [1..b.lines -> Int]
          /\ b.values[Dest(a, k)] = a.values[k] /\ LineOf(b, Dest(a, k)) = a.index[k]
      BY <1>1, <1>2, <3>1
    <3> DEFINE e == Dest(a, k)
    <3>3. e \in 1..nnz(b) /\ Term(b, x)[e] \in Int /\ Term(b, x)[e] = b.values[e] * x[LineOf(b, e)]
      <4>1. e \in 1..nnz(b) /\ x \in [1..b.lines -> Int]
        BY <3>2
      <4> HIDE DEF e
      <4> QED
        BY <1>1, <4>1, TermTypes
    <3> QED
      BY <3>1, <3>2, <3>3
  <2>5. \A k \in P : \A q \in P : d[k] = d[q] => k = q
    <3> SUFFICES ASSUME NEW k \in P, NEW q \in P, d[k] = d[q] PROVE k = q
      OBVIOUS
    <3>1. k \in 1..n /\ q \in 1..n
      BY <2>2
    <3>2. Dest(b, Dest(a, k)) = k /\ Dest(b, Dest(a, q)) = q
      BY <3>1, DestBack DEF b
    <3> QED
      BY <3>1, <3>2
  <2>6. U = EntriesAcross(b, n, l)
    <3>1. ASSUME NEW q \in EntriesAcross(b, n, l) PROVE q \in U
      <4>1. q \in 1..n /\ b.index[q] = l
        BY DEF EntriesAcross
      <4>2. PICK k \in 1..n : Dest(a, k) = q
        BY <4>1, DestOrders
      <4>3. k \in P
        BY <1>1, <2>3, <4>1, <4>2
      <4> QED
        BY <4>2, <4>3
    <3>2. ASSUME NEW k \in P PROVE d[k] \in EntriesAcross(b, n, l)
      <4>1. k \in 1..n /\ LineOf(a, k) = l
        BY <2>2, <2>3
      <4> QED
        BY <1>1, <1>2, <4>1 DEF EntriesAcross
    <3> HIDE DEF d
    <3> QED
      BY <3>1, <3>2
  <2> DEFINE g == Term(b, x)
  <2>7. \A k \in P : f[k] \in Int /\ g[d[k]] = f[k]
    BY <2>4
  <2>8. Renames(d, f, P, g, U)
    BY <2>5, <2>7 DEF Renames
  <2> HIDE DEF d, f, g, U
  <2>9. SumOver(g, U) = SumOver(f, P)
    BY <2>2, <2>8, SumRenamed
  <2> QED
    BY <1>3, <2>1, <2>6, <2>9 DEF g
<1>5. y = [l \in 1..a.lines |-> y[l]] /\ z = [l \in 1..a.lines |-> z[l]]
  BY <1>3 DEF multiply
<1> HIDE DEF y, z
<1>6. y = z
  BY <1>4, <1>5, SameFunction
<1> QED
  BY <1>6 DEF y, z, b

\* Both conversions, and the products of each layout with the other's.
Agree(a, b) ==
  /\ WellFormed(b) /\ Reordered(b) = a
  /\ \A x \in [1..a.across -> {0, 1}] : multiply_transpose(b, x) = multiply(a, x)
  /\ \A y \in [1..a.lines -> {0, 1}] : multiply_transpose(a, y) = multiply(b, y)

LEMMA BothLayoutsAgree ==
  ASSUME NEW a, WellFormed(a), a = Compressed(a.lines, a.across, a.ptr, a.index, a.values)
  PROVE  Agree(a, Reordered(a))
<1> DEFINE b == Reordered(a)
<1>1. WellFormed(b) /\ b.across = a.lines /\ Reordered(b) = a
  BY ReorderedIs, ReorderedWellFormed, ReorderedBack
<1>2. \A N : \A x \in [N -> {0, 1}] : x \in [N -> Int]
  OBVIOUS
<1>3. \A x \in [1..a.across -> {0, 1}] : multiply_transpose(b, x) = multiply(a, x)
  BY <1>2, ProductsAgree
<1> HIDE DEF b
<1>4. \A y \in [1..a.lines -> {0, 1}] : multiply_transpose(Reordered(b), y) = multiply(b, y)
  BY <1>1, <1>2, ProductsAgree
<1> QED
  BY <1>1, <1>3, <1>4 DEF Agree, b
================================================================================
