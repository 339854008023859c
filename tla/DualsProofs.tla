------------------------------- MODULE DualsProofs -------------------------------
(***************************************************************************)
(* What the multipliers prove, for every problem and every size.           *)
(*                                                                         *)
(* A Farkas certificate is sound because the two ranges hold one and the   *)
(* same number at any feasible point: the weighted sum of the activities.  *)
(* The slackness check and the bound of the duality gap rest on the        *)
(* Lagrangian identity  c x = (c - y A) x + y (A x),  whose terms a        *)
(* genuine pair meets one by one.                                          *)
(***************************************************************************)
EXTENDS Duals, ArithmeticProofs

(***************************************************************************)
(* Products                                                                *)
(***************************************************************************)

\* Multiplication by a natural number keeps the order.
LEMMA ProductOrder ==
  ASSUME NEW m \in Nat, NEW a \in Int, NEW b \in Int, a <= b
  PROVE  m * a <= m * b
<1>1. m * (b - a) >= 0
  <2>1. b - a \in Nat
    OBVIOUS
  <2> DEFINE d == b - a
  <2>2. m * d \in Nat
    BY <2>1
  <2> QED
    BY <2>2
<1>2. m * (b - a) = m * b - m * a
  OBVIOUS
<1>3. m * b \in Int /\ m * a \in Int
  OBVIOUS
<1> QED
  BY <1>1, <1>2, <1>3

\* A negative multiplier reverses the order.
LEMMA ProductReverse ==
  ASSUME NEW m \in Int, m < 0, NEW a \in Int, NEW b \in Int, a <= b
  PROVE  m * b <= m * a
<1> DEFINE n == -m
<1>1. n \in Nat
  OBVIOUS
<1>2. n * a <= n * b
  <2> HIDE DEF n
  <2> QED
    BY <1>1, ProductOrder
<1>3. n * a = -(m * a) /\ n * b = -(m * b) /\ m * a \in Int /\ m * b \in Int
  OBVIOUS
<1> QED
  BY <1>2, <1>3

\* A factor other than zero may be cancelled.
LEMMA ProductCancel ==
  ASSUME NEW m \in Int, m # 0, NEW a \in Int, NEW b \in Int, m * a = m * b
  PROVE  a = b
<1> DEFINE d == a - b
<1>1. m * d = 0
  BY m * d = m * a - m * b
<1>2. d \in Int
  OBVIOUS
<1>3. d = 0
  <2> HIDE DEF d
  <2> QED
    BY <1>1, <1>2
<1> QED
  BY <1>3

\* The reach of a range is a natural number, and covers both ends.
LEMMA ReachCovers ==
  ASSUME NEW m \in Int, NEW lo \in Bound, NEW hi \in Bound
  PROVE  /\ Reach(m, lo, hi) \in Nat
         /\ \A b \in {lo, hi} :
              is_finite_bound(b) => -Reach(m, lo, hi) <= m * b /\ m * b <= Reach(m, lo, hi)
<1> DEFINE n == Magnitude(m)
           s == IF is_finite_bound(lo) THEN Magnitude(lo) ELSE 0
           t == IF is_finite_bound(hi) THEN Magnitude(hi) ELSE 0
<1>1. lo \in Int /\ hi \in Int
  BY InfinityAssumption DEF Bound
<1>2. n \in Nat /\ s \in Nat /\ t \in Nat /\ (m = n \/ m = -n)
  BY <1>1 DEF Magnitude
<1>3. Reach(m, lo, hi) = n * (s + t)
  BY DEF Reach
<1>4. ASSUME NEW b \in Int, -(s + t) <= b, b <= s + t
      PROVE  -(n * (s + t)) <= m * b /\ m * b <= n * (s + t)
  <2> DEFINE r == s + t
  <2>1. r \in Nat /\ -r <= b /\ b <= r /\ -r \in Int
    BY <1>2, <1>4
  <2> HIDE DEF r, n
  <2>2. n * b <= n * r /\ n * (-r) <= n * b
    BY <1>2, <2>1, ProductOrder
  <2>3. n * (-r) = -(n * r) /\ (-n) * b = -(n * b) /\ n * b \in Int /\ n * r \in Int
    BY <1>2, <2>1
  <2>4. -(n * r) <= m * b /\ m * b <= n * r
    <3>1. CASE m = n
      BY <2>2, <2>3, <3>1
    <3>2. CASE m = -n
      BY <2>2, <2>3, <3>2
    <3> QED
      BY <1>2, <3>1, <3>2
  <2> QED
    BY <2>4 DEF r
<1>5. ASSUME NEW b \in {lo, hi}, is_finite_bound(b)
      PROVE  -(s + t) <= b /\ b <= s + t
  BY <1>1, <1>2, <1>5 DEF Magnitude
<1>6. n * (s + t) \in Nat
  BY <1>2
<1> QED
  <2> HIDE DEF n, s, t
  <2> QED
    BY <1>1, <1>3, <1>4, <1>5, <1>6

(***************************************************************************)
(* Sums                                                                    *)
(***************************************************************************)

\* The rows and the columns are finite.
LEMMA FiniteShape == IsFiniteSet(Rows) /\ IsFiniteSet(Cols)
BY FS_Interval, ShapeAssumption DEF Rows, Cols

\* A sum lies between bounds of its terms' magnitudes, and so does each term.
LEMMA SumReach ==
  ASSUME NEW K, IsFiniteSet(K), NEW f, NEW r,
         \A k \in K : r[k] \in Nat /\ f[k] \in Int /\ -r[k] <= f[k] /\ f[k] <= r[k]
  PROVE  /\ SumOver(r, K) \in Nat
         /\ -SumOver(r, K) <= SumOver(f, K) /\ SumOver(f, K) <= SumOver(r, K)
<1> DEFINE n == [k \in K |-> -r[k]]
           o == [k \in K |-> 0]
<1>1. \A k \in K : /\ n[k] = (-1) * r[k] /\ n[k] \in Int /\ n[k] <= f[k]
                   /\ o[k] = 0 /\ o[k] \in Int /\ o[k] <= r[k] /\ r[k] \in Int
  OBVIOUS
<1> HIDE DEF n, o
<1>2. SumOver(n, K) = (-1) * SumOver(r, K)
  BY <1>1, SumScale
<1>3. SumOver(n, K) <= SumOver(f, K) /\ SumOver(f, K) <= SumOver(r, K)
  BY <1>1, SumMonotone
<1>4. SumOver(o, K) = 0 /\ SumOver(o, K) <= SumOver(r, K)
  BY <1>1, SumOfZeros, SumMonotone
<1>5. SumOver(r, K) \in Int
  BY <1>1, SumType
<1> QED
  BY <1>2, <1>3, <1>4, <1>5

\* A term is no larger than the sum of all reaches.
LEMMA TermReach ==
  ASSUME NEW K, IsFiniteSet(K), NEW r, \A k \in K : r[k] \in Nat, NEW a \in K
  PROVE  r[a] <= SumOver(r, K)
<1>1. SumOver(r, K) = r[a] + SumOver(r, K \ {a})
  BY SumRemove
<1>2. SumOver(r, K \ {a}) \in Nat
  <2>1. IsFiniteSet(K \ {a}) /\ \A k \in K \ {a} : -r[k] <= r[k]
    BY FS_RemoveElement
  <2> QED
    BY <2>1, SumReach
<1> QED
  BY <1>1, <1>2

\* Some numbers: the factors and the values that the terms of a sum have.
AreWeighted(K, m, lo, hi, v, w, r) ==
  /\ IsFiniteSet(K)
  /\ \A k \in K : /\ m[k] \in Int /\ v[k] \in Int
                  /\ lo[k] \in Bound /\ hi[k] \in Bound
                  /\ Within(v[k], lo[k], hi[k])
                  /\ w[k] = m[k] * v[k]
                  /\ r[k] = Reach(m[k], lo[k], hi[k])
  /\ SumOver(r, K) < kInfinity

\* The range of a term holds the term at any value between the bounds.
LEMMA TermHolds ==
  ASSUME NEW m \in Int, NEW lo \in Bound, NEW hi \in Bound, NEW v \in Int, Within(v, lo, hi)
  PROVE  LET t == term_range(m, lo, hi)
             r == Reach(m, lo, hi)
         IN  /\ \/ t.lo = -kInfinity
                \/ t.lo \in Int /\ t.lo <= m * v /\ -r <= t.lo /\ t.lo <= r
             /\ \/ t.hi = kInfinity
                \/ t.hi \in Int /\ m * v <= t.hi /\ -r <= t.hi /\ t.hi <= r
<1> DEFINE t == term_range(m, lo, hi)
           r == Reach(m, lo, hi)
<1>1. r \in Nat /\ \A b \in {lo, hi} : is_finite_bound(b) => -r <= m * b /\ m * b <= r
  BY ReachCovers
<1>2. /\ lo \in Int /\ hi \in Int /\ kInfinity \in Nat \ {0}
      /\ is_finite_bound(lo) => m * lo \in Int /\ lo <= v
      /\ is_finite_bound(hi) => m * hi \in Int /\ v <= hi
      /\ ~is_finite_bound(lo) => lo = -kInfinity
      /\ ~is_finite_bound(hi) => hi = kInfinity
  BY InfinityAssumption DEF Bound, Within, AtLeast, AtMost, is_finite_bound
<1>3. CASE m = 0
  <2>1. t = [lo |-> 0, hi |-> 0] /\ m * v = 0
    BY <1>3 DEF term_range
  <2> HIDE DEF t, r
  <2>2. QED
    BY <1>1, <2>1 DEF t, r
<1>4. CASE m > 0
  <2>1. t.lo = Times(m, lo) /\ t.hi = Times(m, hi)
    BY <1>4 DEF term_range
  <2>2. Times(m, lo) = IF is_finite_bound(lo) THEN m * lo ELSE -kInfinity
    BY <1>2, <1>4 DEF Times
  <2>3. Times(m, hi) = IF is_finite_bound(hi) THEN m * hi ELSE kInfinity
    BY <1>2, <1>4 DEF Times
  <2>4. is_finite_bound(lo) => m * lo <= m * v
    BY <1>2, <1>4, ProductOrder
  <2>5. is_finite_bound(hi) => m * v <= m * hi
    BY <1>2, <1>4, ProductOrder
  <2> HIDE DEF t, r
  <2> QED
    BY <1>1, <1>2, <2>1, <2>2, <2>3, <2>4, <2>5 DEF t, r
<1>5. CASE m < 0
  <2>1. t.lo = Times(m, hi) /\ t.hi = Times(m, lo)
    BY <1>5 DEF term_range
  <2>2. Times(m, lo) = IF is_finite_bound(lo) THEN m * lo ELSE kInfinity
    BY <1>2, <1>5 DEF Times
  <2>3. Times(m, hi) = IF is_finite_bound(hi) THEN m * hi ELSE -kInfinity
    BY <1>2, <1>5 DEF Times
  <2>4. is_finite_bound(lo) => m * v <= m * lo
    BY <1>2, <1>5, ProductReverse
  <2>5. is_finite_bound(hi) => m * hi <= m * v
    BY <1>2, <1>5, ProductReverse
  <2> HIDE DEF t, r
  <2> QED
    BY <1>1, <1>2, <2>1, <2>2, <2>3, <2>4, <2>5 DEF t, r
<1> QED
  BY <1>3, <1>4, <1>5

\* Terms that are each no larger than another's, or infinitely small, sum up
\* to no more than the others do.
LEMMA LowSum ==
  ASSUME NEW K, IsFiniteSet(K), NEW w, NEW r, NEW f, DOMAIN f = K, SumOver(r, K) < kInfinity,
         \A k \in K : /\ w[k] \in Int /\ r[k] \in Nat
                      /\ \/ f[k] = -kInfinity
                         \/ f[k] \in Int /\ f[k] <= w[k] /\ -r[k] <= f[k] /\ f[k] <= r[k]
  PROVE  \/ accumulate(f) = -kInfinity
         \/ is_finite_bound(accumulate(f)) /\ accumulate(f) \in Int /\ accumulate(f) <= SumOver(w, K)
<1>1. \A k \in K : r[k] <= SumOver(r, K)
  BY TermReach
<1>2. SumOver(r, K) \in Int /\ kInfinity \in Nat \ {0}
  BY SumType, InfinityAssumption
<1>3. \A k \in K : is_finite_bound(f[k]) \/ f[k] = -kInfinity
  BY <1>1, <1>2 DEF is_finite_bound
<1>4. Infinite(f) = {} \/ Infinite(f) = {-kInfinity}
  BY <1>3 DEF Infinite
<1>5. CASE Infinite(f) = {}
  <2>1. \A k \in K : is_finite_bound(f[k])
    BY <1>5 DEF Infinite
  <2>2. \A k \in K : f[k] \in Int /\ f[k] <= w[k] /\ -r[k] <= f[k] /\ f[k] <= r[k]
    BY <2>1, <1>2 DEF is_finite_bound
  <2>3. SumOver(f, K) <= SumOver(w, K) /\ SumOver(f, K) \in Int
    BY <2>2, SumMonotone, SumType
  <2>4. -SumOver(r, K) <= SumOver(f, K) /\ SumOver(f, K) <= SumOver(r, K)
    BY <2>2, SumReach
  <2>5. accumulate(f) = SumOver(f, K)
    BY <1>5 DEF accumulate
  <2> QED
    BY <1>2, <2>3, <2>4, <2>5 DEF is_finite_bound
<1>6. CASE Infinite(f) = {-kInfinity}
  <2>1. {-kInfinity} # {kInfinity} /\ {-kInfinity} # {}
    BY <1>2
  <2> QED
    BY <1>6, <2>1 DEF accumulate
<1> QED
  BY <1>4, <1>5, <1>6

\* Terms that are each no smaller than another's, or infinitely large, sum up
\* to no less than the others do.
LEMMA HighSum ==
  ASSUME NEW K, IsFiniteSet(K), NEW w, NEW r, NEW f, DOMAIN f = K, SumOver(r, K) < kInfinity,
         \A k \in K : /\ w[k] \in Int /\ r[k] \in Nat
                      /\ \/ f[k] = kInfinity
                         \/ f[k] \in Int /\ w[k] <= f[k] /\ -r[k] <= f[k] /\ f[k] <= r[k]
  PROVE  \/ accumulate(f) = kInfinity
         \/ is_finite_bound(accumulate(f)) /\ accumulate(f) \in Int /\ SumOver(w, K) <= accumulate(f)
<1>1. \A k \in K : r[k] <= SumOver(r, K)
  BY TermReach
<1>2. SumOver(r, K) \in Int /\ kInfinity \in Nat \ {0}
  BY SumType, InfinityAssumption
<1>3. \A k \in K : is_finite_bound(f[k]) \/ f[k] = kInfinity
  BY <1>1, <1>2 DEF is_finite_bound
<1>4. Infinite(f) = {} \/ Infinite(f) = {kInfinity}
  BY <1>3 DEF Infinite
<1>5. CASE Infinite(f) = {}
  <2>1. \A k \in K : is_finite_bound(f[k])
    BY <1>5 DEF Infinite
  <2>2. \A k \in K : f[k] \in Int /\ w[k] <= f[k] /\ -r[k] <= f[k] /\ f[k] <= r[k]
    BY <2>1, <1>2 DEF is_finite_bound
  <2>3. SumOver(w, K) <= SumOver(f, K) /\ SumOver(f, K) \in Int
    BY <2>2, SumMonotone, SumType
  <2>4. -SumOver(r, K) <= SumOver(f, K) /\ SumOver(f, K) <= SumOver(r, K)
    BY <2>2, SumReach
  <2>5. accumulate(f) = SumOver(f, K)
    BY <1>5 DEF accumulate
  <2> QED
    BY <1>2, <2>3, <2>4, <2>5 DEF is_finite_bound
<1>6. CASE Infinite(f) = {kInfinity}
  BY <1>6 DEF accumulate
<1> QED
  BY <1>4, <1>5, <1>6

\* A side of the certificate, if it is made of numbers, holds the weighted sum.
LEMMA SideHolds ==
  ASSUME NEW K, NEW m, NEW lo, NEW hi, NEW v, NEW w, NEW r, NEW range,
         AreWeighted(K, m, lo, hi, v, w, r), DOMAIN range = K,
         \A k \in K : range[k] = term_range(m[k], lo[k], hi[k])
  PROVE  LET a == Accumulated(range)
         IN  /\ \/ a.lo = -kInfinity
                \/ is_finite_bound(a.lo) /\ a.lo \in Int /\ a.lo <= SumOver(w, K)
             /\ \/ a.hi = kInfinity
                \/ is_finite_bound(a.hi) /\ a.hi \in Int /\ SumOver(w, K) <= a.hi
<1> DEFINE f == [k \in DOMAIN range |-> range[k].lo]
           g == [k \in DOMAIN range |-> range[k].hi]
<1>1. ASSUME NEW k \in K
      PROVE  /\ w[k] \in Int /\ r[k] \in Nat
             /\ \/ f[k] = -kInfinity
                \/ f[k] \in Int /\ f[k] <= w[k] /\ -r[k] <= f[k] /\ f[k] <= r[k]
             /\ \/ g[k] = kInfinity
                \/ g[k] \in Int /\ w[k] <= g[k] /\ -r[k] <= g[k] /\ g[k] <= r[k]
  <2>1. /\ m[k] \in Int /\ v[k] \in Int /\ lo[k] \in Bound /\ hi[k] \in Bound
        /\ Within(v[k], lo[k], hi[k])
        /\ w[k] = m[k] * v[k] /\ r[k] = Reach(m[k], lo[k], hi[k])
    BY DEF AreWeighted
  <2>2. w[k] \in Int
    BY <2>1
  <2>3. r[k] \in Nat
    BY <2>1, ReachCovers
  <2>4. f[k] = term_range(m[k], lo[k], hi[k]).lo /\ g[k] = term_range(m[k], lo[k], hi[k]).hi
    OBVIOUS
  <2> HIDE DEF f, g
  <2> QED
    BY <2>1, <2>2, <2>3, <2>4, TermHolds
<1>2. IsFiniteSet(K) /\ SumOver(r, K) < kInfinity /\ DOMAIN f = K /\ DOMAIN g = K
  BY DEF AreWeighted
<1>3. Accumulated(range).lo = accumulate(f) /\ Accumulated(range).hi = accumulate(g)
  BY DEF Accumulated
<1> HIDE DEF f, g
<1>4. \/ accumulate(f) = -kInfinity
      \/ /\ is_finite_bound(accumulate(f)) /\ accumulate(f) \in Int
         /\ accumulate(f) <= SumOver(w, K)
  BY <1>1, <1>2, LowSum
<1>5. \/ accumulate(g) = kInfinity
      \/ /\ is_finite_bound(accumulate(g)) /\ accumulate(g) \in Int
         /\ SumOver(w, K) <= accumulate(g)
  BY <1>1, <1>2, HighSum
<1> QED
  BY <1>3, <1>4, <1>5

(***************************************************************************)
(* A problem's weighted sums                                               *)
(***************************************************************************)

\* The parts of a problem, and what is computed from them, are integers.
LEMMA ProblemNumbers ==
  ASSUME NEW p \in Problems, NEW u \in [Rows -> Multipliers], NEW v \in [Cols -> Int]
  PROVE  /\ \A i \in Rows : /\ u[i] \in Int /\ p.row_lower[i] \in Bound /\ p.row_upper[i] \in Bound
                            /\ \A j \in Cols : p.A[i][j] \in Int
                            /\ Activity(p, v, i, Cols) \in Int
         /\ \A j \in Cols : /\ v[j] \in Int /\ p.objective[j] \in Int
                            /\ p.col_lower[j] \in Bound /\ p.col_upper[j] \in Bound
                            /\ MultiplyTranspose(p, u, j) \in Int
                            /\ ReducedCost(p, u, j, Rows) \in Int
                            /\ ReducedCost(p, u, j, Rows)
                                 = p.objective[j] - MultiplyTranspose(p, u, j)
         /\ p.minimize \in BOOLEAN
         /\ Cost(p, v, Cols) \in Int
<1>1. p \in Problem
  BY ProblemsAssumption
<1>2. \A i \in Rows : /\ u[i] \in Int /\ p.row_lower[i] \in Bound /\ p.row_upper[i] \in Bound
                      /\ \A j \in Cols : p.A[i][j] \in Int
  BY <1>1, GridAssumption DEF Problem
<1>3. \A j \in Cols : /\ v[j] \in Int /\ p.objective[j] \in Int
                      /\ p.col_lower[j] \in Bound /\ p.col_upper[j] \in Bound
  BY <1>1 DEF Problem
<1>4. ASSUME NEW i \in Rows PROVE Activity(p, v, i, Cols) \in Int
  <2> DEFINE f == [j \in Cols |-> p.A[i][j] * v[j]]
  <2>1. \A j \in Cols : f[j] \in Int
    BY <1>2, <1>3
  <2> HIDE DEF f
  <2>2. SumOver(f, Cols) \in Int
    BY <2>1, FiniteShape, SumType
  <2> QED
    BY <2>2 DEF f, Activity
<1>5. ASSUME NEW j \in Cols PROVE MultiplyTranspose(p, u, j) \in Int
  <2> DEFINE f == [i \in Rows |-> p.A[i][j] * u[i]]
  <2>1. \A i \in Rows : f[i] \in Int
    BY <1>2
  <2> HIDE DEF f
  <2>2. SumOver(f, Rows) \in Int
    BY <2>1, FiniteShape, SumType
  <2> QED
    BY <2>2 DEF f, MultiplyTranspose
<1>6. \A j \in Cols : /\ ReducedCost(p, u, j, Rows) = p.objective[j] - MultiplyTranspose(p, u, j)
                      /\ ReducedCost(p, u, j, Rows) \in Int
  BY <1>3, <1>5 DEF ReducedCost, MultiplyTranspose
<1>7. Cost(p, v, Cols) \in Int
  <2> DEFINE f == [j \in Cols |-> p.objective[j] * v[j]]
  <2>1. \A j \in Cols : f[j] \in Int
    BY <1>3
  <2> HIDE DEF f
  <2>2. SumOver(f, Cols) \in Int
    BY <2>1, FiniteShape, SumType
  <2> QED
    BY <2>2 DEF f, Cost
<1>8. p.minimize \in BOOLEAN
  BY <1>1 DEF Problem
<1> QED
  BY <1>2, <1>3, <1>4, <1>5, <1>6, <1>7, <1>8

\* The weighted sum of the activities, and the same sum column by column.
RowTerms(p, u, v) == [i \in Rows |-> u[i] * Activity(p, v, i, Cols)]
ColTerms(p, u, v) == [j \in Cols |-> MultiplyTranspose(p, u, j) * v[j]]
CostTerms(p, u, v) == [j \in Cols |-> ReducedCost(p, u, j, Rows) * v[j]]

\* Both sides of a certificate weigh the same sum.
LEMMA SidesAgree ==
  ASSUME NEW p \in Problems, NEW u \in [Rows -> Multipliers], NEW v \in [Cols -> Int]
  PROVE  SumOver(RowTerms(p, u, v), Rows) = SumOver(ColTerms(p, u, v), Cols)
<1> DEFINE f == RowTerms(p, u, v)
           g == ColTerms(p, u, v)
<1>1. /\ \A i \in Rows : f[i] = u[i] * Along(p.A, v, i, Cols)
      /\ \A j \in Cols : g[j] = Across(p.A, u, j, Rows) * v[j]
  BY DEF RowTerms, ColTerms, Activity, MultiplyTranspose, Along, Across
<1> HIDE DEF f, g
<1>2. AreTransposed(f, g, p.A, u, v, Rows, Cols)
  BY <1>1, FiniteShape, ProblemNumbers DEF AreTransposed
<1>3. SumOver(f, Rows) = SumOver(g, Cols)
  BY <1>2, SumTranspose
<1> QED
  BY <1>3 DEF f, g

\* The Lagrangian: the objective is what the reduced costs and the weighted
\* activities make together.
LEMMA CostSplits ==
  ASSUME NEW p \in Problems, NEW u \in [Rows -> Multipliers], NEW v \in [Cols -> Int]
  PROVE  /\ SumOver(CostTerms(p, u, v), Cols) \in Int
         /\ SumOver(RowTerms(p, u, v), Rows) \in Int
         /\ Cost(p, v, Cols)
              = SumOver(CostTerms(p, u, v), Cols) + SumOver(RowTerms(p, u, v), Rows)
<1> DEFINE f == CostTerms(p, u, v)
           g == RowTerms(p, u, v)
           h == [j \in Cols |-> p.objective[j] * v[j]]
<1>1. \A j \in Cols : /\ ReducedCost(p, u, j, Rows) = p.objective[j] - MultiplyTranspose(p, u, j)
                      /\ MultiplyTranspose(p, u, j) = Across(p.A, u, j, Rows)
  BY ProblemNumbers DEF MultiplyTranspose, Across
<1>2. /\ \A i \in Rows : g[i] = u[i] * Along(p.A, v, i, Cols)
      /\ \A j \in Cols : f[j] = ReducedCost(p, u, j, Rows) * v[j]
      /\ \A j \in Cols : h[j] = p.objective[j] * v[j]
  BY DEF RowTerms, CostTerms, Activity, Along
<1>3. Cost(p, v, Cols) = SumOver(h, Cols)
  BY DEF Cost
<1>4. (\A j \in Cols : f[j] \in Int) /\ (\A i \in Rows : g[i] \in Int)
  BY ProblemNumbers DEF RowTerms, CostTerms
<1> HIDE DEF f, g, h
<1>5. \A j \in Cols : f[j] = (p.objective[j] - Across(p.A, u, j, Rows)) * v[j]
  BY <1>1, <1>2
<1>6. AreLagrangian(f, g, h, p.A, p.objective, u, v, Rows, Cols)
  BY <1>2, <1>5, FiniteShape, ProblemNumbers DEF AreLagrangian
<1>7. SumOver(h, Cols) = SumOver(f, Cols) + SumOver(g, Rows)
  BY <1>6, SumLagrange
<1>8. SumOver(f, Cols) \in Int /\ SumOver(g, Rows) \in Int
  BY <1>4, FiniteShape, SumType
<1> QED
  BY <1>3, <1>7, <1>8 DEF f, g

(***************************************************************************)
(* The certificate                                                         *)
(***************************************************************************)

\* No certificate speaks against a problem with a feasible point, on the grid
\* or off it.
LEMMA FeasibleIsNotCertified ==
  ASSUME NEW p \in Problems, NEW u \in [Rows -> Multipliers], NEW v \in [Cols -> Int],
         Feasible(p, v)
  PROVE  ~Disjoint(row_side_range(p, u), column_side_range(p, u))
<1> DEFINE product == [j \in Cols |-> MultiplyTranspose(p, u, j)]
           activity == [i \in Rows |-> Activity(p, v, i, Cols)]
           rows == [i \in Rows |-> term_range(u[i], p.row_lower[i], p.row_upper[i])]
           cols == [j \in Cols |->
                      term_range(MultiplyTranspose(p, u, j), p.col_lower[j], p.col_upper[j])]
           rowReach == [i \in Rows |-> Reach(u[i], p.row_lower[i], p.row_upper[i])]
           colReach == [j \in Cols |->
                          Reach(MultiplyTranspose(p, u, j), p.col_lower[j], p.col_upper[j])]
           S == SumOver(RowTerms(p, u, v), Rows)
           r == Accumulated(rows)
           c == Accumulated(cols)
<1>1. /\ SumOver(rowReach, Rows) < kInfinity
      /\ SumOver(colReach, Cols) < kInfinity
  BY MagnitudeAssumption
<1>2. AreWeighted(Rows, u, p.row_lower, p.row_upper, activity, RowTerms(p, u, v), rowReach)
  <2>1. \A i \in Rows : /\ activity[i] = Activity(p, v, i, Cols)
                        /\ RowTerms(p, u, v)[i] = u[i] * activity[i]
                        /\ rowReach[i] = Reach(u[i], p.row_lower[i], p.row_upper[i])
    BY DEF RowTerms
  <2>2. \A i \in Rows : Within(Activity(p, v, i, Cols), p.row_lower[i], p.row_upper[i])
    BY DEF Feasible
  <2> HIDE DEF activity, rowReach
  <2> QED
    BY <1>1, <2>1, <2>2, FiniteShape, ProblemNumbers DEF AreWeighted
<1>3. AreWeighted(Cols, product, p.col_lower, p.col_upper, v, ColTerms(p, u, v), colReach)
  <2>1. \A j \in Cols : /\ product[j] = MultiplyTranspose(p, u, j)
                        /\ ColTerms(p, u, v)[j] = product[j] * v[j]
                        /\ colReach[j] = Reach(product[j], p.col_lower[j], p.col_upper[j])
    BY DEF ColTerms
  <2>2. \A j \in Cols : Within(v[j], p.col_lower[j], p.col_upper[j])
    BY DEF Feasible
  <2> HIDE DEF product, colReach
  <2> QED
    BY <1>1, <2>1, <2>2, FiniteShape, ProblemNumbers DEF AreWeighted
<1>4. /\ DOMAIN rows = Rows /\ DOMAIN cols = Cols
      /\ \A i \in Rows : rows[i] = term_range(u[i], p.row_lower[i], p.row_upper[i])
      /\ \A j \in Cols : cols[j] = term_range(product[j], p.col_lower[j], p.col_upper[j])
  OBVIOUS
<1>5. row_side_range(p, u) = r /\ column_side_range(p, u) = c
  BY DEF row_side_range, column_side_range
<1>6. S \in Int /\ S = SumOver(ColTerms(p, u, v), Cols) /\ kInfinity \in Nat \ {0}
  BY CostSplits, SidesAgree, InfinityAssumption
<1> HIDE DEF product, activity, rows, cols, rowReach, colReach
<1>7. /\ r.lo = -kInfinity \/ (is_finite_bound(r.lo) /\ r.lo \in Int /\ r.lo <= S)
      /\ r.hi = kInfinity \/ (is_finite_bound(r.hi) /\ r.hi \in Int /\ S <= r.hi)
  BY <1>2, <1>4, SideHolds
<1>8. /\ c.lo = -kInfinity \/ (is_finite_bound(c.lo) /\ c.lo \in Int /\ c.lo <= S)
      /\ c.hi = kInfinity \/ (is_finite_bound(c.hi) /\ c.hi \in Int /\ S <= c.hi)
  BY <1>3, <1>4, <1>6, SideHolds
<1>9. ~(r.hi < c.lo) /\ ~(c.hi < r.lo)
  <2> HIDE DEF r, c, S
  <2> QED
    BY <1>6, <1>7, <1>8 DEF is_finite_bound
<1> QED
  BY <1>5, <1>9 DEF Disjoint, disjoint_from

(***************************************************************************)
(* Genuine pairs                                                           *)
(***************************************************************************)

\* The extreme of a term bounds the term, equals it only at a bound, and is
\* what the dual objective of a minimization adds up.
LEMMA ExtremeTerm ==
  ASSUME NEW p, p.minimize \in BOOLEAN, NEW m \in Int, NEW lo \in Bound, NEW hi \in Bound,
         NEW v \in Int, Within(v, lo, hi), is_finite_bound(Extreme(p, m, lo, hi))
  PROVE  /\ Extreme(p, m, lo, hi) \in Int
         /\ p.minimize => Extreme(p, m, lo, hi) <= m * v
         /\ ~p.minimize => m * v <= Extreme(p, m, lo, hi)
         /\ Extreme(p, m, lo, hi) = m * v => m = 0 \/ AtBound(v, lo, hi)
         /\ p.minimize => inf_over_box(m, lo, hi) = Extreme(p, m, lo, hi)
<1>1. lo \in Int /\ hi \in Int /\ kInfinity \in Nat \ {0}
  BY InfinityAssumption DEF Bound
<1>2. CASE m = 0
  <2>1. Extreme(p, m, lo, hi) = 0 /\ m * v = 0 /\ inf_over_box(m, lo, hi) = 0
    BY <1>2 DEF Extreme, inf_over_box
  <2> QED
    BY <1>2, <2>1
<1>3. CASE m # 0
  <2>1. PICK b \in {lo, hi} : /\ Extreme(p, m, lo, hi) = Times(m, b)
                              /\ (m > 0 <=> p.minimize) => b = lo
                              /\ (m > 0 <=> ~p.minimize) => b = hi
    <3>1. CASE (m > 0) = p.minimize
      BY <1>3, <3>1 DEF Extreme
    <3>2. CASE (m > 0) # p.minimize
      BY <1>3, <3>2 DEF Extreme
    <3> QED
      BY <3>1, <3>2
  <2>2. b \in Int /\ b \in Bound
    BY <1>1
  <2>3. is_finite_bound(b)
    <3>1. SUFFICES ASSUME ~is_finite_bound(b) PROVE FALSE
      OBVIOUS
    <3>2. b = kInfinity \/ b = -kInfinity
      BY <1>1, <2>2, <3>1 DEF Bound, is_finite_bound
    <3>3. Times(m, b) = b \/ Times(m, b) = -b
      BY <1>3, <3>1 DEF Times
    <3> QED
      BY <1>1, <2>1, <3>2, <3>3 DEF is_finite_bound
  <2>4. Extreme(p, m, lo, hi) = m * b /\ m * b \in Int
    BY <2>1, <2>2, <2>3 DEF Times
  <2>5. m * b = m * v => AtBound(v, lo, hi)
    BY <1>1, <1>3, <2>1, <2>2, <2>3, ProductCancel DEF AtBound
  <2>6. CASE p.minimize /\ m > 0
    <3>1. b = lo
      BY <2>1, <2>6
    <3>2. lo <= v
      BY <2>3, <3>1, <2>6 DEF Within, AtLeast
    <3>3. m * lo <= m * v
      BY <1>1, <2>6, <3>2, ProductOrder
    <3>4. inf_over_box(m, lo, hi) = m * lo
      BY <2>3, <2>6, <3>1 DEF inf_over_box
    <3> QED
      BY <2>4, <2>5, <2>6, <3>1, <3>3, <3>4
  <2>7. CASE p.minimize /\ m < 0
    <3>1. b = hi
      BY <2>1, <2>7
    <3>2. v <= hi
      BY <2>3, <3>1, <2>7 DEF Within, AtMost
    <3>3. m * hi <= m * v
      BY <1>1, <2>7, <3>2, ProductReverse
    <3>4. inf_over_box(m, lo, hi) = m * hi
      BY <2>3, <2>7, <3>1 DEF inf_over_box
    <3> QED
      BY <2>4, <2>5, <2>7, <3>1, <3>3, <3>4
  <2>8. CASE ~p.minimize /\ m > 0
    <3>1. b = hi
      BY <2>1, <2>8
    <3>2. v <= hi
      BY <2>3, <3>1, <2>8 DEF Within, AtMost
    <3>3. m * v <= m * hi
      BY <1>1, <2>8, <3>2, ProductOrder
    <3> QED
      BY <2>4, <2>5, <2>8, <3>1, <3>3
  <2>9. CASE ~p.minimize /\ m < 0
    <3>1. b = lo
      BY <2>1, <2>9
    <3>2. lo <= v
      BY <2>3, <3>1, <2>9 DEF Within, AtLeast
    <3>3. m * v <= m * lo
      BY <1>1, <2>9, <3>2, ProductReverse
    <3> QED
      BY <2>4, <2>5, <2>9, <3>1, <3>3
  <2> QED
    BY <1>3, <2>6, <2>7, <2>8, <2>9
<1> QED
  BY <1>2, <1>3

\* The least value of a term is below the term.
LEMMA InfimumTerm ==
  ASSUME NEW m \in Int, NEW lo \in Bound, NEW hi \in Bound, NEW v \in Int, Within(v, lo, hi),
         is_finite_bound(inf_over_box(m, lo, hi))
  PROVE  inf_over_box(m, lo, hi) \in Int /\ inf_over_box(m, lo, hi) <= m * v
<1>1. lo \in Int /\ hi \in Int /\ kInfinity \in Nat \ {0}
  BY InfinityAssumption DEF Bound
<1>2. CASE m = 0
  BY <1>2 DEF inf_over_box
<1>3. CASE m > 0
  <2>1. is_finite_bound(lo) /\ inf_over_box(m, lo, hi) = m * lo
    BY <1>1, <1>3 DEF inf_over_box, is_finite_bound
  <2>2. lo <= v
    BY <2>1 DEF Within, AtLeast
  <2>3. m * lo <= m * v
    BY <1>1, <1>3, <2>2, ProductOrder
  <2> QED
    BY <1>1, <2>1, <2>3
<1>4. CASE m < 0
  <2>1. is_finite_bound(hi) /\ inf_over_box(m, lo, hi) = m * hi
    BY <1>1, <1>4 DEF inf_over_box, is_finite_bound
  <2>2. v <= hi
    BY <2>1 DEF Within, AtMost
  <2>3. m * hi <= m * v
    BY <1>1, <1>4, <2>2, ProductReverse
  <2> QED
    BY <1>1, <2>1, <2>3
<1> QED
  BY <1>2, <1>3, <1>4

\* The extremes whose sum a genuine pair attains, and the infima that the
\* dual objective sums up.
RowExtremes(p, u) == [i \in Rows |-> Extreme(p, u[i], p.row_lower[i], p.row_upper[i])]
ColExtremes(p, u) ==
  [j \in Cols |-> Extreme(p, ReducedCost(p, u, j, Rows), p.col_lower[j], p.col_upper[j])]
RowInfima(p, u) == [i \in Rows |-> inf_over_box(u[i], p.row_lower[i], p.row_upper[i])]
ColInfima(p, u) ==
  [j \in Cols |-> inf_over_box(ReducedCost(p, u, j, Rows), p.col_lower[j], p.col_upper[j])]

\* A genuine pair meets the Lagrangian bound term by term, and so every dual
\* that is not zero is that of a row or column at a bound.
LEMMA GenuineMeets ==
  ASSUME NEW p \in Problems, NEW u \in [Rows -> Multipliers], NEW v \in [Cols -> Int],
         Genuine(p, v, u)
  PROVE  /\ \A i \in Rows : u[i] = 0 \/ AtBound(Activity(p, v, i, Cols), p.row_lower[i], p.row_upper[i])
         /\ \A j \in Cols : \/ ReducedCost(p, u, j, Rows) = 0
                            \/ AtBound(v[j], p.col_lower[j], p.col_upper[j])
         /\ p.minimize => /\ \A i \in Rows : RowInfima(p, u)[i] = RowExtremes(p, u)[i]
                          /\ \A j \in Cols : ColInfima(p, u)[j] = ColExtremes(p, u)[j]
         /\ \A i \in Rows : RowExtremes(p, u)[i] \in Int
         /\ \A j \in Cols : ColExtremes(p, u)[j] \in Int
<1> DEFINE rows == RowExtremes(p, u)
           cols == ColExtremes(p, u)
           f == RowTerms(p, u, v)
           g == CostTerms(p, u, v)
<1>1. /\ Feasible(p, v)
      /\ Infinite(rows) \cup Infinite(cols) = {}
      /\ SumOver(rows, Rows) + SumOver(cols, Cols) = Cost(p, v, Cols)
  BY DEF Genuine, RowExtremes, ColExtremes
<1>2. /\ \A i \in Rows : is_finite_bound(rows[i])
      /\ \A j \in Cols : is_finite_bound(cols[j])
  BY <1>1 DEF Infinite, RowExtremes, ColExtremes
<1>3. p.minimize \in BOOLEAN
  BY ProblemNumbers
<1>4. ASSUME NEW i \in Rows
      PROVE  /\ rows[i] \in Int /\ f[i] \in Int
             /\ p.minimize => rows[i] <= f[i]
             /\ ~p.minimize => f[i] <= rows[i]
             /\ rows[i] = f[i] =>
                  u[i] = 0 \/ AtBound(Activity(p, v, i, Cols), p.row_lower[i], p.row_upper[i])
             /\ p.minimize => RowInfima(p, u)[i] = rows[i]
  <2>1. /\ u[i] \in Int /\ p.row_lower[i] \in Bound /\ p.row_upper[i] \in Bound
        /\ Activity(p, v, i, Cols) \in Int
    BY ProblemNumbers
  <2>2. Within(Activity(p, v, i, Cols), p.row_lower[i], p.row_upper[i])
    BY <1>1 DEF Feasible
  <2>3. /\ rows[i] = Extreme(p, u[i], p.row_lower[i], p.row_upper[i])
        /\ f[i] = u[i] * Activity(p, v, i, Cols)
        /\ RowInfima(p, u)[i] = inf_over_box(u[i], p.row_lower[i], p.row_upper[i])
    BY DEF RowExtremes, RowTerms, RowInfima
  <2>4. f[i] \in Int
    BY <2>1, <2>3
  <2> HIDE DEF rows, f
  <2> QED
    BY <1>2, <1>3, <2>1, <2>2, <2>3, <2>4, ExtremeTerm
<1>5. ASSUME NEW j \in Cols
      PROVE  /\ cols[j] \in Int /\ g[j] \in Int
             /\ p.minimize => cols[j] <= g[j]
             /\ ~p.minimize => g[j] <= cols[j]
             /\ cols[j] = g[j] =>
                  \/ ReducedCost(p, u, j, Rows) = 0
                  \/ AtBound(v[j], p.col_lower[j], p.col_upper[j])
             /\ p.minimize => ColInfima(p, u)[j] = cols[j]
  <2>1. /\ ReducedCost(p, u, j, Rows) \in Int /\ v[j] \in Int
        /\ p.col_lower[j] \in Bound /\ p.col_upper[j] \in Bound
    BY ProblemNumbers
  <2>2. Within(v[j], p.col_lower[j], p.col_upper[j])
    BY <1>1 DEF Feasible
  <2>3. /\ cols[j] = Extreme(p, ReducedCost(p, u, j, Rows), p.col_lower[j], p.col_upper[j])
        /\ g[j] = ReducedCost(p, u, j, Rows) * v[j]
        /\ ColInfima(p, u)[j]
             = inf_over_box(ReducedCost(p, u, j, Rows), p.col_lower[j], p.col_upper[j])
    BY DEF ColExtremes, CostTerms, ColInfima
  <2>4. g[j] \in Int
    BY <2>1, <2>3
  <2> HIDE DEF cols, g
  <2> QED
    BY <1>2, <1>3, <2>1, <2>2, <2>3, <2>4, ExtremeTerm
<1>6. Cost(p, v, Cols) = SumOver(g, Cols) + SumOver(f, Rows)
  BY CostSplits
<1> HIDE DEF rows, cols, f, g
<1>7. /\ SumOver(rows, Rows) \in Int /\ SumOver(cols, Cols) \in Int
      /\ SumOver(f, Rows) \in Int /\ SumOver(g, Cols) \in Int
  BY <1>4, <1>5, FiniteShape, SumType
<1>8. (\A i \in Rows : rows[i] = f[i]) /\ (\A j \in Cols : cols[j] = g[j])
  <2>1. CASE p.minimize
    <3>1. SumOver(rows, Rows) <= SumOver(f, Rows) /\ SumOver(cols, Cols) <= SumOver(g, Cols)
      BY <1>4, <1>5, <2>1, FiniteShape, SumMonotone
    <3>2. SumOver(rows, Rows) = SumOver(f, Rows) /\ SumOver(cols, Cols) = SumOver(g, Cols)
      BY <1>1, <1>6, <1>7, <3>1
    <3>3. \A i \in Rows : rows[i] = f[i]
      BY <1>4, <2>1, <3>2, FiniteShape, SumTight
    <3>4. \A j \in Cols : cols[j] = g[j]
      BY <1>5, <2>1, <3>2, FiniteShape, SumTight
    <3> QED
      BY <3>3, <3>4
  <2>2. CASE ~p.minimize
    <3>1. SumOver(f, Rows) <= SumOver(rows, Rows) /\ SumOver(g, Cols) <= SumOver(cols, Cols)
      BY <1>4, <1>5, <2>2, FiniteShape, SumMonotone
    <3>2. SumOver(f, Rows) = SumOver(rows, Rows) /\ SumOver(g, Cols) = SumOver(cols, Cols)
      BY <1>1, <1>6, <1>7, <3>1
    <3>3. \A i \in Rows : f[i] = rows[i]
      BY <1>4, <2>2, <3>2, FiniteShape, SumTight
    <3>4. \A j \in Cols : g[j] = cols[j]
      BY <1>5, <2>2, <3>2, FiniteShape, SumTight
    <3> QED
      BY <3>3, <3>4
  <2> QED
    BY <1>3, <2>1, <2>2
<1> QED
  BY <1>4, <1>5, <1>8 DEF rows, cols

\* The bound of a minimization is nowhere above the objective, and meets it at
\* a genuine pair.
LEMMA BoundIsHonest ==
  ASSUME NEW p \in Problems, NEW u \in [Rows -> Multipliers], NEW v \in [Cols -> Int],
         Feasible(p, v), DualObjective(p, u) # NaN
  PROVE  /\ DualObjective(p, u) <= Cost(p, v, Cols)
         /\ p.minimize /\ Genuine(p, v, u) => DualObjective(p, u) = Cost(p, v, Cols)
<1> DEFINE rows == RowInfima(p, u)
           cols == ColInfima(p, u)
           f == RowTerms(p, u, v)
           g == CostTerms(p, u, v)
<1>1. DualObjective(p, u) = IF Infinite(cols) \cup Infinite(rows) # {} THEN NaN
                            ELSE SumOver(cols, Cols) + SumOver(rows, Rows)
  BY DEF DualObjective, RowInfima, ColInfima
<1>2. /\ Infinite(cols) \cup Infinite(rows) = {}
      /\ DualObjective(p, u) = SumOver(cols, Cols) + SumOver(rows, Rows)
  BY <1>1
<1>3. /\ \A i \in Rows : is_finite_bound(rows[i])
      /\ \A j \in Cols : is_finite_bound(cols[j])
  BY <1>2 DEF Infinite, RowInfima, ColInfima
<1>4. \A i \in Rows : rows[i] \in Int /\ f[i] \in Int /\ rows[i] <= f[i]
  <2> TAKE i \in Rows
  <2>1. /\ u[i] \in Int /\ p.row_lower[i] \in Bound /\ p.row_upper[i] \in Bound
        /\ Activity(p, v, i, Cols) \in Int
        /\ Within(Activity(p, v, i, Cols), p.row_lower[i], p.row_upper[i])
    BY ProblemNumbers DEF Feasible
  <2>2. /\ rows[i] = inf_over_box(u[i], p.row_lower[i], p.row_upper[i])
        /\ f[i] = u[i] * Activity(p, v, i, Cols)
    BY DEF RowInfima, RowTerms
  <2>3. f[i] \in Int
    BY <2>1, <2>2
  <2> HIDE DEF rows, f
  <2> QED
    BY <1>3, <2>1, <2>2, <2>3, InfimumTerm
<1>5. \A j \in Cols : cols[j] \in Int /\ g[j] \in Int /\ cols[j] <= g[j]
  <2> TAKE j \in Cols
  <2>1. /\ ReducedCost(p, u, j, Rows) \in Int /\ v[j] \in Int
        /\ p.col_lower[j] \in Bound /\ p.col_upper[j] \in Bound
        /\ Within(v[j], p.col_lower[j], p.col_upper[j])
    BY ProblemNumbers DEF Feasible
  <2>2. /\ cols[j] = inf_over_box(ReducedCost(p, u, j, Rows), p.col_lower[j], p.col_upper[j])
        /\ g[j] = ReducedCost(p, u, j, Rows) * v[j]
    BY DEF ColInfima, CostTerms
  <2>3. g[j] \in Int
    BY <2>1, <2>2
  <2> HIDE DEF cols, g
  <2> QED
    BY <1>3, <2>1, <2>2, <2>3, InfimumTerm
<1>6. Cost(p, v, Cols) = SumOver(g, Cols) + SumOver(f, Rows)
  BY CostSplits
<1>7. ASSUME p.minimize, Genuine(p, v, u)
      PROVE  SumOver(cols, Cols) + SumOver(rows, Rows) = Cost(p, v, Cols)
  <2>1. /\ \A i \in Rows : rows[i] = RowExtremes(p, u)[i]
        /\ \A j \in Cols : cols[j] = ColExtremes(p, u)[j]
    BY <1>7, GenuineMeets
  <2>2. SumOver(RowExtremes(p, u), Rows) + SumOver(ColExtremes(p, u), Cols) = Cost(p, v, Cols)
    BY <1>7 DEF Genuine, RowExtremes, ColExtremes
  <2> HIDE DEF rows, cols
  <2>3. /\ SumOver(rows, Rows) = SumOver(RowExtremes(p, u), Rows)
        /\ SumOver(cols, Cols) = SumOver(ColExtremes(p, u), Cols)
    BY <1>4, <1>5, <2>1, FiniteShape, SumEqual
  <2>4. SumOver(rows, Rows) \in Int /\ SumOver(cols, Cols) \in Int
    BY <1>4, <1>5, FiniteShape, SumType
  <2> QED
    BY <2>2, <2>3, <2>4
<1> HIDE DEF rows, cols, f, g
<1>8. /\ SumOver(rows, Rows) \in Int /\ SumOver(cols, Cols) \in Int
      /\ SumOver(f, Rows) \in Int /\ SumOver(g, Cols) \in Int
      /\ SumOver(rows, Rows) <= SumOver(f, Rows) /\ SumOver(cols, Cols) <= SumOver(g, Cols)
  BY <1>4, <1>5, FiniteShape, SumType, SumMonotone
<1> QED
  BY <1>2, <1>6, <1>7, <1>8

\* A genuine pair violates no slackness.
LEMMA NothingViolated ==
  ASSUME NEW p \in Problems, NEW u \in [Rows -> Multipliers], NEW v \in [Cols -> Int],
         Genuine(p, v, u)
  PROVE  Max({0} \cup Violations(p, v, u)) = 0
<1>1. Violations(p, v, u) \subseteq {0}
  BY GenuineMeets DEF Violations, Magnitude
<1>2. {0} \cup Violations(p, v, u) = {0}
  BY <1>1
<1>3. Max({0}) = 0
  BY DEF Max
<1> QED
  BY <1>2, <1>3

(***************************************************************************)
(* The invariant                                                           *)
(***************************************************************************)

\* What has been computed at each stage belongs to the multipliers and the
\* point that were reported last.
DualsInv ==
  /\ problem \in Problems /\ y \in [Rows -> Multipliers] /\ x \in [Cols -> Grid]
  /\ pc \in {"columns", "certificate"} => row_range = row_side_range(problem, y)
  /\ pc = "certificate" => col_range = column_side_range(problem, y)
  /\ pc = "certified" =>
       certified = Disjoint(row_side_range(problem, y), column_side_range(problem, y))
  /\ pc \in {"gap", "done"} => worst = Max({0} \cup Violations(problem, x, y))
  /\ pc = "done" => dual_obj = DualObjective(problem, y)

\* Nothing has been computed to begin with.
LEMMA DualsInvInit == Init => DualsInv
<1> SUFFICES ASSUME Init PROVE DualsInv
  OBVIOUS
<1>1. Zero(Rows) \in [Rows -> Multipliers] /\ Zero(Cols) \in [Cols -> Grid]
  BY GridAssumption DEF Zero
<1> QED
  BY <1>1 DEF Init, DualsInv

\* Each loop computes its result from what was reported.
LEMMA DualsInvNext == DualsInv /\ [Next]_vars => DualsInv'
<1> SUFFICES ASSUME DualsInv, [Next]_vars PROVE DualsInv'
  OBVIOUS
<1>1. CASE ReportDual
  BY <1>1 DEF ReportDual, DualsInv
<1>2. CASE RowSide
  BY <1>2 DEF RowSide, DualsInv
<1>3. CASE ColumnSide
  BY <1>3 DEF ColumnSide, DualsInv
<1>4. CASE certifies_infeasibility
  BY <1>4 DEF certifies_infeasibility, DualsInv, ranges
<1>5. CASE ReportPrimal
  BY <1>5 DEF ReportPrimal, DualsInv
<1>6. CASE complementary_slackness_violation
  BY <1>6 DEF complementary_slackness_violation, DualsInv
<1>7. CASE duality_gap
  BY <1>7 DEF duality_gap, DualsInv
<1>8. CASE UNCHANGED vars
  BY <1>8 DEF vars, DualsInv, ranges
<1> QED
  BY <1>1, <1>2, <1>3, <1>4, <1>5, <1>6, <1>7, <1>8 DEF Next

\* The invariant is inductive.
LEMMA DualsInvHolds == Spec => []DualsInv
BY DualsInvInit, DualsInvNext, PTL DEF Spec

\* A certificate that passes the check proves the problem infeasible, for
\* every problem, every size and every grid.
THEOREM CertificateSound == Spec => []CertificateIsSound
<1>1. DualsInv => CertificateIsSound
  <2> SUFFICES ASSUME DualsInv, pc = "certified", certified, NEW v \in Points,
                      Feasible(problem, v)
               PROVE  FALSE
    BY DEF CertificateIsSound, Infeasible
  <2>1. problem \in Problems /\ y \in [Rows -> Multipliers] /\ v \in [Cols -> Int]
    BY GridAssumption DEF DualsInv, Points
  <2>2. Disjoint(row_side_range(problem, y), column_side_range(problem, y))
    BY DEF DualsInv
  <2> QED
    BY <2>1, <2>2, FeasibleIsNotCertified
<1> QED
  BY <1>1, DualsInvHolds, PTL

\* Multipliers that prove a point optimal pass the slackness check at it.
THEOREM GenuinePass == Spec => []GenuinePairsPass
<1>1. DualsInv => GenuinePairsPass
  <2> SUFFICES ASSUME DualsInv, pc = "done", Genuine(problem, x, y)
               PROVE  worst = 0
    BY DEF GenuinePairsPass
  <2>1. problem \in Problems /\ y \in [Rows -> Multipliers] /\ x \in [Cols -> Int]
    BY GridAssumption DEF DualsInv
  <2>2. worst = Max({0} \cup Violations(problem, x, y))
    BY DEF DualsInv
  <2> QED
    BY <2>1, <2>2, NothingViolated
<1> QED
  BY <1>1, DualsInvHolds, PTL

\* Weak duality for the bound that PDHG reports: the dual objective of a
\* minimization bounds the objective of every feasible point, and is attained
\* by a genuine pair.
THEOREM MinimumBounded == Spec => []MinimumIsBounded
<1>1. DualsInv => MinimumIsBounded
  <2> SUFFICES ASSUME DualsInv, pc = "done", problem.minimize, dual_obj # NaN,
                      Feasible(problem, x)
               PROVE  /\ dual_obj <= Cost(problem, x, Cols)
                      /\ Genuine(problem, x, y) => dual_obj = Cost(problem, x, Cols)
    BY DEF MinimumIsBounded
  <2>1. problem \in Problems /\ y \in [Rows -> Multipliers] /\ x \in [Cols -> Int]
    BY GridAssumption DEF DualsInv
  <2>2. dual_obj = DualObjective(problem, y)
    BY DEF DualsInv
  <2> QED
    BY <2>1, <2>2, BoundIsHonest
<1> QED
  BY <1>1, DualsInvHolds, PTL
================================================================================
