----------------------------- MODULE PresolveProofs -----------------------------
(***************************************************************************)
(* Proofs about presolve, for any set of problems of any shape, any number *)
(* of rounds, and whatever optimum the solver reports.  They go by the     *)
(* four reductions: every step is one of them, or leaves the reduction     *)
(* alone.  In order: every division is exact, and finite bounds stay       *)
(* finite; the trail can be replayed from its end; the reduced problem has *)
(* the feasible points of the original one, as far as they are worth       *)
(* having; and postsolve restores what the solver found.                   *)
(***************************************************************************)
EXTENDS Presolve, ArithmeticProofs

\* What is a whole number of grains, how fine they are before n divisions, and
\* what may divide and be divided.
Multiple(b, g) == \E k \in Int : b = k * g
Grain(n) == Power(Scale, n)
CostValue == {c \in Int : Multiple(c, Grain(NumRows))}
Divisor == {a \in Int : a # 0 /\ \E k \in Int : Scale = a * k}

\* What the trail may hold.
ColMove == [kind : {"fixed", "empty"}, col : Cols, value : Int, obj_coeff : CostValue,
            rows : SUBSET Rows]
RedundantMove == [kind : {"redundant"}, row : Rows]
SingletonMoves == [kind : {"singleton"}, row : Rows, col : Cols, coeff : Divisor,
                   old_lower : Int, old_upper : Int, new_lower : Int, new_upper : Int]
Move == ColMove \cup RedundantMove \cup SingletonMoves

\* The types of the reduction.
WorkType ==
  /\ problem \in Problems
  /\ col_lower \in [Cols -> Int] /\ col_upper \in [Cols -> Int]
  /\ row_lower \in [Rows -> Int] /\ row_upper \in [Rows -> Int]
  /\ col_active \in [Cols -> BOOLEAN] /\ row_active \in [Rows -> BOOLEAN]
  /\ trail \in Seq(Move)
  /\ objective_constant_delta \in Int

\* What a move removed stays removed.
RemovedInv ==
  \A p \in DOMAIN trail :
    /\ RemovesRow(trail[p]) => ~row_active[trail[p].row]
    /\ RemovesCol(trail[p]) => ~col_active[trail[p].col]

\* The trail is well-formed, and says what has been removed.
TrailInv == WorkType /\ RemovedInv /\ TrailCanBeReplayed

-----------------------------------------------------------------------------
(* The steps *)

\* A step that leaves the reduction alone.
Quiet == UNCHANGED <<problem, bounds, active, trail, objective_constant_delta>>

\* The four reductions, each with the iteration of its loop.
FixStep(j) ==
  /\ col_active[j] /\ ColumnFixed(j)
  /\ fix_column(j, col_lower[j])
  /\ UNCHANGED <<problem, col_lower, col_upper, row_active>>

EmptyStep(j) ==
  /\ col_active[j] /\ Emptied(j) /\ Resolvable(j)
  /\ RemoveColumn("empty", j, EmptyValue(j), {})
  /\ UNCHANGED <<problem, bounds, row_active>>

RedundantMoveOf(i) == [kind |-> "redundant", row |-> i]

RedundantStep(i) ==
  /\ row_active[i] /\ Redundant(i)
  /\ trail' = Append(trail, RedundantMoveOf(i))
  /\ row_active' = [row_active EXCEPT ![i] = FALSE]
  /\ changed' = TRUE
  /\ UNCHANGED <<problem, bounds, col_active, objective_constant_delta>>

SingletonStep(i) ==
  /\ row_active[i] /\ Singleton(i)
  /\ LET move == SingletonMove(i)
     IN  /\ ~crossed(move.new_lower, move.new_upper)
         /\ col_lower' = [col_lower EXCEPT ![move.col] = move.new_lower]
         /\ col_upper' = [col_upper EXCEPT ![move.col] = move.new_upper]
         /\ trail' = Append(trail, move)
  /\ row_active' = [row_active EXCEPT ![i] = FALSE]
  /\ changed' = TRUE
  /\ UNCHANGED <<problem, row_lower, row_upper, col_active, objective_constant_delta>>

\* A step that reduces the problem.
Reduction ==
  \/ \E j \in Cols : FixStep(j) \/ EmptyStep(j)
  \/ \E i \in Rows : RedundantStep(i) \/ SingletonStep(i)

\* Every step of presolve or postsolve reduces, or leaves the reduction alone;
\* a reduction asks for another round.
LEMMA Steps == ASSUME [Next]_vars PROVE Quiet \/ (Reduction /\ changed' = TRUE)
<1>1. CASE ScanColumn
  <2> DEFINE j == cursor
  <2>1. CASE col_active[j] /\ ColumnFixed(j) /\ ~crossed(col_lower[j], col_upper[j])
    <3>1. FixStep(j) /\ j \in Cols /\ changed' = TRUE
      BY <1>1, <2>1 DEF ScanColumn, FixStep, fix_column, RemoveColumn
    <3> QED
      BY <3>1 DEF Reduction
  <2>2. CASE ~(col_active[j] /\ ColumnFixed(j) /\ ~crossed(col_lower[j], col_upper[j]))
    BY <1>1, <2>2 DEF ScanColumn, FoundInfeasible, Quiet, reduction
  <2> QED
    BY <2>1, <2>2
<1>2. CASE ScanEmptyColumn
  <2> DEFINE j == cursor
  <2>1. CASE col_active[j] /\ Emptied(j) /\ Resolvable(j)
    <3>1. EmptyStep(j) /\ j \in Cols /\ changed' = TRUE
      BY <1>2, <2>1 DEF ScanEmptyColumn, EmptyStep, RemoveColumn
    <3> QED
      BY <3>1 DEF Reduction
  <2>2. CASE ~(col_active[j] /\ Emptied(j) /\ Resolvable(j))
    BY <1>2, <2>2 DEF ScanEmptyColumn, Quiet, reduction
  <2> QED
    BY <2>1, <2>2
<1>3. CASE ScanRow
  <2>1. PICK i \in Rows : SkipRow(i) \/ RemoveRedundantRow(i) \/ RowCannotHold(i)
                          \/ TightenSingleton(i)
    BY <1>3 DEF ScanRow
  <2>2. CASE SkipRow(i) \/ RowCannotHold(i)
    BY <2>2 DEF SkipRow, RowCannotHold, FoundInfeasible, Quiet, reduction
  <2>3. CASE RemoveRedundantRow(i)
    <3>1. RedundantStep(i) /\ changed' = TRUE
      BY <2>3 DEF RemoveRedundantRow, RemoveRow, RedundantStep, RedundantMoveOf, bounds
    <3> QED
      BY <3>1 DEF Reduction
  <2>4. CASE TightenSingleton(i)
    <3>1. CASE crossed(SingletonMove(i).new_lower, SingletonMove(i).new_upper)
      BY <2>4, <3>1 DEF TightenSingleton, FoundInfeasible, Quiet
    <3>2. CASE ~crossed(SingletonMove(i).new_lower, SingletonMove(i).new_upper)
      <4>1. SingletonStep(i) /\ changed' = TRUE
        BY <2>4, <3>2 DEF TightenSingleton, RemoveRow, SingletonStep
      <4> QED
        BY <4>1 DEF Reduction
    <3> QED
      BY <3>1, <3>2
  <2> QED
    BY <2>1, <2>2, <2>3, <2>4
<1>4. CASE RejectProblem \/ EndColumns \/ EndEmpties \/ EndRound
  BY <1>4 DEF RejectProblem, EndColumns, EndEmpties, EndRound, reduction, Quiet
<1>5. CASE Solve \/ GiveUp \/ Replay \/ EndReplay \/ Finished \/ UNCHANGED vars
  BY <1>5 DEF Solve, GiveUp, Replay, EndReplay, Finished, vars, reduction, Quiet
<1> QED
  BY <1>1, <1>2, <1>3, <1>4, <1>5 DEF Next

-----------------------------------------------------------------------------
(* The trail *)

\* The larger and the smaller of two integers.
LEMMA MaxMin ==
  ASSUME NEW a \in Int, NEW b \in Int
  PROVE  Max({a, b}) = (IF a < b THEN b ELSE a) /\ Min({a, b}) = (IF a > b THEN b ELSE a)
<1>1. \E x \in {a, b} : \A y \in {a, b} : x >= y
  OBVIOUS
<1>2. \E x \in {a, b} : \A y \in {a, b} : x <= y
  OBVIOUS
<1>3. Max({a, b}) \in {a, b} /\ \A y \in {a, b} : Max({a, b}) >= y
  BY <1>1 DEF Max
<1>4. Min({a, b}) \in {a, b} /\ \A y \in {a, b} : Min({a, b}) <= y
  BY <1>2 DEF Min
<1> QED
  BY <1>3, <1>4

\* Appending a move that uses only what is active keeps the trail replayable,
\* if what the move removes, and nothing else, becomes inactive.
LEMMA AppendMove ==
  ASSUME TrailInv, NEW m \in Move, trail' = Append(trail, m), WorkType',
         \A i \in Rows : UsesRow(m, i) => row_active[i],
         \A j \in Cols : UsesCol(m, j) => col_active[j],
         \A i \in Rows : row_active'[i] <=> row_active[i] /\ ~(RemovesRow(m) /\ m.row = i),
         \A j \in Cols : col_active'[j] <=> col_active[j] /\ ~(RemovesCol(m) /\ m.col = j)
  PROVE  TrailInv'
<1> DEFINE last == Len(trail) + 1
<1>1. /\ trail \in Seq(Move) /\ Len(trail) \in Nat /\ DOMAIN trail = 1..Len(trail)
      /\ DOMAIN trail' = 1..last
      /\ trail'[last] = m /\ last \in DOMAIN trail'
      /\ \A p \in DOMAIN trail : p \in DOMAIN trail' /\ p < last /\ trail'[p] = trail[p]
  BY DEF TrailInv, WorkType
<1>2. \A p \in DOMAIN trail' : p = last \/ p \in DOMAIN trail
  BY <1>1
<1>3. /\ \A p \in DOMAIN trail : trail[p] \in Move
      /\ \A mv \in Move : /\ RemovesRow(mv) => mv.row \in Rows
                          /\ RemovesCol(mv) => mv.col \in Cols
  BY <1>1 DEF Move, ColMove, RedundantMove, SingletonMoves, RemovesRow, RemovesCol
<1>4. RemovedInv'
  <2> SUFFICES ASSUME NEW p \in DOMAIN trail'
               PROVE  /\ RemovesRow(trail'[p]) => ~row_active'[trail'[p].row]
                      /\ RemovesCol(trail'[p]) => ~col_active'[trail'[p].col]
    BY DEF RemovedInv, RemovesRow, RemovesCol
  <2>1. CASE p = last
    BY <1>1, <1>3, <2>1
  <2>2. CASE p \in DOMAIN trail
    BY <1>1, <1>3, <2>2 DEF TrailInv, RemovedInv
  <2> QED
    BY <1>2, <2>1, <2>2
<1>5. ASSUME NEW p \in DOMAIN trail', NEW q \in DOMAIN trail', q < p
      PROVE  /\ RemovesRow(trail'[q]) => ~UsesRow(trail'[p], trail'[q].row)
             /\ RemovesCol(trail'[q]) => ~UsesCol(trail'[p], trail'[q].col)
  <2>1. q \in DOMAIN trail /\ trail'[q] = trail[q]
    BY <1>1, <1>2, <1>5
  <2>2. CASE p = last
    \* The new move uses nothing that an earlier one removed.
    BY <1>1, <1>3, <2>1, <2>2 DEF TrailInv, RemovedInv
  <2>3. CASE p \in DOMAIN trail
    BY <1>1, <1>5, <2>1, <2>3 DEF TrailInv, TrailCanBeReplayed
  <2> QED
    BY <1>2, <2>2, <2>3
<1>6. ASSUME NEW i \in Rows, ~row_active'[i]
      PROVE  \E p \in DOMAIN trail' : RemovesRow(trail'[p]) /\ trail'[p].row = i
  <2>1. CASE row_active[i]
    BY <1>1, <1>6, <2>1
  <2>2. CASE ~row_active[i]
    <3>1. PICK p \in DOMAIN trail : RemovesRow(trail[p]) /\ trail[p].row = i
      BY <2>2 DEF TrailInv, TrailCanBeReplayed
    <3> QED
      BY <1>1, <3>1
  <2> QED
    BY <2>1, <2>2
<1>7. ASSUME NEW j \in Cols, ~col_active'[j]
      PROVE  \E p \in DOMAIN trail' : RemovesCol(trail'[p]) /\ trail'[p].col = j
  <2>1. CASE col_active[j]
    BY <1>1, <1>7, <2>1
  <2>2. CASE ~col_active[j]
    <3>1. PICK p \in DOMAIN trail : RemovesCol(trail[p]) /\ trail[p].col = j
      BY <2>2 DEF TrailInv, TrailCanBeReplayed
    <3> QED
      BY <1>1, <3>1
  <2> QED
    BY <2>1, <2>2
<1>8. TrailCanBeReplayed'
  BY <1>5, <1>6, <1>7 DEF TrailCanBeReplayed, RemovesRow, RemovesCol, UsesRow, UsesCol
<1> QED
  BY <1>4, <1>8 DEF TrailInv

-----------------------------------------------------------------------------
\* What the problems are, spelled out.
LEMMA ProblemType ==
  ASSUME NEW p \in Problems
  PROVE  /\ \A i \in Rows, j \in Cols : p.A[i][j] \in Int
         /\ p.objective \in [Cols -> Int] /\ p.minimize \in BOOLEAN
         /\ p.col_lower \in [Cols -> Bound] /\ p.col_upper \in [Cols -> Bound]
         /\ p.row_lower \in [Rows -> Bound] /\ p.row_upper \in [Rows -> Bound]
BY ProblemsAssumption DEF Problem

\* A bound is an integer, and infinite only if it is one of two.
LEMMA BoundType ==
  /\ kInfinity \in Nat \ {0} /\ Bound \subseteq Int
  /\ \A b \in Bound : is_finite_bound(b) \/ b = kInfinity \/ b = -kInfinity
BY InfinityAssumption DEF Bound, is_finite_bound

-----------------------------------------------------------------------------
(* Divisions *)

\* What a grain divides is a whole number of grains.
LEMMA DividesIsMultiple ==
  ASSUME NEW g \in Int, NEW b \in Int, Divides(g, b)
  PROVE  Multiple(b, g)
<1>1. PICK k \in (-Magnitude(b))..Magnitude(b) : b = g * k
  BY DEF Divides
<1>2. k \in Int /\ b = k * g
  BY <1>1 DEF Magnitude
<1> QED
  BY <1>2 DEF Multiple

\* A coefficient divides Scale, and a cost is a whole number of grains.
LEMMA ProblemDivides ==
  ASSUME NEW p \in Problems
  PROVE  /\ \A i \in Rows, j \in Cols : p.A[i][j] # 0 => p.A[i][j] \in Divisor
         /\ p.objective \in [Cols -> CostValue]
<1>1. Scale \in Nat \ {0} /\ Grain(NumRows) \in Int
  <2>1. Scale \in Nat \ {0}
    BY ScaleAssumption
  <2>2. Power(Scale, NumRows) \in Nat \ {0}
    BY <2>1, ShapeAssumption, PowerType
  <2> QED
    BY <2>1, <2>2 DEF Grain
<1>2. ASSUME NEW i \in Rows, NEW j \in Cols, p.A[i][j] # 0
      PROVE  p.A[i][j] \in Divisor
  <2>1. p.A[i][j] \in Int /\ Divides(p.A[i][j], Scale)
    BY <1>2, ProblemType, ScaleAssumption
  <2>2. PICK k \in (-Magnitude(Scale))..Magnitude(Scale) : Scale = p.A[i][j] * k
    BY <2>1 DEF Divides
  <2>3. k \in Int
    BY <1>1, <2>2 DEF Magnitude
  <2> QED
    BY <1>2, <2>1, <2>2, <2>3 DEF Divisor
<1>3. ASSUME NEW j \in Cols PROVE p.objective[j] \in CostValue
  <2>1. p.objective[j] \in Int /\ Divides(Grain(NumRows), p.objective[j])
    BY ProblemType, ScaleAssumption DEF Grain
  <2> QED
    BY <1>1, <2>1, DividesIsMultiple DEF CostValue
<1> QED
  BY <1>2, <1>3, ProblemType

\* Whole numbers of grains are added and multiplied.
LEMMA MultipleSum ==
  ASSUME NEW g \in Int, NEW b, NEW c, Multiple(b, g), Multiple(c, g), NEW a \in Int
  PROVE  Multiple(b + c, g) /\ Multiple(b - c, g) /\ Multiple(a * c, g)
<1>1. PICK k \in Int : b = k * g
  BY DEF Multiple
<1>2. PICK l \in Int : c = l * g
  BY DEF Multiple
<1>3. b + c = (k + l) * g /\ b - c = (k - l) * g /\ a * c = (a * l) * g
  BY <1>1, <1>2
<1>4. k + l \in Int /\ k - l \in Int /\ a * l \in Int
  OBVIOUS
<1> QED
  BY <1>3, <1>4 DEF Multiple

LEMMA MultipleZero == ASSUME NEW g \in Int PROVE Multiple(0, g)
<1>1. 0 = 0 * g
  OBVIOUS
<1> QED
  BY <1>1 DEF Multiple

\* One more division is a grain Scale times as coarse.
LEMMA GrainSteps ==
  ASSUME NEW n \in Nat
  PROVE  Scale \in Int /\ Grain(n) \in Int /\ Grain(n + 1) = Scale * Grain(n)
<1>1. Scale \in Nat \ {0}
  BY ScaleAssumption
<1>2. Scale \in Int
  BY <1>1
<1> QED
  BY <1>1, <1>2, PowerType, PowerSteps DEF Grain

\* A coarser grain is a whole number of finer ones.
LEMMA GrainWeakens ==
  ASSUME NEW n \in Nat, NEW b, Multiple(b, Grain(n + 1))
  PROVE  Multiple(b, Grain(n))
<1> DEFINE g == Grain(n)
<1>1. Scale \in Int /\ g \in Int /\ Grain(n + 1) = Scale * g
  BY GrainSteps
<1> HIDE DEF g
<1>2. PICK k \in Int : b = k * (Scale * g)
  BY <1>1 DEF Multiple
<1>3. k * Scale \in Int /\ b = (k * Scale) * g
  BY <1>1, <1>2
<1> QED
  BY <1>3 DEF Multiple, g

\* So is a much coarser one.
LEMMA GrainDown ==
  ASSUME NEW m \in Nat, NEW n \in Nat, m <= n, NEW b, Multiple(b, Grain(n))
  PROVE  Multiple(b, Grain(m))
<1> DEFINE F == {k \in Nat : Multiple(b, Grain(m + k)) => Multiple(b, Grain(m))}
<1>1. F \in SUBSET Nat /\ 0 \in F
  OBVIOUS
<1>2. ASSUME NEW k \in F PROVE k + 1 \in F
  <2>1. k \in Nat /\ m + k \in Nat /\ m + (k + 1) = (m + k) + 1
    OBVIOUS
  <2>2. Multiple(b, Grain((m + k) + 1)) => Multiple(b, Grain(m + k))
    BY <2>1, GrainWeakens
  <2> QED
    BY <2>1, <2>2
<1>3. n - m \in Nat /\ m + (n - m) = n
  OBVIOUS
<1>4. n - m \in F
  <2>1. F = Nat
    <3> HIDE DEF F
    <3> QED
      BY <1>1, <1>2, NaturalInduction
  <2> QED
    BY <1>3, <2>1
<1> QED
  BY <1>3, <1>4

\* A sum of whole numbers of grains is one.
LEMMA SumOfMultiples ==
  ASSUME NEW g \in Int, NEW f, NEW S, IsFiniteSet(S), \A x \in S : Multiple(f[x], g)
  PROVE  Multiple(SumOver(f, S), g)
<1> DEFINE k == [x \in S |-> CHOOSE q \in Int : f[x] = q * g]
<1>1. \A x \in S : k[x] \in Int /\ f[x] = k[x] * g
  BY DEF Multiple
<1> HIDE DEF k
<1>2. \A x \in S : k[x] \in Int /\ f[x] = g * k[x]
  BY <1>1
<1>3. SumOver(f, S) = g * SumOver(k, S) /\ SumOver(k, S) \in Int
  BY <1>2, SumScale, SumType
<1>4. g * SumOver(k, S) = SumOver(k, S) * g
  <2> DEFINE t == SumOver(k, S)
  <2>1. t \in Int
    BY <1>3
  <2> HIDE DEF t
  <2>2. g * t = t * g
    BY <2>1
  <2> QED
    BY <2>2 DEF t
<1> QED
  BY <1>3, <1>4 DEF Multiple

\* A product has one factor for the other.
LEMMA FactorUnique ==
  ASSUME NEW a \in Int, a # 0, NEW q \in Int, NEW k \in Int, a * q = a * k
  PROVE  q = k
<1>1. a * (q - k) = 0
  OBVIOUS
<1> QED
  BY <1>1

\* A factor is no larger than the product.
LEMMA FactorSmaller ==
  ASSUME NEW a \in Int, a # 0, NEW k \in Int
  PROVE  k \in (-Magnitude(a * k))..Magnitude(a * k) /\ Magnitude(k) <= Magnitude(a * k)
<1> DEFINE b == a * k
<1>1. b \in Int
  OBVIOUS
<1>2. CASE a > 0 /\ k >= 0
  <2>1. b >= k
    BY <1>2
  <2> HIDE DEF b
  <2> QED
    BY <1>1, <1>2, <2>1 DEF Magnitude, b
<1>3. CASE a > 0 /\ k < 0
  <2>1. b <= k
    BY <1>3
  <2> HIDE DEF b
  <2> QED
    BY <1>1, <1>3, <2>1 DEF Magnitude, b
<1>4. CASE a < 0 /\ k >= 0
  <2>1. b <= -k
    BY <1>4
  <2> HIDE DEF b
  <2> QED
    BY <1>1, <1>4, <2>1 DEF Magnitude, b
<1>5. CASE a < 0 /\ k < 0
  <2>1. b >= -k
    BY <1>5
  <2> HIDE DEF b
  <2> QED
    BY <1>1, <1>5, <2>1 DEF Magnitude, b
<1> QED
  BY <1>2, <1>3, <1>4, <1>5

\* The quotient of a product is its other factor.
LEMMA QuotientIs ==
  ASSUME NEW a \in Int, a # 0, NEW k \in Int, NEW b, b = a * k
  PROVE  Quotient(b, a) = k
<1>1. k \in (-Magnitude(b))..Magnitude(b) /\ a * k = b
  BY FactorSmaller
<1>2. \A q \in (-Magnitude(b))..Magnitude(b) : a * q = b => q = k
  <2> TAKE q \in (-Magnitude(b))..Magnitude(b)
  <2>1. q \in Int
    OBVIOUS
  <2> QED
    BY <2>1, FactorUnique
<1> QED
  BY <1>1, <1>2 DEF Quotient

\* One division of what may be divided n + 1 times leaves what may be divided
\* n times.
LEMMA QuotientExact ==
  ASSUME NEW a \in Divisor, NEW n \in Nat, NEW b, Multiple(b, Grain(n + 1))
  PROVE  /\ Quotient(b, a) \in Int /\ a * Quotient(b, a) = b
         /\ Multiple(Quotient(b, a), Grain(n))
         /\ Magnitude(Quotient(b, a)) <= Magnitude(b)
<1> DEFINE g == Grain(n)
<1>1. Scale \in Int /\ g \in Int /\ Grain(n + 1) = Scale * g
  BY GrainSteps
<1> HIDE DEF g
<1>2. PICK k \in Int : b = k * (Scale * g)
  BY <1>1 DEF Multiple
<1>3. a \in Int /\ a # 0 /\ \E s \in Int : Scale = a * s
  BY DEF Divisor
<1>4. PICK s \in Int : Scale = a * s
  BY <1>3
<1> DEFINE q == (k * s) * g
<1>5. q \in Int /\ b = a * q
  BY <1>1, <1>2, <1>3, <1>4
<1>6. k * s \in Int /\ Multiple(q, g)
  BY DEF Multiple
<1> HIDE DEF q
<1>7. Quotient(b, a) = q
  BY <1>3, <1>5, QuotientIs
<1>8. Magnitude(q) <= Magnitude(b)
  BY <1>3, <1>5, FactorSmaller
<1> QED
  BY <1>5, <1>6, <1>7, <1>8 DEF g

\* Adding keeps or turns around the order, as what is added has a sign.
LEMMA SumOrder ==
  ASSUME NEW s \in Int, NEW d \in Int, NEW t, t = s + d
  PROVE  (d >= 0 => s <= t) /\ (d <= 0 => t <= s)
OBVIOUS

\* Multiplying by a divisor keeps or turns around the order.
LEMMA ProductOrder ==
  ASSUME NEW a \in Int, a # 0, NEW q \in Int, NEW v \in Int
  PROVE  /\ a * q \in Int /\ a * v \in Int
         /\ a > 0 => (a * q <= a * v <=> q <= v) /\ (a * v <= a * q <=> v <= q)
         /\ a < 0 => (a * q <= a * v <=> v <= q) /\ (a * v <= a * q <=> q <= v)
<1>1. ASSUME NEW s \in Int, NEW t \in Int, s <= t
      PROVE  (a > 0 => a * s <= a * t) /\ (a < 0 => a * t <= a * s)
  <2> DEFINE d == t - s
  <2>1. d \in Nat /\ t = s + d
    BY <1>1
  <2> HIDE DEF d
  <2>2. a * s \in Int /\ a * d \in Int /\ a * t = a * s + a * d
    BY <2>1
  <2>3. (a > 0 => a * d >= 0) /\ (a < 0 => a * d <= 0)
    BY <2>1
  <2> QED
    BY <2>2, <2>3, SumOrder
<1>2. a * q = a * v => q = v
  BY FactorUnique
<1>3. a * q \in Int /\ a * v \in Int
  OBVIOUS
<1> DEFINE aq == a * q
           av == a * v
<1>4. /\ q <= v => (a > 0 => aq <= av) /\ (a < 0 => av <= aq)
      /\ v <= q => (a > 0 => av <= aq) /\ (a < 0 => aq <= av)
      /\ aq = av => q = v
      /\ aq \in Int /\ av \in Int
  BY <1>1, <1>2, <1>3
<1> HIDE DEF aq, av
<1>5. /\ a > 0 => (aq <= av <=> q <= v) /\ (av <= aq <=> v <= q)
      /\ a < 0 => (aq <= av <=> v <= q) /\ (av <= aq <=> q <= v)
  BY <1>4
<1> QED
  BY <1>3, <1>5 DEF aq, av

-----------------------------------------------------------------------------
\* Nothing is removed before the first round.
LEMMA TrailInit == Init => TrailInv
<1> SUFFICES ASSUME Init PROVE TrailInv
  OBVIOUS
<1>1. WorkType
  <2>1. /\ problem \in Problems
        /\ col_lower \in [Cols -> Bound] /\ col_upper \in [Cols -> Bound]
        /\ row_lower \in [Rows -> Bound] /\ row_upper \in [Rows -> Bound]
    BY ProblemType DEF Init
  <2>2. /\ col_lower \in [Cols -> Int] /\ col_upper \in [Cols -> Int]
        /\ row_lower \in [Rows -> Int] /\ row_upper \in [Rows -> Int]
    BY <2>1, BoundType
  <2> QED
    BY <2>1, <2>2 DEF Init, WorkType
<1> QED
  BY <1>1 DEF Init, TrailInv, RemovedInv, TrailCanBeReplayed

\* The move of a removed column has its value and the active rows it touches.
LEMMA ColumnRemoved ==
  ASSUME TrailInv, NEW kind \in {"fixed", "empty"}, NEW j \in Cols, NEW value \in Int,
         NEW rows \in SUBSET ActiveRows, col_active[j],
         RemoveColumn(kind, j, value, rows),
         UNCHANGED <<problem, col_lower, col_upper, row_active>>,
         row_lower' \in [Rows -> Int], row_upper' \in [Rows -> Int]
  PROVE  TrailInv'
<1> DEFINE m == ColumnMove(kind, j, value, rows)
<1>1. m \in ColMove /\ m \in Move
  BY ProblemDivides DEF ColumnMove, ColMove, Move, TrailInv, WorkType, ActiveRows
<1>2. RemovesCol(m) /\ ~RemovesRow(m) /\ m.col = j /\ m.rows = rows
  BY DEF ColumnMove, RemovesCol, RemovesRow
<1>3. /\ trail' = Append(trail, m)
      /\ col_active' = [col_active EXCEPT ![j] = FALSE]
      /\ objective_constant_delta' \in Int
  BY ProblemType DEF RemoveColumn, TrailInv, WorkType
<1>4. WorkType'
  BY <1>1, <1>3 DEF TrailInv, WorkType
<1>5. \A i \in Rows : UsesRow(m, i) => row_active[i]
  BY <1>2 DEF UsesRow, ActiveRows
<1>6. \A k \in Cols : UsesCol(m, k) => col_active[k]
  BY <1>2 DEF UsesCol
<1>7. \A k \in Cols : col_active'[k] <=> col_active[k] /\ ~(RemovesCol(m) /\ m.col = k)
  BY <1>2, <1>3 DEF TrailInv, WorkType
<1>8. \A i \in Rows : row_active'[i] <=> row_active[i] /\ ~(RemovesRow(m) /\ m.row = i)
  BY <1>2
<1> QED
  BY <1>1, <1>3, <1>4, <1>5, <1>6, <1>7, <1>8, AppendMove

\* The move of a removed row names it and, at most, an active column.
LEMMA RowRemoved ==
  ASSUME TrailInv, NEW i \in Rows, NEW m \in RedundantMove \cup SingletonMoves,
         m.row = i, row_active[i], m.kind = "singleton" => col_active[m.col],
         trail' = Append(trail, m), row_active' = [row_active EXCEPT ![i] = FALSE],
         UNCHANGED <<problem, row_lower, row_upper, col_active, objective_constant_delta>>,
         col_lower' \in [Cols -> Int], col_upper' \in [Cols -> Int]
  PROVE  TrailInv'
<1>1. m \in Move /\ RemovesRow(m) /\ ~RemovesCol(m)
  BY DEF Move, RedundantMove, SingletonMoves, RemovesRow, RemovesCol
<1>2. WorkType'
  BY <1>1 DEF TrailInv, WorkType
<1>3. \A k \in Rows : UsesRow(m, k) => row_active[k]
  BY <1>1 DEF UsesRow
<1>4. \A k \in Cols : UsesCol(m, k) => col_active[k]
  BY DEF UsesCol, RedundantMove, SingletonMoves
<1>5. \A k \in Rows : row_active'[k] <=> row_active[k] /\ ~(RemovesRow(m) /\ m.row = k)
  BY <1>1 DEF TrailInv, WorkType
<1>6. \A k \in Cols : col_active'[k] <=> col_active[k] /\ ~(RemovesCol(m) /\ m.col = k)
  BY <1>1
<1> QED
  BY <1>1, <1>2, <1>3, <1>4, <1>5, <1>6, AppendMove

-----------------------------------------------------------------------------
(* The room of the bounds *)

\* The columns and the rows still to be removed.
Remaining == Cardinality(ActiveCols)
RowsLeft == Cardinality(ActiveRows)

\* A finite bound stays finite in n more shifts by a multiple of another one,
\* and may be divided n more times.
Small(b, n) == is_finite_bound(b) => Magnitude(b) * Power(1 + Scale, n) < kInfinity
Grained(b, n) == is_finite_bound(b) => Multiple(b, Grain(n))

\* A working bound has room to spare.
SmallBound(b, n) == b \in Bound /\ Small(b, n)

\* Every working bound may be divided once for each row that is left.
GrainInv ==
  /\ \A j \in Cols : Grained(col_lower[j], RowsLeft) /\ Grained(col_upper[j], RowsLeft)
  /\ \A i \in Rows : Grained(row_lower[i], RowsLeft) /\ Grained(row_upper[i], RowsLeft)

\* The working bounds have the room that the remaining steps may take, and
\* those of a column do not cross on a valid problem.
BoundInv ==
  /\ \A j \in Cols : SmallBound(col_lower[j], Remaining) /\ SmallBound(col_upper[j], Remaining)
  /\ \A i \in Rows : SmallBound(row_lower[i], Remaining) /\ SmallBound(row_upper[i], Remaining)
  /\ validate(problem) => \A j \in Cols : col_lower[j] <= col_upper[j]
  /\ GrainInv

\* The rows and the columns are finite, and so are sets of them.
LEMMA FiniteShape ==
  /\ IsFiniteSet(Cols) /\ IsFiniteSet(Rows)
  /\ \A S \in SUBSET Cols : IsFiniteSet(S)
  /\ \A S \in SUBSET Rows : IsFiniteSet(S)
<1>1. IsFiniteSet(Cols) /\ IsFiniteSet(Rows)
  BY FS_Interval, ShapeAssumption DEF Cols, Rows
<1> QED
  BY <1>1, FS_Subset

\* One column less remains after a column is removed.
LEMMA RemainingStep ==
  ASSUME TrailInv
  PROVE  /\ Remaining \in Nat
         /\ \A j \in Cols : col_active[j] /\ col_active' = [col_active EXCEPT ![j] = FALSE]
              => /\ ActiveCols' = ActiveCols \ {j}
                 /\ Remaining' \in Nat /\ Remaining = Remaining' + 1
<1>1. IsFiniteSet(ActiveCols) /\ ActiveCols \subseteq Cols
  BY FiniteShape DEF ActiveCols
<1>2. Remaining \in Nat
  BY <1>1, FS_CardinalityType DEF Remaining
<1>3. ASSUME NEW j \in Cols, col_active[j], col_active' = [col_active EXCEPT ![j] = FALSE]
      PROVE  /\ ActiveCols' = ActiveCols \ {j}
             /\ Remaining' \in Nat /\ Remaining = Remaining' + 1
  <2>1. ActiveCols' = ActiveCols \ {j} /\ j \in ActiveCols
    BY <1>3 DEF ActiveCols, TrailInv, WorkType
  <2>2. /\ IsFiniteSet(ActiveCols \ {j})
        /\ Cardinality(ActiveCols \ {j}) = Cardinality(ActiveCols) - 1
    BY <1>1, <2>1, FS_RemoveElement
  <2>3. Cardinality(ActiveCols \ {j}) \in Nat
    BY <2>2, FS_CardinalityType
  <2> QED
    BY <1>2, <2>1, <2>2, <2>3 DEF Remaining
<1> QED
  BY <1>2, <1>3

\* One row less is left after a row is removed.
LEMMA RowsLeftStep ==
  ASSUME TrailInv
  PROVE  /\ RowsLeft \in Nat
         /\ \A i \in ActiveRows : \E n \in Nat : RowsLeft = n + 1
         /\ \A i \in Rows : row_active[i] /\ row_active' = [row_active EXCEPT ![i] = FALSE]
              => RowsLeft' \in Nat /\ RowsLeft = RowsLeft' + 1
<1>1. IsFiniteSet(ActiveRows) /\ ActiveRows \subseteq Rows
  BY FiniteShape DEF ActiveRows
<1>2. RowsLeft \in Nat
  BY <1>1, FS_CardinalityType DEF RowsLeft
<1>3. ASSUME NEW i \in ActiveRows
      PROVE  /\ Cardinality(ActiveRows \ {i}) \in Nat
             /\ RowsLeft = Cardinality(ActiveRows \ {i}) + 1
  <2>1. /\ IsFiniteSet(ActiveRows \ {i})
        /\ Cardinality(ActiveRows \ {i}) = Cardinality(ActiveRows) - 1
    BY <1>1, FS_RemoveElement
  <2>2. Cardinality(ActiveRows \ {i}) \in Nat
    BY <2>1, FS_CardinalityType
  <2> QED
    BY <1>2, <2>1, <2>2 DEF RowsLeft
<1>4. ASSUME NEW i \in Rows, row_active[i], row_active' = [row_active EXCEPT ![i] = FALSE]
      PROVE  RowsLeft' \in Nat /\ RowsLeft = RowsLeft' + 1
  <2>1. ActiveRows' = ActiveRows \ {i} /\ i \in ActiveRows
    BY <1>4 DEF ActiveRows, TrailInv, WorkType
  <2> QED
    BY <1>3, <2>1 DEF RowsLeft
<1> QED
  BY <1>2, <1>3, <1>4

\* A finite bound of a singleton row is a multiple of its coefficient, and the
\* quotient has the room of a column's bound.
LEMMA RowQuotient ==
  ASSUME TrailInv, BoundInv, NEW i \in ActiveRows, Singleton(i),
         NEW b \in {row_lower[i], row_upper[i]}, is_finite_bound(b)
  PROVE  LET a == problem.A[i][OnlyCol(i)]
             q == Quotient(b, a)
         IN  /\ q \in Int /\ a * q = b /\ is_finite_bound(q)
             /\ SmallBound(q, Remaining)
             /\ \A n \in Nat : RowsLeft = n + 1 => Grained(q, n)
<1> DEFINE a == problem.A[i][OnlyCol(i)]
           q == Quotient(b, a)
           P == Power(1 + Scale, Remaining)
<1>1. i \in Rows /\ problem \in Problems /\ OnlyCol(i) \in Cols /\ a # 0
  BY DEF Singleton, OnlyCol, ActiveEntries, ActiveCols, ActiveRows, RowEntries, TrailInv, WorkType
<1>2. a \in Divisor
  BY <1>1, ProblemDivides
<1>3. PICK n \in Nat : RowsLeft = n + 1
  BY RowsLeftStep
<1>4. SmallBound(b, Remaining) /\ Multiple(b, Grain(n + 1))
  BY <1>1, <1>3 DEF BoundInv, GrainInv, Grained
<1>5. q \in Int /\ a * q = b /\ Multiple(q, Grain(n)) /\ Magnitude(q) <= Magnitude(b)
  BY <1>2, <1>4, QuotientExact
<1>6. P \in Nat /\ b \in Int /\ kInfinity \in Nat \ {0} /\ Magnitude(b) * P < kInfinity
  <2>1. Remaining \in Nat
    BY RemainingStep
  <2>2. 1 + Scale \in Nat \ {0}
    BY ScaleAssumption
  <2>3. P \in Nat
    BY <2>1, <2>2, PowerType
  <2> QED
    BY <1>4, <2>3, BoundType DEF SmallBound, Small
<1> HIDE DEF a, q, P
<1>7. is_finite_bound(q) /\ q \in Bound
  BY <1>5, <1>6 DEF Magnitude, is_finite_bound, Bound
<1>8. Magnitude(q) * P < kInfinity
  <2> DEFINE M == Magnitude(b)
             Q == Magnitude(q)
  <2>1. M \in Nat /\ Q \in Nat /\ Q <= M /\ M * P < kInfinity
    BY <1>5, <1>6 DEF Magnitude
  <2> HIDE DEF M, Q
  <2>2. Q * P <= M * P /\ Q * P \in Int /\ M * P \in Int
    BY <1>6, <2>1
  <2>3. Q * P < kInfinity
    BY <1>6, <2>1, <2>2
  <2> QED
    BY <2>3 DEF Q
<1>9. SmallBound(q, Remaining)
  BY <1>7, <1>8 DEF SmallBound, Small, P
<1>10. \A k \in Nat : RowsLeft = k + 1 => Grained(q, k)
  <2> SUFFICES ASSUME NEW k \in Nat, RowsLeft = k + 1 PROVE Multiple(q, Grain(k))
    BY DEF Grained
  <2>1. k = n
    BY <1>3
  <2> QED
    BY <1>5, <2>1
<1> QED
  BY <1>5, <1>7, <1>9, <1>10 DEF a, q

\* What a singleton row's move records.
LEMMA SingletonFields ==
  ASSUME TrailInv, BoundInv, NEW i \in ActiveRows, Singleton(i)
  PROVE  LET m == SingletonMove(i)
             a == problem.A[i][m.col]
         IN  /\ m \in SingletonMoves /\ m.row = i /\ m.kind = "singleton"
             /\ m.col \in Cols /\ col_active[m.col]
             /\ ActiveEntries(i) = {m.col}
             /\ m.coeff = a /\ a \in Int /\ a # 0 /\ a = problem.A[i][OnlyCol(i)]
             /\ m.old_lower = col_lower[m.col] /\ m.old_upper = col_upper[m.col]
             /\ ImpliedLower(i, a) \in Int /\ ImpliedUpper(i, a) \in Int
             /\ m.new_lower = (IF col_lower[m.col] < ImpliedLower(i, a)
                               THEN ImpliedLower(i, a) ELSE col_lower[m.col])
             /\ m.new_upper = (IF col_upper[m.col] > ImpliedUpper(i, a)
                               THEN ImpliedUpper(i, a) ELSE col_upper[m.col])
<1> DEFINE m == SingletonMove(i)
           j == OnlyCol(i)
           a == problem.A[i][j]
<1>1. ActiveEntries(i) = {j} /\ j \in Cols /\ col_active[j] /\ a # 0 /\ i \in Rows
  BY DEF Singleton, OnlyCol, ActiveEntries, ActiveCols, ActiveRows, RowEntries
<1>2. /\ a \in Divisor /\ a \in Int
      /\ col_lower[j] \in Int /\ col_upper[j] \in Int
  BY <1>1, ProblemType, ProblemDivides DEF TrailInv, WorkType
<1>3. ImpliedLower(i, a) \in Int /\ ImpliedUpper(i, a) \in Int
  <2>1. \A b \in {row_lower[i], row_upper[i]} : is_finite_bound(b) => Quotient(b, a) \in Int
    BY RowQuotient
  <2> HIDE DEF a
  <2> QED
    BY <2>1, InfinityAssumption DEF ImpliedLower, ImpliedUpper
<1>4. m = [kind |-> "singleton", row |-> i, col |-> j, coeff |-> a,
           old_lower |-> col_lower[j], old_upper |-> col_upper[j],
           new_lower |-> Max({col_lower[j], ImpliedLower(i, a)}),
           new_upper |-> Min({col_upper[j], ImpliedUpper(i, a)})]
  BY DEF SingletonMove
<1>5. /\ Max({col_lower[j], ImpliedLower(i, a)})
           = (IF col_lower[j] < ImpliedLower(i, a) THEN ImpliedLower(i, a) ELSE col_lower[j])
      /\ Min({col_upper[j], ImpliedUpper(i, a)})
           = (IF col_upper[j] > ImpliedUpper(i, a) THEN ImpliedUpper(i, a) ELSE col_upper[j])
  BY <1>2, <1>3, MaxMin
<1>6. m.new_lower \in Int /\ m.new_upper \in Int
  BY <1>2, <1>3, <1>4, <1>5
<1>7. m \in SingletonMoves
  BY <1>1, <1>2, <1>4, <1>6 DEF SingletonMoves
<1> QED
  BY <1>1, <1>2, <1>3, <1>4, <1>5, <1>7

\* An empty column is fixed at a bound of its own or at zero.
LEMMA EmptyValueType ==
  ASSUME TrailInv, NEW j \in Cols
  PROVE  EmptyValue(j) \in {col_lower[j], col_upper[j], 0} /\ EmptyValue(j) \in Int
<1>1. EmptyValue(j) \in {col_lower[j], col_upper[j], 0}
  BY DEF EmptyValue
<1> QED
  BY <1>1 DEF TrailInv, WorkType

\* Every step keeps the trail replayable.
LEMMA TrailStep == TrailInv /\ BoundInv /\ [Next]_vars => TrailInv'
<1> SUFFICES ASSUME TrailInv, BoundInv, [Next]_vars PROVE TrailInv'
  OBVIOUS
<1>1. CASE Quiet
  BY <1>1 DEF Quiet, TrailInv, WorkType, RemovedInv, TrailCanBeReplayed, bounds, active,
              RemovesRow, RemovesCol, UsesRow, UsesCol
<1>2. ASSUME NEW j \in Cols, FixStep(j) PROVE TrailInv'
  <2> DEFINE value == col_lower[j]
             touched == ColEntries(problem, j) \cap ActiveRows
  <2>1. value \in Int /\ \A i \in Rows : problem.A[i][j] * value \in Int
    <3>1. value \in Int /\ problem \in Problems
      BY DEF TrailInv, WorkType
    <3>2. \A i \in Rows : problem.A[i][j] \in Int
      BY <3>1, ProblemType
    <3> QED
      BY <3>1, <3>2
  <2>2. row_lower' \in [Rows -> Int] /\ row_upper' \in [Rows -> Int]
    <3>1. \A b \in Int, i \in Rows : Minus(b, problem.A[i][j] * value) \in Int
      BY <2>1 DEF Minus
    <3> QED
      BY <1>2, <3>1 DEF FixStep, fix_column, TrailInv, WorkType
  <2>3. RemoveColumn("fixed", j, value, touched)
    BY <1>2 DEF FixStep, fix_column
  <2> QED
    BY <1>2, <2>1, <2>2, <2>3, ColumnRemoved DEF FixStep
<1>3. ASSUME NEW j \in Cols, EmptyStep(j) PROVE TrailInv'
  <2>1. row_lower' \in [Rows -> Int] /\ row_upper' \in [Rows -> Int]
    BY <1>3 DEF EmptyStep, bounds, TrailInv, WorkType
  <2>2. UNCHANGED <<problem, col_lower, col_upper, row_active>>
    BY <1>3 DEF EmptyStep, bounds
  <2>3. EmptyValue(j) \in Int /\ {} \in SUBSET ActiveRows
    BY EmptyValueType
  <2> QED
    BY <1>3, <2>1, <2>2, <2>3, ColumnRemoved DEF EmptyStep
<1>4. ASSUME NEW i \in Rows, RedundantStep(i) PROVE TrailInv'
  <2> DEFINE m == RedundantMoveOf(i)
  <2>1. m \in RedundantMove /\ m.row = i /\ m.kind # "singleton"
    BY DEF RedundantMove, RedundantMoveOf
  <2>2. col_lower' \in [Cols -> Int] /\ col_upper' \in [Cols -> Int]
    BY <1>4 DEF RedundantStep, bounds, TrailInv, WorkType
  <2> HIDE DEF m
  <2> QED
    BY <1>4, <2>1, <2>2, RowRemoved DEF RedundantStep, bounds, m
<1>5. ASSUME NEW i \in Rows, SingletonStep(i) PROVE TrailInv'
  <2> DEFINE m == SingletonMove(i)
  <2>1. m \in SingletonMoves /\ m.row = i /\ m.col \in Cols /\ col_active[m.col]
    BY <1>5, SingletonFields DEF SingletonStep, ActiveRows
  <2>2. m.new_lower \in Int /\ m.new_upper \in Int
    BY <2>1 DEF SingletonMoves
  <2>3. col_lower' \in [Cols -> Int] /\ col_upper' \in [Cols -> Int]
    BY <1>5, <2>1, <2>2 DEF SingletonStep, TrailInv, WorkType
  <2> HIDE DEF m
  <2> QED
    BY <1>5, <2>1, <2>3, RowRemoved DEF SingletonStep, m
<1> QED
  BY <1>1, <1>2, <1>3, <1>4, <1>5, Steps DEF Reduction

-----------------------------------------------------------------------------
(* Activities and costs *)

\* An activity is a number, and any of its columns may be split off.
LEMMA ActivityStep ==
  ASSUME NEW p \in Problems, NEW i \in Rows, NEW cols \in SUBSET Cols,
         NEW x, \A k \in cols : x[k] \in Int
  PROVE  /\ Activity(p, x, i, cols) \in Int
         /\ \A j \in cols : Activity(p, x, i, cols)
                              = p.A[i][j] * x[j] + Activity(p, x, i, cols \ {j})
<1> DEFINE f == [k \in cols |-> p.A[i][k] * x[k]]
<1>1. IsFiniteSet(cols) /\ \A k \in cols : f[k] \in Int
  BY FiniteShape, ProblemType
<1>2. ASSUME NEW j \in cols
      PROVE  SumOver(f, cols \ {j}) = Activity(p, x, i, cols \ {j})
  <2> DEFINE g == [k \in cols \ {j} |-> p.A[i][k] * x[k]]
  <2>1. \A k \in cols \ {j} : f[k] = g[k] /\ f[k] \in Int
    BY <1>1
  <2>2. IsFiniteSet(cols \ {j})
    BY FiniteShape
  <2> HIDE DEF f, g
  <2>3. SumOver(f, cols \ {j}) = SumOver(g, cols \ {j})
    BY <2>1, <2>2, SumEqual
  <2> QED
    BY <2>3 DEF g, Activity
<1>3. Activity(p, x, i, cols) = SumOver(f, cols)
  BY DEF Activity
<1>4. \A j \in cols : f[j] = p.A[i][j] * x[j]
  OBVIOUS
<1> HIDE DEF f
<1>5. \A j \in cols : SumOver(f, cols) = f[j] + SumOver(f, cols \ {j})
  BY <1>1, SumRemove
<1>6. SumOver(f, cols) \in Int
  BY <1>1, SumType
<1> QED
  BY <1>2, <1>3, <1>4, <1>5, <1>6

\* A cost is a number, and any of its columns may be split off.
LEMMA CostStep ==
  ASSUME NEW p \in Problems, NEW cols \in SUBSET Cols, NEW x, \A k \in cols : x[k] \in Int
  PROVE  /\ Cost(p, x, cols) \in Int
         /\ \A j \in cols : Cost(p, x, cols) = p.objective[j] * x[j] + Cost(p, x, cols \ {j})
<1> DEFINE f == [k \in cols |-> p.objective[k] * x[k]]
<1>1. IsFiniteSet(cols) /\ \A k \in cols : f[k] \in Int
  BY FiniteShape, ProblemType
<1>2. ASSUME NEW j \in cols
      PROVE  SumOver(f, cols \ {j}) = Cost(p, x, cols \ {j})
  <2> DEFINE g == [k \in cols \ {j} |-> p.objective[k] * x[k]]
  <2>1. \A k \in cols \ {j} : f[k] = g[k] /\ f[k] \in Int
    BY <1>1
  <2>2. IsFiniteSet(cols \ {j})
    BY FiniteShape
  <2> HIDE DEF f, g
  <2>3. SumOver(f, cols \ {j}) = SumOver(g, cols \ {j})
    BY <2>1, <2>2, SumEqual
  <2> QED
    BY <2>3 DEF g, Cost
<1>3. Cost(p, x, cols) = SumOver(f, cols)
  BY DEF Cost
<1>4. \A j \in cols : f[j] = p.objective[j] * x[j]
  OBVIOUS
<1> HIDE DEF f
<1>5. \A j \in cols : SumOver(f, cols) = f[j] + SumOver(f, cols \ {j})
  BY <1>1, SumRemove
<1>6. SumOver(f, cols) \in Int
  BY <1>1, SumType
<1> QED
  BY <1>2, <1>3, <1>4, <1>5, <1>6

\* Activity and cost depend on the values of their columns only.
LEMMA ActivityAgrees ==
  ASSUME NEW p \in Problems, NEW cols \in SUBSET Cols, NEW x, NEW z,
         \A k \in cols : x[k] \in Int /\ z[k] = x[k]
  PROVE  /\ \A i \in Rows : Activity(p, x, i, cols) = Activity(p, z, i, cols)
         /\ Cost(p, x, cols) = Cost(p, z, cols)
<1>1. \A i \in Rows : [k \in cols |-> p.A[i][k] * x[k]] = [k \in cols |-> p.A[i][k] * z[k]]
  OBVIOUS
<1>2. [k \in cols |-> p.objective[k] * x[k]] = [k \in cols |-> p.objective[k] * z[k]]
  OBVIOUS
<1> QED
  BY <1>1, <1>2 DEF Activity, Cost

\* Columns without an entry in a row do not count.
LEMMA ActivitySupport ==
  ASSUME NEW p \in Problems, NEW i \in Rows, NEW cols \in SUBSET Cols, NEW T \in SUBSET cols,
         NEW x, \A k \in cols : x[k] \in Int, \A k \in cols \ T : p.A[i][k] = 0
  PROVE  Activity(p, x, i, cols) = Activity(p, x, i, T)
<1> DEFINE f == [k \in cols |-> p.A[i][k] * x[k]]
           g == [k \in T |-> p.A[i][k] * x[k]]
<1>1. /\ IsFiniteSet(cols) /\ IsFiniteSet(T)
      /\ \A k \in cols : f[k] \in Int
      /\ \A k \in cols \ T : f[k] = 0
      /\ \A k \in T : f[k] = g[k] /\ f[k] \in Int
  <2>1. \A k \in cols : f[k] \in Int
    BY ProblemType
  <2>2. \A k \in cols \ T : f[k] = 0
    OBVIOUS
  <2> QED
    BY <2>1, <2>2, FiniteShape
<1>2. Activity(p, x, i, cols) = SumOver(f, cols) /\ Activity(p, x, i, T) = SumOver(g, T)
  BY DEF Activity
<1> HIDE DEF f, g
<1> QED
  BY <1>1, <1>2, SumSupport, SumEqual

\* A row with entries in one column has that column's activity.
LEMMA ActivityOfOne ==
  ASSUME NEW p \in Problems, NEW i \in Rows, NEW j \in Cols, NEW x, x[j] \in Int
  PROVE  Activity(p, x, i, {j}) = p.A[i][j] * x[j]
<1> DEFINE cols == {j}
<1>1. Activity(p, x, i, cols) = p.A[i][j] * x[j] + Activity(p, x, i, cols \ {j})
  <2>1. cols \in SUBSET Cols /\ j \in cols /\ \A k \in cols : x[k] \in Int
    OBVIOUS
  <2> HIDE DEF cols
  <2> QED
    BY <2>1, ActivityStep
<1>2. cols \ {j} = {}
  OBVIOUS
<1> HIDE DEF cols
<1>3. Activity(p, x, i, {}) = 0
  BY SumEmpty DEF Activity
<1>4. p.A[i][j] * x[j] \in Int
  BY ProblemType
<1>5. Activity(p, x, i, cols) = p.A[i][j] * x[j]
  <2> DEFINE t == p.A[i][j] * x[j]
  <2>1. t \in Int /\ Activity(p, x, i, cols) = t + 0
    BY <1>1, <1>2, <1>3, <1>4
  <2> HIDE DEF t
  <2>2. Activity(p, x, i, cols) = t
    BY <2>1
  <2> QED
    BY <2>2 DEF t
<1> QED
  BY <1>5 DEF cols

-----------------------------------------------------------------------------
(* Finite bounds stay finite *)

\* With one column less the bounds have more room.
LEMMA SmallGrows ==
  ASSUME NEW b, NEW n \in Nat, SmallBound(b, n + 1)
  PROVE  /\ SmallBound(b, n)
         /\ is_finite_bound(b) =>
              /\ Magnitude(b) * Power(1 + Scale, n) \in Nat
              /\ Magnitude(b) * Power(1 + Scale, n)
                   + Scale * (Magnitude(b) * Power(1 + Scale, n)) < kInfinity
<1> DEFINE P == Power(1 + Scale, n)
           M == Magnitude(b)
<1>1. /\ Scale \in Nat \ {0} /\ P \in Nat \ {0}
      /\ Power(1 + Scale, n + 1) = (1 + Scale) * P
  <2>1. Scale \in Nat \ {0} /\ 1 + Scale \in Nat \ {0}
    BY ScaleAssumption
  <2> QED
    BY <2>1, PowerSteps, PowerType
<1>2. b \in Int /\ M \in Nat /\ kInfinity \in Nat
  BY BoundType DEF SmallBound, Magnitude
<1>3. is_finite_bound(b) => M * ((1 + Scale) * P) < kInfinity
  BY <1>1 DEF SmallBound, Small
<1> HIDE DEF P, M
<1> DEFINE t == M * P
<1>4. t \in Nat /\ M * ((1 + Scale) * P) = t + Scale * t /\ Scale * t \in Nat
  BY <1>1, <1>2
<1>5. is_finite_bound(b) => t + Scale * t < kInfinity /\ t < kInfinity
  <2> HIDE DEF t
  <2> DEFINE u == Scale * t
  <2> HIDE DEF u
  <2>1. u \in Nat /\ t \in Nat
    BY <1>4 DEF u
  <2>2. is_finite_bound(b) => t + u < kInfinity
    BY <1>3, <1>4 DEF u
  <2>3. is_finite_bound(b) => t < kInfinity
    BY <1>2, <2>1, <2>2
  <2> QED
    BY <2>2, <2>3 DEF u
<1> QED
  BY <1>4, <1>5 DEF SmallBound, Small, P, M, t

\* A coefficient enlarges a number by at most Scale.
LEMMA MagnitudeOfProduct ==
  ASSUME NEW a \in Int, a = 0 \/ a \in Divisor, NEW v \in Int
  PROVE  a * v \in Int /\ Magnitude(a * v) <= Scale * Magnitude(v)
<1>0. Scale \in Nat \ {0}
  BY ScaleAssumption
<1>1. Magnitude(a) <= Scale
  <2>1. CASE a = 0
    BY <1>0, <2>1 DEF Magnitude
  <2>2. CASE a \in Divisor
    <3>1. a # 0 /\ \E k \in Int : Scale = a * k
      BY <2>2 DEF Divisor
    <3>2. PICK k \in Int : Scale = a * k
      BY <3>1
    <3>3. k # 0 /\ Scale = k * a
      BY <1>0, <3>2
    <3>4. Magnitude(a) <= Magnitude(k * a)
      BY <3>3, FactorSmaller
    <3> QED
      BY <1>0, <3>3, <3>4 DEF Magnitude
  <2> QED
    BY <2>1, <2>2
<1> DEFINE M == Magnitude(a)
           V == Magnitude(v)
<1>2. M \in Nat /\ V \in Nat /\ a * v \in Int
  BY DEF Magnitude
<1>3. Magnitude(a * v) = M * V
  <2>1. CASE a >= 0 /\ v >= 0
    <3>1. a * v >= 0 /\ M = a /\ V = v
      BY <2>1 DEF Magnitude
    <3> QED
      BY <3>1 DEF Magnitude
  <2>2. CASE a >= 0 /\ v < 0
    <3>1. a * v <= 0 /\ M = a /\ V = -v /\ a * (-v) = -(a * v)
      BY <2>2 DEF Magnitude
    <3> QED
      BY <3>1, <1>2 DEF Magnitude
  <2>3. CASE a < 0 /\ v >= 0
    <3>1. a * v <= 0 /\ M = -a /\ V = v /\ (-a) * v = -(a * v)
      BY <2>3 DEF Magnitude
    <3> QED
      BY <3>1, <1>2 DEF Magnitude
  <2>4. CASE a < 0 /\ v < 0
    <3>1. a * v >= 0 /\ M = -a /\ V = -v /\ (-a) * (-v) = a * v
      BY <2>4 DEF Magnitude
    <3> QED
      BY <3>1, <1>2 DEF Magnitude
  <2> QED
    BY <2>1, <2>2, <2>3, <2>4
<1> HIDE DEF M, V
<1>4. M * V <= Scale * V
  BY <1>0, <1>1, <1>2 DEF M
<1> QED
  BY <1>2, <1>3, <1>4 DEF V

\* There is room for a bound less a multiple of another one.
LEMMA SmallShift ==
  ASSUME NEW b, NEW v, NEW n \in Nat, SmallBound(b, n + 1), SmallBound(v, n + 1),
         is_finite_bound(v), NEW a \in Int, a = 0 \/ a \in Divisor
  PROVE  /\ SmallBound(Minus(b, a * v), n)
         /\ is_finite_bound(Minus(b, a * v)) <=> is_finite_bound(b)
<1> DEFINE P == Power(1 + Scale, n)
           M == Magnitude(b)
           V == Magnitude(v)
           c == b - a * v
           C == Magnitude(c)
<1>1. CASE ~is_finite_bound(b)
  BY <1>1, SmallGrows DEF Minus
<1>2. CASE is_finite_bound(b)
  <2>1. b \in Int /\ v \in Int /\ kInfinity \in Nat /\ Scale \in Nat
    BY BoundType, ScaleAssumption DEF SmallBound
  <2>2. a * v \in Int /\ Magnitude(a * v) <= Scale * V
    BY <2>1, MagnitudeOfProduct
  <2>3. Minus(b, a * v) = c
    BY <1>2 DEF Minus
  <2> DEFINE S == Scale * V
  <2>4. V \in Nat /\ M \in Nat /\ S \in Nat
    BY <2>1 DEF Magnitude
  <2>5. c \in Int /\ C \in Nat /\ C <= M + S
    <3> DEFINE s == a * v
    <3>1. s \in Int /\ Magnitude(s) <= S
      BY <2>2
    <3> HIDE DEF s, S, V
    <3>2. b - s \in Int /\ Magnitude(b - s) \in Nat /\ Magnitude(b - s) <= M + S
      BY <2>1, <2>4, <3>1 DEF Magnitude
    <3> QED
      BY <3>2 DEF s
  <2>6. /\ P \in Nat \ {0} /\ M * P \in Nat /\ V * P \in Nat
        /\ M * P + Scale * (M * P) < kInfinity /\ V * P + Scale * (V * P) < kInfinity
    <3>1. 1 + Scale \in Nat \ {0}
      BY <2>1
    <3> QED
      BY <1>2, <3>1, SmallGrows, PowerType
  <2>7. C < kInfinity /\ C * P < kInfinity
    <3> HIDE DEF P, M, V, C, c
    <3> DEFINE mp == M * P
               vp == V * P
               top == IF mp < vp THEN vp ELSE mp
    <3>1. C * P <= (M + S) * P /\ (M + S) * P = mp + Scale * vp
      <4>1. C * P <= (M + S) * P
        BY <2>4, <2>5, <2>6
      <4>2. (M + Scale * V) * P = M * P + Scale * (V * P)
        BY <2>1, <2>4, <2>6
      <4> QED
        BY <4>1, <4>2
    <3>2. C <= C * P /\ C * P \in Nat
      BY <2>5, <2>6
    <3>3. mp \in Nat /\ vp \in Nat /\ mp + Scale * mp < kInfinity /\ vp + Scale * vp < kInfinity
      BY <2>6
    <3> HIDE DEF mp, vp, S
    <3>4. mp <= vp => mp + Scale * vp <= vp + Scale * vp
      BY <2>1, <3>3
    <3>5. vp <= mp => mp + Scale * vp <= mp + Scale * mp
      <4>1. vp <= mp => Scale * vp <= Scale * mp
        BY <2>1, <3>3
      <4>2. Scale * vp \in Int /\ Scale * mp \in Int
        BY <2>1, <3>3
      <4> QED
        BY <3>3, <4>1, <4>2
    <3>6. mp + Scale * vp < kInfinity
      <4>1. Scale * vp \in Int /\ Scale * mp \in Int
        BY <2>1, <3>3
      <4> QED
        BY <2>1, <3>3, <3>4, <3>5, <4>1
    <3>7. (M + S) * P \in Int /\ C \in Nat
      BY <2>4, <2>5, <2>6
    <3> QED
      BY <2>1, <3>1, <3>2, <3>6, <3>7
  <2>8. is_finite_bound(c) /\ c \in Bound
    BY <2>1, <2>5, <2>7 DEF Magnitude, is_finite_bound, Bound
  <2> QED
    BY <1>2, <2>3, <2>7, <2>8 DEF SmallBound, Small
<1> QED
  BY <1>1, <1>2

\* The bounds of a problem are small to begin with.
LEMMA BoundInit == Init => BoundInv
<1> SUFFICES ASSUME Init PROVE BoundInv
  OBVIOUS
<1>1. problem \in Problems
  BY DEF Init
<1>2. Remaining = NumCols
  <2>1. ActiveCols = 1..NumCols
    BY DEF Init, ActiveCols, Cols
  <2> QED
    BY <2>1, FS_Interval, ShapeAssumption DEF Remaining
<1>3. \A b \in BoundsOf(problem) : Small(b, NumCols)
  BY <1>1, MagnitudeAssumption DEF Small
<1>4. /\ \A j \in Cols : SmallBound(col_lower[j], NumCols) /\ SmallBound(col_upper[j], NumCols)
      /\ \A i \in Rows : SmallBound(row_lower[i], NumCols) /\ SmallBound(row_upper[i], NumCols)
  BY <1>1, <1>3, ProblemType DEF Init, SmallBound, BoundsOf
<1>5. validate(problem) => \A j \in Cols : col_lower[j] <= col_upper[j]
  BY DEF Init, validate
<1>6. RowsLeft = NumRows
  <2>1. ActiveRows = 1..NumRows
    BY DEF Init, ActiveRows, Rows
  <2> QED
    BY <2>1, FS_Interval, ShapeAssumption DEF RowsLeft
<1>7. \A b \in BoundsOf(problem) : Grained(b, NumRows)
  <2> SUFFICES ASSUME NEW b \in BoundsOf(problem), is_finite_bound(b)
               PROVE  Multiple(b, Grain(NumRows))
    BY DEF Grained
  <2>1. b \in Int
    BY <1>1, ProblemType, BoundType DEF BoundsOf
  <2>2. Grain(NumRows) \in Int
    BY ScaleAssumption, ShapeAssumption, PowerType DEF Grain
  <2>3. Divides(Grain(NumRows), b)
    BY <1>1, ScaleAssumption DEF Grain
  <2> QED
    BY <2>1, <2>2, <2>3, DividesIsMultiple
<1>8. GrainInv
  BY <1>6, <1>7 DEF Init, GrainInv, BoundsOf
<1> QED
  BY <1>2, <1>4, <1>5, <1>8 DEF BoundInv

\* The bounds that a singleton row implies for its column have room, too.
LEMMA ImpliedBounds ==
  ASSUME TrailInv, BoundInv, NEW i \in ActiveRows, Singleton(i)
  PROVE  LET a == problem.A[i][OnlyCol(i)]
         IN  \A b \in {ImpliedLower(i, a), ImpliedUpper(i, a)} :
               /\ SmallBound(b, Remaining)
               /\ \A n \in Nat : RowsLeft = n + 1 => Grained(b, n)
<1> DEFINE a == problem.A[i][OnlyCol(i)]
           Roomy(b) == /\ SmallBound(b, Remaining)
                       /\ \A n \in Nat : RowsLeft = n + 1 => Grained(b, n)
<1>1. Roomy(kInfinity) /\ Roomy(-kInfinity)
  BY InfinityAssumption DEF SmallBound, Small, Grained, Bound, is_finite_bound
<1>2. \A b \in {row_lower[i], row_upper[i]} : is_finite_bound(b) => Roomy(Quotient(b, a))
  BY RowQuotient
<1> HIDE DEF a, Roomy
<1>3. Roomy(ImpliedLower(i, a))
  BY <1>1, <1>2 DEF ImpliedLower
<1>4. Roomy(ImpliedUpper(i, a))
  BY <1>1, <1>2 DEF ImpliedUpper
<1> QED
  BY <1>3, <1>4 DEF a, Roomy

\* A row with one column holds where the column is within the bounds that the
\* row implies, and is at a bound of its own where the column is at one.
LEMMA ImpliedMeans ==
  ASSUME TrailInv, BoundInv, NEW i \in ActiveRows, Singleton(i), NEW v \in Int
  PROVE  LET a == problem.A[i][OnlyCol(i)]
             L == ImpliedLower(i, a)
             U == ImpliedUpper(i, a)
         IN  /\ a * v \in Int
             /\ Within(a * v, row_lower[i], row_upper[i]) => Within(v, L, U)
             /\ row_lower[i] < kInfinity /\ -kInfinity < row_upper[i] /\ Within(v, L, U)
                  => Within(a * v, row_lower[i], row_upper[i])
             /\ (is_finite_bound(L) /\ v = L) \/ (is_finite_bound(U) /\ v = U)
                  => \/ is_finite_bound(row_lower[i]) /\ a * v = row_lower[i]
                     \/ is_finite_bound(row_upper[i]) /\ a * v = row_upper[i]
<1> DEFINE a == problem.A[i][OnlyCol(i)]
           t == a * v
           lo == row_lower[i]
           hi == row_upper[i]
           ql == Quotient(lo, a)
           qu == Quotient(hi, a)
           L == ImpliedLower(i, a)
           U == ImpliedUpper(i, a)
<1>1. /\ a \in Int /\ a # 0 /\ lo \in Int /\ hi \in Int /\ kInfinity \in Nat \ {0}
      /\ lo \in Bound /\ hi \in Bound
  <2>1. i \in Rows /\ problem \in Problems /\ OnlyCol(i) \in Cols /\ a # 0
    BY DEF Singleton, OnlyCol, ActiveEntries, ActiveCols, ActiveRows, RowEntries, TrailInv,
           WorkType
  <2> QED
    BY <2>1, ProblemType, BoundType DEF TrailInv, WorkType, BoundInv, SmallBound
<1>2. /\ is_finite_bound(lo) => ql \in Int /\ a * ql = lo /\ is_finite_bound(ql)
      /\ is_finite_bound(hi) => qu \in Int /\ a * qu = hi /\ is_finite_bound(qu)
  BY RowQuotient
<1>3. L = (IF a > 0 THEN IF is_finite_bound(lo) THEN ql ELSE -kInfinity
                    ELSE IF is_finite_bound(hi) THEN qu ELSE -kInfinity)
  BY DEF ImpliedLower
<1>4. U = (IF a > 0 THEN IF is_finite_bound(hi) THEN qu ELSE kInfinity
                    ELSE IF is_finite_bound(lo) THEN ql ELSE kInfinity)
  BY DEF ImpliedUpper
<1>5. ~is_finite_bound(kInfinity) /\ ~is_finite_bound(-kInfinity)
  BY <1>1 DEF is_finite_bound
<1> HIDE DEF lo, hi, ql, qu, L, U, a
<1>6. /\ t \in Int
      /\ is_finite_bound(lo) =>
           /\ a > 0 => (lo <= t <=> ql <= v) /\ (t <= lo <=> v <= ql)
           /\ a < 0 => (lo <= t <=> v <= ql) /\ (t <= lo <=> ql <= v)
      /\ is_finite_bound(hi) =>
           /\ a > 0 => (hi <= t <=> qu <= v) /\ (t <= hi <=> v <= qu)
           /\ a < 0 => (hi <= t <=> v <= qu) /\ (t <= hi <=> qu <= v)
  BY <1>1, <1>2, ProductOrder
<1> HIDE DEF t
<1>7. Within(t, lo, hi) => Within(v, L, U)
  <2>1. CASE a > 0
    BY <1>1, <1>2, <1>3, <1>4, <1>5, <1>6, <2>1 DEF Within, AtLeast, AtMost
  <2>2. CASE a < 0
    BY <1>1, <1>2, <1>3, <1>4, <1>5, <1>6, <2>2 DEF Within, AtLeast, AtMost
  <2> QED
    BY <1>1, <2>1, <2>2
<1>8. lo < kInfinity /\ -kInfinity < hi /\ Within(v, L, U) => Within(t, lo, hi)
  <2>1. /\ lo < kInfinity /\ ~is_finite_bound(lo) => lo < 0
        /\ -kInfinity < hi /\ ~is_finite_bound(hi) => hi > 0
    BY <1>1 DEF is_finite_bound
  <2>2. CASE a > 0
    BY <1>1, <1>2, <1>3, <1>4, <1>5, <1>6, <2>1, <2>2 DEF Within, AtLeast, AtMost
  <2>3. CASE a < 0
    BY <1>1, <1>2, <1>3, <1>4, <1>5, <1>6, <2>1, <2>3 DEF Within, AtLeast, AtMost
  <2> QED
    BY <1>1, <2>2, <2>3
<1>9. (is_finite_bound(L) /\ v = L) \/ (is_finite_bound(U) /\ v = U)
        => (is_finite_bound(lo) /\ t = lo) \/ (is_finite_bound(hi) /\ t = hi)
  <2>1. CASE a > 0
    BY <1>1, <1>2, <1>3, <1>4, <1>5, <1>6, <2>1
  <2>2. CASE a < 0
    BY <1>1, <1>2, <1>3, <1>4, <1>5, <1>6, <2>2
  <2> QED
    BY <1>1, <2>1, <2>2
<1> QED
  BY <1>6, <1>7, <1>8, <1>9 DEF t, lo, hi, L, U, a

\* What a singleton row makes of a column's bounds.
LEMMA SingletonBounds ==
  ASSUME TrailInv, BoundInv, NEW i \in ActiveRows, Singleton(i)
  PROVE  LET m == SingletonMove(i)
         IN  \A b \in {m.new_lower, m.new_upper} :
               /\ SmallBound(b, Remaining)
               /\ \A n \in Nat : RowsLeft = n + 1 => Grained(b, n)
<1> DEFINE m == SingletonMove(i)
           a == problem.A[i][OnlyCol(i)]
           Roomy(b) == /\ SmallBound(b, Remaining)
                       /\ \A n \in Nat : RowsLeft = n + 1 => Grained(b, n)
<1>1. /\ m.col \in Cols
      /\ m.new_lower \in {col_lower[m.col], ImpliedLower(i, a)}
      /\ m.new_upper \in {col_upper[m.col], ImpliedUpper(i, a)}
  BY SingletonFields
<1>2. Roomy(col_lower[m.col]) /\ Roomy(col_upper[m.col])
  BY <1>1, GrainWeakens DEF BoundInv, GrainInv, Grained
<1>3. Roomy(ImpliedLower(i, a)) /\ Roomy(ImpliedUpper(i, a))
  BY ImpliedBounds
<1> HIDE DEF m, a, Roomy
<1>4. Roomy(m.new_lower) /\ Roomy(m.new_upper)
  BY <1>1, <1>2, <1>3
<1> QED
  BY <1>4 DEF m, Roomy

\* What folding a column's value into the rows does to their bounds.
FoldedBounds(j, value) ==
  \A i \in ActiveRows :
    /\ row_lower'[i] = Minus(row_lower[i], problem.A[i][j] * value)
    /\ row_upper'[i] = Minus(row_upper[i], problem.A[i][j] * value)
    /\ is_finite_bound(row_lower'[i]) <=> is_finite_bound(row_lower[i])
    /\ is_finite_bound(row_upper'[i]) <=> is_finite_bound(row_upper[i])

\* Folding a fixed column into the bounds of its rows keeps them small.
LEMMA FixBounds ==
  ASSUME TrailInv, BoundInv, NEW j \in Cols, FixStep(j)
  PROVE  /\ FoldedBounds(j, col_lower[j])
         /\ \A i \in Rows : SmallBound(row_lower'[i], Remaining') /\ SmallBound(row_upper'[i], Remaining')
         /\ \A i \in Rows : Grained(row_lower'[i], RowsLeft) /\ Grained(row_upper'[i], RowsLeft)
<1> DEFINE v == col_lower[j]
           n == Remaining'
           touched == ColEntries(problem, j) \cap ActiveRows
<1>1. n \in Nat /\ Remaining = n + 1
  BY RemainingStep DEF FixStep, fix_column, RemoveColumn
<1>2. SmallBound(v, n + 1) /\ is_finite_bound(v)
  BY <1>1 DEF BoundInv, FixStep, ColumnFixed
<1>3. problem \in Problems /\ v \in Int
  BY DEF TrailInv, WorkType
<1>4. ASSUME NEW i \in Rows
      PROVE  /\ problem.A[i][j] \in Int
             /\ problem.A[i][j] = 0 \/ problem.A[i][j] \in Divisor
             /\ SmallBound(row_lower[i], n + 1) /\ SmallBound(row_upper[i], n + 1)
             /\ row_lower'[i] = (IF i \in touched
                                 THEN Minus(row_lower[i], problem.A[i][j] * v) ELSE row_lower[i])
             /\ row_upper'[i] = (IF i \in touched
                                 THEN Minus(row_upper[i], problem.A[i][j] * v) ELSE row_upper[i])
  BY <1>1, <1>3, ProblemType, ProblemDivides DEF BoundInv, FixStep, fix_column
<1>5. \A i \in Rows : SmallBound(row_lower'[i], n) /\ SmallBound(row_upper'[i], n)
  <2> HIDE DEF v, n, touched
  <2> QED
    BY <1>1, <1>2, <1>4, SmallGrows, SmallShift
<1>6. FoldedBounds(j, v)
  <2> SUFFICES ASSUME NEW i \in ActiveRows
               PROVE  /\ row_lower'[i] = Minus(row_lower[i], problem.A[i][j] * v)
                      /\ row_upper'[i] = Minus(row_upper[i], problem.A[i][j] * v)
                      /\ is_finite_bound(row_lower'[i]) <=> is_finite_bound(row_lower[i])
                      /\ is_finite_bound(row_upper'[i]) <=> is_finite_bound(row_upper[i])
    BY DEF FoldedBounds
  <2>1. i \in Rows
    BY DEF ActiveRows
  <2>2. CASE i \in touched
    <3> HIDE DEF v, n, touched
    <3> QED
      BY <1>1, <1>2, <1>4, <2>1, <2>2, SmallShift
  <2>3. CASE i \notin touched
    <3>1. problem.A[i][j] = 0
      BY <2>1, <2>3 DEF ColEntries
    <3>2. problem.A[i][j] * v = 0
      BY <1>3, <3>1
    <3>3. row_lower[i] \in Int /\ row_upper[i] \in Int
      BY <2>1 DEF TrailInv, WorkType
    <3>4. Minus(row_lower[i], 0) = row_lower[i] /\ Minus(row_upper[i], 0) = row_upper[i]
      BY <3>3 DEF Minus
    <3> QED
      BY <1>4, <2>1, <2>3, <3>2, <3>4
  <2> QED
    BY <2>2, <2>3
<1>7. ASSUME NEW i \in Rows
      PROVE  Grained(row_lower'[i], RowsLeft) /\ Grained(row_upper'[i], RowsLeft)
  <2> DEFINE g == Grain(RowsLeft)
             a == problem.A[i][j]
  <2>1. g \in Int
    BY ScaleAssumption, RowsLeftStep, PowerType DEF Grain
  <2>2. Multiple(v, g)
    BY <1>2 DEF BoundInv, GrainInv, Grained
  <2>3. ASSUME NEW b \in {row_lower[i], row_upper[i]}
        PROVE  Grained(b, RowsLeft) /\ Grained(Minus(b, a * v), RowsLeft)
    <3>1. Grained(b, RowsLeft)
      BY DEF BoundInv, GrainInv
    <3>2. CASE is_finite_bound(b)
      <4>1. a \in Int /\ Multiple(b, g)
        BY <1>4, <3>1, <3>2 DEF Grained
      <4> HIDE DEF g, a, v
      <4>2. Multiple(a * v, g)
        BY <2>1, <2>2, <4>1, MultipleSum
      <4>3. Multiple(b - a * v, g) /\ 1 \in Int
        BY <2>1, <4>1, <4>2, MultipleSum
      <4> QED
        BY <3>1, <3>2, <4>3 DEF Minus, Grained, g
    <3>3. CASE ~is_finite_bound(b)
      BY <3>1, <3>3 DEF Minus, Grained
    <3> QED
      BY <3>2, <3>3
  <2> HIDE DEF v, touched
  <2> QED
    BY <1>4, <2>3
<1> QED
  BY <1>5, <1>6, <1>7

\* The working bounds stay bounds, and the finite ones finite.
LEMMA BoundStep == TrailInv /\ BoundInv /\ [Next]_vars => BoundInv'
<1> SUFFICES ASSUME TrailInv, BoundInv, [Next]_vars PROVE BoundInv'
  OBVIOUS
<1>0. Remaining \in Nat
  BY RemainingStep
<1>1. CASE Quiet
  BY <1>1 DEF Quiet, BoundInv, GrainInv, bounds, active, Remaining, ActiveCols, RowsLeft, ActiveRows
<1>2. ASSUME NEW j \in Cols, FixStep(j) \/ EmptyStep(j) PROVE BoundInv'
  <2>1. UNCHANGED <<problem, col_lower, col_upper>>
    BY <1>2 DEF FixStep, EmptyStep, bounds
  <2>2. Remaining' \in Nat /\ Remaining = Remaining' + 1
    BY <1>2, RemainingStep DEF FixStep, fix_column, EmptyStep, RemoveColumn
  <2>3. \A b : SmallBound(b, Remaining) => SmallBound(b, Remaining')
    BY <2>2, SmallGrows
  <2>4. \A i \in Rows : SmallBound(row_lower'[i], Remaining') /\ SmallBound(row_upper'[i], Remaining')
    <3>1. CASE FixStep(j)
      BY <3>1, FixBounds
    <3>2. CASE EmptyStep(j)
      BY <2>3, <3>2 DEF EmptyStep, bounds, BoundInv
    <3> QED
      BY <1>2, <3>1, <3>2
  <2>5. GrainInv'
    <3>1. RowsLeft' = RowsLeft
      BY <1>2 DEF FixStep, EmptyStep, RowsLeft, ActiveRows
    <3>2. CASE FixStep(j)
      BY <2>1, <3>1, <3>2, FixBounds DEF BoundInv, GrainInv
    <3>3. CASE EmptyStep(j)
      BY <3>1, <3>3 DEF EmptyStep, bounds, BoundInv, GrainInv
    <3> QED
      BY <1>2, <3>2, <3>3
  <2> QED
    BY <2>1, <2>3, <2>4, <2>5 DEF BoundInv
<1>3. ASSUME NEW i \in Rows, RedundantStep(i) PROVE BoundInv'
  <2>1. RowsLeft' \in Nat /\ RowsLeft = RowsLeft' + 1
    BY <1>3, RowsLeftStep DEF RedundantStep
  <2>2. GrainInv'
    BY <1>3, <2>1, GrainWeakens DEF RedundantStep, bounds, BoundInv, GrainInv, Grained
  <2> QED
    BY <1>3, <2>2 DEF RedundantStep, BoundInv, bounds, Remaining, ActiveCols
<1>4. ASSUME NEW i \in Rows, SingletonStep(i) PROVE BoundInv'
  <2> DEFINE m == SingletonMove(i)
  <2>0. i \in ActiveRows /\ Singleton(i)
    BY <1>4 DEF SingletonStep, ActiveRows
  <2>1. /\ SmallBound(m.new_lower, Remaining) /\ SmallBound(m.new_upper, Remaining)
        /\ m.col \in Cols
    BY <2>0, SingletonBounds, SingletonFields
  <2>2. m.new_lower <= m.new_upper
    <3>1. m.new_lower \in Int /\ m.new_upper \in Int
      BY <2>1, BoundType DEF SmallBound
    <3>2. ~(m.new_lower > m.new_upper)
      BY <1>4 DEF SingletonStep, crossed
    <3> QED
      BY <3>1, <3>2
  <2>3. /\ UNCHANGED <<problem, row_lower, row_upper, Remaining>>
        /\ col_lower' = [col_lower EXCEPT ![m.col] = m.new_lower]
        /\ col_upper' = [col_upper EXCEPT ![m.col] = m.new_upper]
    BY <1>4 DEF SingletonStep, Remaining, ActiveCols
  <2>4. RowsLeft' \in Nat /\ RowsLeft = RowsLeft' + 1
    BY <1>4, RowsLeftStep DEF SingletonStep
  <2>5. Grained(m.new_lower, RowsLeft') /\ Grained(m.new_upper, RowsLeft')
    BY <2>0, <2>4, SingletonBounds
  <2> HIDE DEF m
  <2>6. GrainInv'
    <3>1. \A b : Grained(b, RowsLeft) => Grained(b, RowsLeft')
      BY <2>4, GrainWeakens DEF Grained
    <3> QED
      BY <2>1, <2>3, <2>5, <3>1 DEF BoundInv, GrainInv, TrailInv, WorkType
  <2> QED
    BY <2>1, <2>2, <2>3, <2>6 DEF BoundInv, TrailInv, WorkType
<1> QED
  BY <1>1, <1>2, <1>3, <1>4, Steps DEF Reduction

-----------------------------------------------------------------------------
(* No reduction cuts off a feasible point *)

\* A point respects the working bounds: those of the columns, the removed ones
\* too, and those of the rows that are left.
Fits(x) ==
  /\ \A j \in Cols : Within(x[j], col_lower[j], col_upper[j])
  /\ \A i \in ActiveRows :
       Within(Activity(problem, x, i, ActiveCols), row_lower[i], row_upper[i])

\* Every feasible point respects the working bounds.
KeepsFeasible == \A x \in [Cols -> Int] : Feasible(problem, x) => Fits(x)

\* Nothing lies between bounds that cross.
LEMMA CrossedIsEmpty ==
  ASSUME NEW lo \in Bound, NEW hi \in Bound, crossed(lo, hi), NEW v \in Int
  PROVE  ~Within(v, lo, hi)
<1>1. lo \in Int /\ hi \in Int /\ kInfinity \in Nat \ {0}
  BY BoundType
<1> QED
  BY <1>1 DEF Within, AtLeast, AtMost, is_finite_bound, Bound, crossed

\* A term moved from the activity into the bounds changes nothing.
LEMMA WithinShift ==
  ASSUME NEW v \in Int, NEW s \in Int, NEW lo \in Int, NEW hi \in Int,
         is_finite_bound(Minus(lo, s)) <=> is_finite_bound(lo),
         is_finite_bound(Minus(hi, s)) <=> is_finite_bound(hi)
  PROVE  Within(s + v, lo, hi) <=> Within(v, Minus(lo, s), Minus(hi, s))
BY DEF Within, AtLeast, AtMost, Minus

\* The activity of an active row, without and with the column that a step
\* removes.
LEMMA ActivityOfRest ==
  ASSUME TrailInv, NEW j \in Cols, col_active[j],
         col_active' = [col_active EXCEPT ![j] = FALSE], NEW i \in Rows,
         NEW x \in [Cols -> Int]
  PROVE  /\ Activity(problem, x, i, ActiveCols') \in Int
         /\ problem.A[i][j] * x[j] \in Int
         /\ Activity(problem, x, i, ActiveCols)
              = problem.A[i][j] * x[j] + Activity(problem, x, i, ActiveCols')
<1>1. /\ problem \in Problems /\ j \in ActiveCols
      /\ ActiveCols \in SUBSET Cols /\ ActiveCols' = ActiveCols \ {j}
  BY RemainingStep DEF TrailInv, WorkType, ActiveCols
<1>2. ActiveCols' \in SUBSET Cols
  BY <1>1
<1>3. problem.A[i][j] * x[j] \in Int
  BY <1>1, ProblemType
<1> QED
  BY <1>1, <1>2, <1>3, ActivityStep

\* A step that fixes a column leaves the same rows to the points that have
\* its value.
LEMMA FixKeepsRows ==
  ASSUME TrailInv, BoundInv, NEW j \in Cols, FixStep(j), NEW x \in [Cols -> Int],
         x[j] = col_lower[j]
  PROVE  /\ ActiveRows' = ActiveRows
         /\ \A i \in ActiveRows :
              Within(Activity(problem, x, i, ActiveCols), row_lower[i], row_upper[i])
              <=> Within(Activity(problem, x, i, ActiveCols)', row_lower'[i], row_upper'[i])
<1>1. /\ ActiveRows' = ActiveRows /\ ActiveRows \subseteq Rows /\ problem' = problem
      /\ col_active[j] /\ col_active' = [col_active EXCEPT ![j] = FALSE]
  BY DEF FixStep, fix_column, RemoveColumn, ActiveRows
<1>2. ASSUME NEW i \in ActiveRows
      PROVE  Within(Activity(problem, x, i, ActiveCols), row_lower[i], row_upper[i])
             <=> Within(Activity(problem, x, i, ActiveCols'), row_lower'[i], row_upper'[i])
  <2> DEFINE s == problem.A[i][j] * x[j]
             a == Activity(problem, x, i, ActiveCols')
  <2>1. a \in Int /\ s \in Int /\ Activity(problem, x, i, ActiveCols) = s + a
    BY <1>1, ActivityOfRest
  <2>2. /\ row_lower'[i] = Minus(row_lower[i], s) /\ row_upper'[i] = Minus(row_upper[i], s)
        /\ is_finite_bound(row_lower'[i]) <=> is_finite_bound(row_lower[i])
        /\ is_finite_bound(row_upper'[i]) <=> is_finite_bound(row_upper[i])
    BY FixBounds DEF FoldedBounds
  <2>3. row_lower[i] \in Int /\ row_upper[i] \in Int
    BY <1>1 DEF TrailInv, WorkType
  <2> HIDE DEF s, a
  <2>4. Within(s + a, row_lower[i], row_upper[i]) <=> Within(a, row_lower'[i], row_upper'[i])
    BY <2>1, <2>2, <2>3, WithinShift
  <2> QED
    BY <2>1, <2>4 DEF a
<1> QED
  BY <1>1, <1>2

\* So does one that removes an empty column.
LEMMA EmptyKeepsRows ==
  ASSUME TrailInv, NEW j \in Cols, EmptyStep(j), NEW x \in [Cols -> Int]
  PROVE  /\ ActiveRows' = ActiveRows /\ UNCHANGED <<problem, bounds>>
         /\ \A i \in ActiveRows :
              Activity(problem, x, i, ActiveCols) = Activity(problem, x, i, ActiveCols')
<1>1. /\ ActiveRows' = ActiveRows /\ ActiveRows \subseteq Rows /\ UNCHANGED <<problem, bounds>>
      /\ col_active[j] /\ col_active' = [col_active EXCEPT ![j] = FALSE]
  BY DEF EmptyStep, RemoveColumn, ActiveRows
<1>2. ASSUME NEW i \in ActiveRows
      PROVE  Activity(problem, x, i, ActiveCols) = Activity(problem, x, i, ActiveCols')
  <2>1. problem.A[i][j] = 0
    BY <1>1 DEF EmptyStep, Emptied, ColEntries
  <2>2. problem.A[i][j] * x[j] = 0
    BY <2>1
  <2> DEFINE rest == Activity(problem, x, i, ActiveCols')
  <2>3. rest \in Int /\ Activity(problem, x, i, ActiveCols) = 0 + rest
    BY <1>1, <2>2, ActivityOfRest
  <2> HIDE DEF rest
  <2>4. Activity(problem, x, i, ActiveCols) = rest
    BY <2>3
  <2> QED
    BY <2>4 DEF rest
<1> QED
  BY <1>1, <1>2

\* The activity of a row with one active column.
LEMMA SingletonActivity ==
  ASSUME TrailInv, BoundInv, NEW i \in ActiveRows, Singleton(i), NEW x \in [Cols -> Int]
  PROVE  LET j == SingletonMove(i).col
         IN  /\ Activity(problem, x, i, ActiveCols) = problem.A[i][OnlyCol(i)] * x[j]
             /\ x[j] \in Int
<1> DEFINE m == SingletonMove(i)
           j == m.col
<1>1. /\ j \in Cols /\ ActiveEntries(i) = {j} /\ problem.A[i][OnlyCol(i)] = problem.A[i][j]
      /\ i \in Rows
  BY SingletonFields DEF ActiveRows
<1> HIDE DEF j
<1>2. /\ problem \in Problems /\ {j} \in SUBSET ActiveCols /\ ActiveCols \in SUBSET Cols
      /\ \A k \in ActiveCols \ {j} : problem.A[i][k] = 0
  BY <1>1 DEF TrailInv, WorkType, ActiveEntries, ActiveCols, RowEntries
<1>3. Activity(problem, x, i, ActiveCols) = Activity(problem, x, i, {j})
  BY <1>1, <1>2, ActivitySupport
<1>4. x[j] \in Int
  BY <1>1
<1>5. Activity(problem, x, i, {j}) = problem.A[i][j] * x[j]
  BY <1>1, <1>2, <1>4, ActivityOfOne
<1> QED
  BY <1>1, <1>3, <1>4, <1>5 DEF j

\* A point that fits has its column within the bounds that the row implies.
LEMMA SingletonFits ==
  ASSUME TrailInv, BoundInv, NEW i \in Rows, row_active[i], Singleton(i),
         NEW x \in [Cols -> Int], Fits(x)
  PROVE  LET m == SingletonMove(i)
         IN  Within(x[m.col], m.new_lower, m.new_upper)
<1> DEFINE m == SingletonMove(i)
           v == x[m.col]
           a == problem.A[i][OnlyCol(i)]
<1>0. i \in ActiveRows
  BY DEF ActiveRows
<1>1. /\ m.col \in Cols
      /\ m.new_lower \in {col_lower[m.col], ImpliedLower(i, a)}
      /\ m.new_upper \in {col_upper[m.col], ImpliedUpper(i, a)}
  BY <1>0, SingletonFields
<1>2. Activity(problem, x, i, ActiveCols) = a * v /\ v \in Int
  BY <1>0, SingletonActivity
<1>3. Within(a * v, row_lower[i], row_upper[i])
  BY <1>0, <1>2 DEF Fits
<1>4. Within(v, ImpliedLower(i, a), ImpliedUpper(i, a))
  BY <1>0, <1>2, <1>3, ImpliedMeans
<1>5. Within(v, col_lower[m.col], col_upper[m.col])
  BY <1>1 DEF Fits
<1> HIDE DEF v, a, m
<1>6. Within(v, m.new_lower, m.new_upper)
  BY <1>1, <1>4, <1>5 DEF Within
<1> QED
  BY <1>6 DEF v, m

\* A term of a row's activity lies between those of its column's bounds.
LEMMA TermOrder ==
  ASSUME NEW a \in Int, a # 0, NEW v \in Int, NEW lo \in Int, NEW hi \in Int, Within(v, lo, hi)
  PROVE  /\ is_finite_bound(IF a > 0 THEN lo ELSE hi) => a * (IF a > 0 THEN lo ELSE hi) <= a * v
         /\ is_finite_bound(IF a > 0 THEN hi ELSE lo) => a * v <= a * (IF a > 0 THEN hi ELSE lo)
<1>1. /\ is_finite_bound(lo) => lo <= v
      /\ is_finite_bound(hi) => v <= hi
  BY DEF Within, AtLeast, AtMost
<1>2. CASE a > 0
  <2>1. (lo <= v => a * lo <= a * v) /\ (v <= hi => a * v <= a * hi)
    BY <1>2, ProductOrder
  <2> QED
    BY <1>1, <1>2, <2>1
<1>3. CASE a < 0
  <2>1. (lo <= v => a * v <= a * lo) /\ (v <= hi => a * hi <= a * v)
    BY <1>3, ProductOrder
  <2>2. ~(a > 0)
    BY <1>3
  <2> QED
    BY <1>1, <2>1, <2>2
<1> QED
  BY <1>2, <1>3

\* The extremes of a row's activity are what the working bounds allow.
LEMMA ExtremesHold ==
  ASSUME TrailInv, NEW i \in Rows, NEW x \in [Cols -> Int],
         \A j \in ActiveCols : Within(x[j], col_lower[j], col_upper[j])
  PROVE  LET act == Activity(problem, x, i, ActiveCols)
         IN  /\ act \in Int /\ min_activity(i) \in Int /\ max_activity(i) \in Int
             /\ min_activity(i) = -kInfinity \/ min_activity(i) <= act
             /\ max_activity(i) = kInfinity \/ act <= max_activity(i)
<1> DEFINE E == ActiveEntries(i)
           f == [j \in E |-> problem.A[i][j] * x[j]]
           side(j, least) == IF (problem.A[i][j] > 0) = least THEN col_lower[j] ELSE col_upper[j]
           g(least) == [j \in E |-> problem.A[i][j] * side(j, least)]
           finite(least) == \A j \in E : is_finite_bound(side(j, least))
<1>1. /\ problem \in Problems /\ E \in SUBSET ActiveCols /\ ActiveCols \in SUBSET Cols
      /\ \A k \in ActiveCols \ E : problem.A[i][k] = 0
      /\ IsFiniteSet(E)
  BY FiniteShape DEF TrailInv, WorkType, ActiveEntries, ActiveCols, RowEntries
<1>2. Activity(problem, x, i, ActiveCols) = SumOver(f, E)
  <2>1. Activity(problem, x, i, ActiveCols) = Activity(problem, x, i, E)
    <3> HIDE DEF E
    <3> QED
      BY <1>1, ActivitySupport
  <2> QED
    BY <2>1 DEF Activity
<1>3. ASSUME NEW j \in E
      PROVE  /\ problem.A[i][j] \in Int /\ problem.A[i][j] # 0 /\ x[j] \in Int
             /\ f[j] = problem.A[i][j] * x[j]
             /\ col_lower[j] \in Int /\ col_upper[j] \in Int
             /\ Within(x[j], col_lower[j], col_upper[j])
  <2>1. problem.A[i][j] \in Int /\ problem.A[i][j] # 0 /\ x[j] \in Int /\ j \in Cols
    BY <1>1, ProblemType DEF ActiveEntries, RowEntries
  <2> QED
    BY <1>1, <2>1 DEF TrailInv, WorkType
<1>4. \A j \in E : f[j] \in Int
  BY <1>3
<1>5. ASSUME NEW least \in BOOLEAN, NEW j \in E
      PROVE  /\ side(j, least) = (IF (problem.A[i][j] > 0) = least THEN col_lower[j] ELSE col_upper[j])
             /\ g(least)[j] = problem.A[i][j] * side(j, least)
             /\ side(j, least) \in Int
  BY <1>3
<1>6. /\ SumOver(f, E) \in Int /\ SumOver(g(TRUE), E) \in Int /\ SumOver(g(FALSE), E) \in Int
  <2>1. \A least \in BOOLEAN : \A j \in E : g(least)[j] \in Int
    BY <1>3, <1>5
  <2> HIDE DEF f, g, E
  <2> QED
    BY <1>1, <1>4, <2>1, SumType
<1>7. /\ min_activity(i) = (IF finite(TRUE) THEN SumOver(g(TRUE), E) ELSE -kInfinity)
      /\ max_activity(i) = (IF finite(FALSE) THEN SumOver(g(FALSE), E) ELSE kInfinity)
  BY DEF min_activity, max_activity, Extreme
<1>8. finite(TRUE) => SumOver(g(TRUE), E) <= SumOver(f, E)
  <2> SUFFICES ASSUME finite(TRUE) PROVE SumOver(g(TRUE), E) <= SumOver(f, E)
    OBVIOUS
  <2> DEFINE h == g(TRUE)
  <2>1. \A j \in E : h[j] \in Int /\ f[j] \in Int /\ h[j] <= f[j]
    <3> TAKE j \in E
    <3> DEFINE a == problem.A[i][j]
    <3>1. /\ a \in Int /\ a # 0 /\ x[j] \in Int /\ col_lower[j] \in Int /\ col_upper[j] \in Int
          /\ Within(x[j], col_lower[j], col_upper[j])
          /\ f[j] = a * x[j]
      BY <1>3
    <3>2. /\ h[j] = a * (IF a > 0 THEN col_lower[j] ELSE col_upper[j])
          /\ is_finite_bound(IF a > 0 THEN col_lower[j] ELSE col_upper[j])
      BY <1>5
    <3> HIDE DEF f, h, a
    <3>3. h[j] \in Int /\ f[j] \in Int
      BY <3>1, <3>2
    <3> QED
      BY <3>1, <3>2, <3>3, TermOrder
  <2> HIDE DEF f, h, E
  <2>2. SumOver(h, E) <= SumOver(f, E)
    BY <1>1, <2>1, SumMonotone
  <2> QED
    BY <2>2 DEF h
<1>9. finite(FALSE) => SumOver(f, E) <= SumOver(g(FALSE), E)
  <2> SUFFICES ASSUME finite(FALSE) PROVE SumOver(f, E) <= SumOver(g(FALSE), E)
    OBVIOUS
  <2> DEFINE h == g(FALSE)
  <2>1. \A j \in E : h[j] \in Int /\ f[j] \in Int /\ f[j] <= h[j]
    <3> TAKE j \in E
    <3> DEFINE a == problem.A[i][j]
    <3>1. /\ a \in Int /\ a # 0 /\ x[j] \in Int /\ col_lower[j] \in Int /\ col_upper[j] \in Int
          /\ Within(x[j], col_lower[j], col_upper[j])
          /\ f[j] = a * x[j]
      BY <1>3
    <3>2. /\ h[j] = a * (IF a > 0 THEN col_upper[j] ELSE col_lower[j])
          /\ is_finite_bound(IF a > 0 THEN col_upper[j] ELSE col_lower[j])
      BY <1>5
    <3> HIDE DEF f, h, a
    <3>3. h[j] \in Int /\ f[j] \in Int
      BY <3>1, <3>2
    <3> QED
      BY <3>1, <3>2, <3>3, TermOrder
  <2> HIDE DEF f, h, E
  <2>2. SumOver(f, E) <= SumOver(h, E)
    BY <1>1, <2>1, SumMonotone
  <2> QED
    BY <2>2 DEF h
<1>10. kInfinity \in Int
  BY InfinityAssumption
<1> HIDE DEF f, g, E, finite
<1>11. /\ min_activity(i) \in Int /\ max_activity(i) \in Int
       /\ min_activity(i) = -kInfinity \/ min_activity(i) <= SumOver(f, E)
       /\ max_activity(i) = kInfinity \/ SumOver(f, E) <= max_activity(i)
  <2>1. min_activity(i) \in Int /\ (min_activity(i) = -kInfinity \/ min_activity(i) <= SumOver(f, E))
    <3>1. CASE finite(TRUE)
      BY <1>6, <1>7, <1>8, <3>1
    <3>2. CASE ~finite(TRUE)
      BY <1>7, <1>10, <3>2
    <3> QED
      BY <3>1, <3>2
  <2>2. max_activity(i) \in Int /\ (max_activity(i) = kInfinity \/ SumOver(f, E) <= max_activity(i))
    <3>1. CASE finite(FALSE)
      BY <1>6, <1>7, <1>9, <3>1
    <3>2. CASE ~finite(FALSE)
      BY <1>7, <1>10, <3>2
    <3> QED
      BY <3>1, <3>2
  <2> QED
    BY <2>1, <2>2
<1> QED
  BY <1>2, <1>6, <1>11

\* A point that respects the bounds respects those of the next step.
LEMMA FitsStep ==
  ASSUME TrailInv, BoundInv, [Next]_vars, NEW x \in [Cols -> Int], Fits(x)
  PROVE  Fits(x)'
<1>1. CASE Quiet
  BY <1>1 DEF Quiet, Fits, bounds, active, ActiveRows, ActiveCols
<1>2. ASSUME NEW j \in Cols, FixStep(j) PROVE Fits(x)'
  <2>1. UNCHANGED <<col_lower, col_upper, problem>>
    BY <1>2 DEF FixStep
  <2>2. x[j] = col_lower[j]
    BY <1>2 DEF FixStep, ColumnFixed, Fits, Within, AtLeast, AtMost, TrailInv, WorkType
  <2> QED
    BY <1>2, <2>1, <2>2, FixKeepsRows DEF Fits
<1>3. ASSUME NEW j \in Cols, EmptyStep(j) PROVE Fits(x)'
  BY <1>3, EmptyKeepsRows DEF Fits, bounds
<1>4. ASSUME NEW i \in Rows, RedundantStep(i) PROVE Fits(x)'
  BY <1>4 DEF RedundantStep, Fits, bounds, ActiveRows, ActiveCols, TrailInv, WorkType
<1>5. ASSUME NEW i \in Rows, SingletonStep(i) PROVE Fits(x)'
  <2> DEFINE m == SingletonMove(i)
  <2>1. Within(x[m.col], m.new_lower, m.new_upper) /\ m.col \in Cols
    BY <1>5, SingletonFits, SingletonFields DEF SingletonStep, ActiveRows
  <2>2. /\ UNCHANGED <<problem, row_lower, row_upper, ActiveCols>>
        /\ ActiveRows' \subseteq ActiveRows
        /\ col_lower' = [col_lower EXCEPT ![m.col] = m.new_lower]
        /\ col_upper' = [col_upper EXCEPT ![m.col] = m.new_upper]
    BY <1>5 DEF SingletonStep, ActiveRows, ActiveCols, TrailInv, WorkType
  <2> HIDE DEF m
  <2> QED
    BY <2>1, <2>2 DEF Fits, TrailInv, WorkType
<1> QED
  BY <1>1, <1>2, <1>3, <1>4, <1>5, Steps DEF Reduction

\* Every feasible point fits the bounds of the problem itself.
LEMMA KeepsFeasibleInit == Init => KeepsFeasible
<1> SUFFICES ASSUME Init, NEW x \in [Cols -> Int], Feasible(problem, x) PROVE Fits(x)
  BY DEF KeepsFeasible
<1>1. ActiveCols = Cols /\ ActiveRows = Rows
  BY DEF Init, ActiveCols, ActiveRows
<1> QED
  BY <1>1 DEF Init, Feasible, Fits

\* No step cuts off a feasible point.
LEMMA KeepsFeasibleStep == TrailInv /\ BoundInv /\ KeepsFeasible /\ [Next]_vars => KeepsFeasible'
<1> SUFFICES ASSUME TrailInv, BoundInv, KeepsFeasible, [Next]_vars,
                    NEW x \in [Cols -> Int], Feasible(problem', x)
             PROVE  Fits(x)'
  BY DEF KeepsFeasible
<1>1. problem' = problem
  BY Steps DEF Quiet, Reduction, FixStep, EmptyStep, RedundantStep, SingletonStep
<1> QED
  BY <1>1, FitsStep DEF KeepsFeasible

\* The claim is made only where no point fits.
InfeasibleInv == status = "Infeasible" => \A x \in [Cols -> Int] : ~Feasible(problem, x)

\* A step that finds a contradiction has proved that no point is feasible.
LEMMA InfeasibleStep ==
  TrailInv /\ BoundInv /\ KeepsFeasible /\ InfeasibleInv /\ [Next]_vars => InfeasibleInv'
<1> SUFFICES ASSUME TrailInv, BoundInv, KeepsFeasible, InfeasibleInv, [Next]_vars,
                    status' = "Infeasible", NEW x \in [Cols -> Int], Feasible(problem', x)
             PROVE  FALSE
  BY DEF InfeasibleInv
<1>1. problem' = problem
  BY Steps DEF Quiet, Reduction, FixStep, EmptyStep, RedundantStep, SingletonStep
<1>2. Fits(x) /\ Feasible(problem, x)
  BY <1>1 DEF KeepsFeasible
<1>3. CASE UNCHANGED status
  BY <1>1, <1>3 DEF InfeasibleInv
<1>4. CASE ScanColumn /\ FoundInfeasible
  <2> DEFINE j == cursor
  <2>1. CASE col_active[j] /\ crossed(col_lower[j], col_upper[j])
    BY <1>2, <1>4, <2>1, CrossedIsEmpty DEF ScanColumn, Fits, BoundInv, SmallBound
  <2>2. CASE ~(col_active[j] /\ crossed(col_lower[j], col_upper[j]))
    BY <1>4, <2>2, <1>3 DEF ScanColumn, reduction
  <2> QED
    BY <2>1, <2>2
<1>5. ASSUME NEW i \in Rows, RowCannotHold(i) PROVE FALSE
  <2>1. ActiveCols \subseteq Cols /\ i \in ActiveRows
    BY <1>5 DEF ActiveCols, ActiveRows, RowCannotHold
  <2> DEFINE act == Activity(problem, x, i, ActiveCols)
  <2>2. /\ act \in Int /\ min_activity(i) \in Int /\ max_activity(i) \in Int
        /\ min_activity(i) = -kInfinity \/ min_activity(i) <= act
        /\ max_activity(i) = kInfinity \/ act <= max_activity(i)
    BY <1>2, <2>1, ExtremesHold DEF Fits
  <2>3. Within(act, row_lower[i], row_upper[i])
    BY <1>2, <2>1 DEF Fits
  <2>4. row_lower[i] \in Int /\ row_upper[i] \in Int /\ kInfinity \in Int
    BY <2>1, BoundType DEF TrailInv, WorkType
  <2> HIDE DEF act
  <2> QED
    BY <1>5, <2>2, <2>3, <2>4
       DEF RowCannotHold, ProvenInfeasible, Within, AtLeast, AtMost, is_finite_bound
<1>6. ASSUME NEW i \in Rows, TightenSingleton(i), FoundInfeasible PROVE FALSE
  <2> DEFINE m == SingletonMove(i)
  <2>1. row_active[i] /\ Singleton(i) /\ i \in ActiveRows
    BY <1>6 DEF TightenSingleton, ActiveRows
  <2>2. m.new_lower \in Bound /\ m.new_upper \in Bound /\ m.col \in Cols
    BY <2>1, SingletonBounds, SingletonFields DEF SmallBound
  <2>3. Within(x[m.col], m.new_lower, m.new_upper)
    BY <1>2, <2>1, SingletonFits
  <2>4. CASE crossed(m.new_lower, m.new_upper)
    BY <2>2, <2>3, <2>4, CrossedIsEmpty
  <2>5. CASE ~crossed(m.new_lower, m.new_upper)
    BY <1>3, <1>6, <2>5 DEF TightenSingleton, RemoveRow
  <2> QED
    BY <2>4, <2>5
<1>7. UNCHANGED status \/ (ScanColumn /\ FoundInfeasible)
      \/ \E i \in Rows : RowCannotHold(i) \/ (TightenSingleton(i) /\ FoundInfeasible)
  <2>1. CASE ScanColumn
    BY <2>1 DEF ScanColumn, fix_column, reduction
  <2>2. CASE ScanRow
    <3>1. PICK i \in Rows : SkipRow(i) \/ RemoveRedundantRow(i) \/ RowCannotHold(i)
                            \/ TightenSingleton(i)
      BY <2>2 DEF ScanRow
    <3> QED
      BY <3>1 DEF SkipRow, RemoveRedundantRow, TightenSingleton, RemoveRow, reduction
  <2>3. CASE ScanEmptyColumn \/ EndColumns \/ EndEmpties \/ Solve \/ GiveUp \/ Replay
             \/ EndReplay \/ Finished \/ UNCHANGED vars
    BY <2>3 DEF ScanEmptyColumn, EndColumns, EndEmpties, Solve, GiveUp, Replay, EndReplay,
                Finished, vars, reduction
  <2>4. CASE RejectProblem \/ EndRound
    BY <2>4 DEF RejectProblem, EndRound
  <2> QED
    BY <2>1, <2>2, <2>3, <2>4 DEF Next
<1> QED
  BY <1>3, <1>4, <1>5, <1>6, <1>7


-----------------------------------------------------------------------------
(* Every point of the reduced problem is one of the original *)

\* A point has the values that the removed columns were given.
Agrees(z) ==
  \A p \in DOMAIN trail : RemovesCol(trail[p]) => z[trail[p].col] = trail[p].value

\* The loops after the first one run on valid problems only.
ValidInv == pc \in {"empties", "rows", "solve", "replay", "solved"} => validate(problem)

\* No working bound is infinite on the wrong side, if none was to begin with.
SaneInv ==
  Sane(problem) =>
    /\ \A j \in Cols : col_lower[j] < kInfinity /\ -kInfinity < col_upper[j]
    /\ \A i \in ActiveRows : row_lower[i] < kInfinity /\ -kInfinity < row_upper[i]

\* Every feasible point of the reduced problem, with the values of the removed
\* columns, is one of the problem.
Lifts ==
  validate(problem) /\ Sane(problem) =>
    \A z \in [Cols -> Int] : Agrees(z) /\ ReducedFeasible(z) => Feasible(problem, z)

\* A step leaves the problem alone.
LEMMA ProblemStep == ASSUME [Next]_vars PROVE problem' = problem
BY Steps DEF Quiet, Reduction, FixStep, EmptyStep, RedundantStep, SingletonStep

\* One more move asks for one more value, if it removes a column.
LEMMA AgreesStep ==
  ASSUME TrailInv, NEW m, trail' = Append(trail, m), NEW z
  PROVE  Agrees(z)' <=> Agrees(z) /\ (RemovesCol(m) => z[m.col] = m.value)
<1> DEFINE last == Len(trail) + 1
<1>1. /\ DOMAIN trail = 1..Len(trail) /\ Len(trail) \in Nat /\ DOMAIN trail' = 1..last
      /\ trail'[last] = m
      /\ \A p \in DOMAIN trail : trail'[p] = trail[p]
  BY DEF TrailInv, WorkType
<1>2. DOMAIN trail' = DOMAIN trail \cup {last}
  BY <1>1
<1> HIDE DEF last
<1> QED
  BY <1>1, <1>2 DEF Agrees, RemovesCol

\* A problem that is not valid is refused before the second loop.
LEMMA ValidStep == ValidInv /\ [Next]_vars => ValidInv'
<1> SUFFICES ASSUME ValidInv, [Next]_vars PROVE ValidInv'
  OBVIOUS
<1>1. validate(problem)' <=> validate(problem)
  BY ProblemStep DEF validate
<1>2. CASE RejectProblem \/ ScanColumn \/ EndColumns \/ ScanEmptyColumn \/ EndEmpties
  BY <1>1, <1>2 DEF RejectProblem, ScanColumn, FoundInfeasible, NextTurn, EndColumns,
                    ScanEmptyColumn, EndEmpties, ValidInv, Validated
<1>3. CASE ScanRow
  BY <1>1, <1>3 DEF ScanRow, Turn, SkipRow, RemoveRedundantRow, RowCannotHold, TightenSingleton,
                    RemoveRow, FoundInfeasible, NextTurn, ValidInv
<1>4. CASE EndRound \/ Solve \/ GiveUp \/ Replay \/ EndReplay \/ Finished \/ UNCHANGED vars
  BY <1>1, <1>4 DEF EndRound, Solve, GiveUp, Replay, EndReplay, Finished, vars, ValidInv
<1> QED
  BY <1>2, <1>3, <1>4 DEF Next

\* No step makes a bound infinite on the wrong side.
LEMMA SaneStep == TrailInv /\ BoundInv /\ SaneInv /\ [Next]_vars => SaneInv'
<1> SUFFICES ASSUME TrailInv, BoundInv, SaneInv, [Next]_vars, Sane(problem)' PROVE SaneInv'
  BY DEF SaneInv
<1>0. Sane(problem) /\ problem' = problem
  BY ProblemStep DEF Sane
<1>1. CASE Quiet
  BY <1>0, <1>1 DEF Quiet, SaneInv, bounds, active, ActiveRows
<1>2. ASSUME NEW j \in Cols, FixStep(j) PROVE SaneInv'
  <2>1. ActiveRows' = ActiveRows /\ UNCHANGED <<col_lower, col_upper>>
    BY <1>2 DEF FixStep, ActiveRows
  <2>2. ASSUME NEW i \in ActiveRows
        PROVE  row_lower'[i] < kInfinity /\ -kInfinity < row_upper'[i]
    <3>1. /\ is_finite_bound(row_lower'[i]) <=> is_finite_bound(row_lower[i])
          /\ is_finite_bound(row_upper'[i]) <=> is_finite_bound(row_upper[i])
          /\ ~is_finite_bound(row_lower[i]) => row_lower'[i] = row_lower[i]
          /\ ~is_finite_bound(row_upper[i]) => row_upper'[i] = row_upper[i]
      BY <1>2, FixBounds DEF FoldedBounds, Minus
    <3> QED
      BY <1>0, <3>1 DEF SaneInv, is_finite_bound
  <2> QED
    BY <1>0, <2>1, <2>2 DEF SaneInv
<1>3. ASSUME NEW j \in Cols, EmptyStep(j) PROVE SaneInv'
  BY <1>0, <1>3 DEF EmptyStep, SaneInv, bounds, ActiveRows
<1>4. ASSUME NEW i \in Rows, RedundantStep(i) PROVE SaneInv'
  BY <1>0, <1>4 DEF RedundantStep, SaneInv, bounds, ActiveRows, TrailInv, WorkType
<1>5. ASSUME NEW i \in Rows, SingletonStep(i) PROVE SaneInv'
  <2> DEFINE m == SingletonMove(i)
             a == problem.A[i][OnlyCol(i)]
  <2>0. i \in ActiveRows /\ Singleton(i)
    BY <1>5 DEF SingletonStep, ActiveRows
  <2>1. /\ m.col \in Cols
        /\ m.new_lower \in {col_lower[m.col], ImpliedLower(i, a)}
        /\ m.new_upper \in {col_upper[m.col], ImpliedUpper(i, a)}
    BY <2>0, SingletonFields
  <2>2. ImpliedLower(i, a) < kInfinity /\ -kInfinity < ImpliedUpper(i, a)
    <3>1. \A b \in {row_lower[i], row_upper[i]} :
            is_finite_bound(b) => is_finite_bound(Quotient(b, a))
      BY <2>0, RowQuotient
    <3> HIDE DEF a
    <3> QED
      BY <3>1, InfinityAssumption DEF ImpliedLower, ImpliedUpper, is_finite_bound
  <2>3. m.new_lower < kInfinity /\ -kInfinity < m.new_upper
    BY <1>0, <2>1, <2>2 DEF SaneInv
  <2>4. /\ UNCHANGED <<row_lower, row_upper>>
        /\ ActiveRows' \subseteq ActiveRows
        /\ col_lower' = [col_lower EXCEPT ![m.col] = m.new_lower]
        /\ col_upper' = [col_upper EXCEPT ![m.col] = m.new_upper]
    BY <1>5 DEF SingletonStep, ActiveRows, TrailInv, WorkType
  <2> HIDE DEF m
  <2> QED
    BY <1>0, <2>1, <2>3, <2>4 DEF SaneInv, TrailInv, WorkType
<1> QED
  BY <1>1, <1>2, <1>3, <1>4, <1>5, Steps DEF Reduction

\* The value given to an empty column is within its bounds.
LEMMA EmptyValueFits ==
  ASSUME TrailInv, BoundInv, SaneInv, validate(problem), Sane(problem),
         NEW j \in Cols, Resolvable(j)
  PROVE  Within(EmptyValue(j), col_lower[j], col_upper[j])
<1>1. /\ col_lower[j] \in Int /\ col_upper[j] \in Int /\ col_lower[j] <= col_upper[j]
      /\ col_lower[j] < kInfinity /\ -kInfinity < col_upper[j]
      /\ kInfinity \in Nat \ {0}
  BY BoundType DEF TrailInv, WorkType, BoundInv, SaneInv
<1>2. \/ EmptyValue(j) = col_lower[j] /\ is_finite_bound(col_lower[j])
      \/ EmptyValue(j) = col_upper[j] /\ is_finite_bound(col_upper[j])
      \/ EmptyValue(j) = 0 /\ ~is_finite_bound(col_lower[j]) /\ ~is_finite_bound(col_upper[j])
  <2>1. problem.objective[j] \in Int /\ problem.minimize \in BOOLEAN
    BY ProblemType DEF TrailInv, WorkType
  <2>2. ~(Favours(j, FALSE) /\ Favours(j, TRUE))
    BY <2>1 DEF Favours
  <2> QED
    BY <2>2 DEF EmptyValue, Resolvable
<1> QED
  BY <1>1, <1>2 DEF Within, AtLeast, AtMost, is_finite_bound

\* A row that cannot bind holds wherever the bounds of its columns do.
LEMMA RedundantHolds ==
  ASSUME TrailInv, SaneInv, Sane(problem), NEW i \in ActiveRows, Redundant(i),
         NEW z \in [Cols -> Int],
         \A j \in ActiveCols : Within(z[j], col_lower[j], col_upper[j])
  PROVE  Within(Activity(problem, z, i, ActiveCols), row_lower[i], row_upper[i])
<1> DEFINE act == Activity(problem, z, i, ActiveCols)
<1>1. /\ act \in Int /\ min_activity(i) \in Int /\ max_activity(i) \in Int
      /\ min_activity(i) = -kInfinity \/ min_activity(i) <= act
      /\ max_activity(i) = kInfinity \/ act <= max_activity(i)
  BY ExtremesHold DEF ActiveRows
<1>2. /\ row_lower[i] \in Int /\ row_upper[i] \in Int /\ kInfinity \in Nat \ {0}
      /\ row_lower[i] < kInfinity /\ -kInfinity < row_upper[i]
  BY BoundType DEF TrailInv, WorkType, ActiveRows, SaneInv
<1>3. /\ is_finite_bound(row_lower[i]) => min_activity(i) >= row_lower[i]
      /\ is_finite_bound(row_upper[i]) => max_activity(i) <= row_upper[i]
  BY DEF Redundant
<1> HIDE DEF act
<1>4. AtLeast(act, row_lower[i])
  BY <1>1, <1>2, <1>3 DEF AtLeast, is_finite_bound
<1>5. AtMost(act, row_upper[i])
  BY <1>1, <1>2, <1>3 DEF AtMost, is_finite_bound
<1> QED
  BY <1>4, <1>5 DEF Within, act

\* Within the bounds that a singleton row implies, the column is within its
\* old ones and the row holds.
LEMMA SingletonHolds ==
  ASSUME TrailInv, BoundInv, SaneInv, Sane(problem), NEW i \in ActiveRows, Singleton(i),
         NEW z \in [Cols -> Int],
         Within(z[SingletonMove(i).col], SingletonMove(i).new_lower, SingletonMove(i).new_upper)
  PROVE  /\ Within(z[SingletonMove(i).col], SingletonMove(i).old_lower,
                   SingletonMove(i).old_upper)
         /\ Within(Activity(problem, z, i, ActiveCols), row_lower[i], row_upper[i])
<1> DEFINE m == SingletonMove(i)
           v == z[m.col]
           a == problem.A[i][OnlyCol(i)]
           L == ImpliedLower(i, a)
           U == ImpliedUpper(i, a)
<1>1. /\ L \in Bound /\ U \in Bound /\ m.old_lower \in Bound /\ m.old_upper \in Bound
      /\ L \in Int /\ U \in Int /\ m.old_lower \in Int /\ m.old_upper \in Int
      /\ m.new_lower = (IF m.old_lower < L THEN L ELSE m.old_lower)
      /\ m.new_upper = (IF m.old_upper > U THEN U ELSE m.old_upper)
  <2>1. /\ m.old_lower = col_lower[m.col] /\ m.old_upper = col_upper[m.col] /\ m.col \in Cols
        /\ m.new_lower = (IF m.old_lower < L THEN L ELSE m.old_lower)
        /\ m.new_upper = (IF m.old_upper > U THEN U ELSE m.old_upper)
    BY SingletonFields
  <2>2. L \in Bound /\ U \in Bound
    BY ImpliedBounds DEF SmallBound
  <2>3. m.old_lower \in Bound /\ m.old_upper \in Bound
    BY <2>1 DEF BoundInv, SmallBound
  <2> QED
    BY <2>1, <2>2, <2>3, BoundType
<1>2. Activity(problem, z, i, ActiveCols) = a * v /\ v \in Int
  BY SingletonActivity
<1>3. /\ row_lower[i] < kInfinity /\ -kInfinity < row_upper[i]
      /\ kInfinity \in Nat \ {0}
  BY BoundType DEF SaneInv
<1>4. Within(v, m.new_lower, m.new_upper)
  OBVIOUS
<1>5. Within(v, L, U) /\ Within(v, m.old_lower, m.old_upper)
  <2> HIDE DEF v, a, m, L, U
  <2> QED
    BY <1>1, <1>2, <1>3, <1>4 DEF Within, AtLeast, AtMost, is_finite_bound, Bound
<1>6. Within(a * v, row_lower[i], row_upper[i])
  BY <1>2, <1>3, <1>5, ImpliedMeans
<1> QED
  BY <1>2, <1>5, <1>6

\* A point of the next reduced problem, with the values of the columns removed
\* so far, is one of this reduced problem.
LEMMA LiftStep ==
  ASSUME TrailInv, BoundInv, SaneInv, validate(problem), Sane(problem), [Next]_vars,
         NEW z \in [Cols -> Int], Agrees(z)', ReducedFeasible(z)'
  PROVE  Agrees(z) /\ ReducedFeasible(z)
<1>1. CASE Quiet
  BY <1>1 DEF Quiet, Agrees, ReducedFeasible, bounds, active, ActiveRows, ActiveCols, RemovesCol
<1>2. ASSUME NEW j \in Cols, FixStep(j) PROVE Agrees(z) /\ ReducedFeasible(z)
  <2>1. /\ UNCHANGED <<col_lower, col_upper, problem>> /\ ColumnFixed(j)
        /\ col_active[j] /\ col_active' = [col_active EXCEPT ![j] = FALSE]
        /\ trail' = Append(trail, ColumnMove("fixed", j, col_lower[j],
                                             ColEntries(problem, j) \cap ActiveRows))
    BY <1>2 DEF FixStep, fix_column, RemoveColumn
  <2>2. Agrees(z) /\ z[j] = col_lower[j]
    BY <2>1, AgreesStep DEF ColumnMove, RemovesCol
  <2>3. \A i \in ActiveRows :
          Within(Activity(problem, z, i, ActiveCols), row_lower[i], row_upper[i])
    BY <1>2, <2>2, FixKeepsRows DEF ReducedFeasible
  <2>4. ActiveCols' = ActiveCols \ {j}
    BY <2>1, RemainingStep
  <2>5. Within(z[j], col_lower[j], col_upper[j])
    BY <2>1, <2>2 DEF ColumnFixed, Within, AtLeast, AtMost, TrailInv, WorkType
  <2> QED
    BY <2>1, <2>2, <2>3, <2>4, <2>5 DEF ReducedFeasible
<1>3. ASSUME NEW j \in Cols, EmptyStep(j) PROVE Agrees(z) /\ ReducedFeasible(z)
  <2>1. /\ UNCHANGED <<bounds, problem>> /\ Resolvable(j)
        /\ col_active[j] /\ col_active' = [col_active EXCEPT ![j] = FALSE]
        /\ trail' = Append(trail, ColumnMove("empty", j, EmptyValue(j), {}))
    BY <1>3 DEF EmptyStep, RemoveColumn
  <2>2. Agrees(z) /\ z[j] = EmptyValue(j)
    BY <2>1, AgreesStep DEF ColumnMove, RemovesCol
  <2>3. ActiveCols' = ActiveCols \ {j} /\ ActiveRows' = ActiveRows
    BY <1>3, <2>1, RemainingStep, EmptyKeepsRows
  <2>4. Within(z[j], col_lower[j], col_upper[j])
    BY <2>1, <2>2, EmptyValueFits
  <2>5. \A i \in ActiveRows : Activity(problem, z, i, ActiveCols)
                                = Activity(problem', z, i, ActiveCols')
    BY <1>3, <2>1, EmptyKeepsRows
  <2> QED
    BY <2>1, <2>2, <2>3, <2>4, <2>5 DEF ReducedFeasible, bounds
<1>4. ASSUME NEW i \in Rows, RedundantStep(i) PROVE Agrees(z) /\ ReducedFeasible(z)
  <2>1. /\ UNCHANGED <<bounds, problem, col_active>> /\ Redundant(i) /\ i \in ActiveRows
        /\ ActiveRows' = ActiveRows \ {i} /\ ActiveCols' = ActiveCols
        /\ trail' = Append(trail, RedundantMoveOf(i))
    BY <1>4 DEF RedundantStep, ActiveRows, ActiveCols, TrailInv, WorkType
  <2>2. Agrees(z)
    BY <2>1, AgreesStep
  <2>3. \A j \in ActiveCols : Within(z[j], col_lower[j], col_upper[j])
    BY <2>1 DEF ReducedFeasible, bounds
  <2>4. Within(Activity(problem, z, i, ActiveCols), row_lower[i], row_upper[i])
    BY <2>1, <2>3, RedundantHolds
  <2> QED
    BY <2>1, <2>2, <2>3, <2>4 DEF ReducedFeasible, bounds
<1>5. ASSUME NEW i \in Rows, SingletonStep(i) PROVE Agrees(z) /\ ReducedFeasible(z)
  <2> DEFINE m == SingletonMove(i)
  <2>1. /\ UNCHANGED <<row_lower, row_upper, problem, col_active>>
        /\ Singleton(i) /\ i \in ActiveRows
        /\ ActiveRows' = ActiveRows \ {i} /\ ActiveCols' = ActiveCols
        /\ trail' = Append(trail, m)
        /\ col_lower' = [col_lower EXCEPT ![m.col] = m.new_lower]
        /\ col_upper' = [col_upper EXCEPT ![m.col] = m.new_upper]
    BY <1>5 DEF SingletonStep, ActiveRows, ActiveCols, TrailInv, WorkType
  <2>2. /\ m.kind = "singleton" /\ m.col \in ActiveCols
        /\ m.old_lower = col_lower[m.col] /\ m.old_upper = col_upper[m.col]
    BY <2>1, SingletonFields DEF ActiveCols
  <2> HIDE DEF m
  <2>3. Agrees(z)
    BY <2>1, <2>2, AgreesStep DEF RemovesCol
  <2>4. /\ Within(z[m.col], m.new_lower, m.new_upper)
        /\ \A j \in ActiveCols \ {m.col} : Within(z[j], col_lower[j], col_upper[j])
    BY <2>1, <2>2 DEF ReducedFeasible, TrailInv, WorkType, ActiveCols
  <2>5. /\ Within(z[m.col], m.old_lower, m.old_upper)
        /\ Within(Activity(problem, z, i, ActiveCols), row_lower[i], row_upper[i])
    BY <2>1, <2>4, SingletonHolds DEF m
  <2> QED
    BY <2>1, <2>2, <2>3, <2>4, <2>5 DEF ReducedFeasible
<1> QED
  BY <1>1, <1>2, <1>3, <1>4, <1>5, Steps DEF Reduction

\* The whole problem is feasible where it is feasible.
LEMMA LiftsInit == Init => ValidInv /\ SaneInv /\ Lifts
<1> SUFFICES ASSUME Init PROVE ValidInv /\ SaneInv /\ Lifts
  OBVIOUS
<1>1. ActiveCols = Cols /\ ActiveRows = Rows
  BY DEF Init, ActiveCols, ActiveRows
<1>2. ValidInv /\ SaneInv
  BY <1>1 DEF Init, ValidInv, SaneInv, Sane
<1>3. Lifts
  BY <1>1 DEF Init, Lifts, ReducedFeasible, Feasible
<1> QED
  BY <1>2, <1>3

\* Every step keeps the reduced problem's feasible points feasible.
LEMMA LiftsStep == TrailInv /\ BoundInv /\ SaneInv /\ Lifts /\ [Next]_vars => Lifts'
<1> SUFFICES ASSUME TrailInv, BoundInv, SaneInv, Lifts, [Next]_vars,
                    validate(problem'), Sane(problem'), NEW z \in [Cols -> Int],
                    Agrees(z)', ReducedFeasible(z)'
             PROVE  Feasible(problem', z)
  BY DEF Lifts
<1>1. problem' = problem
  BY ProblemStep
<1>2. Agrees(z) /\ ReducedFeasible(z)
  BY <1>1, LiftStep
<1> QED
  BY <1>1, <1>2 DEF Lifts

-----------------------------------------------------------------------------
(* What the removed columns cost *)

\* The removed columns cost what the constant says at a point that has their
\* values, and at no feasible point do they cost less.
CostInv ==
  /\ \A z \in [Cols -> Int] : Agrees(z) =>
       Cost(problem, z, Cols) = Cost(problem, z, ActiveCols) + objective_constant_delta
  /\ validate(problem) => \A z \in [Cols -> Int] : Feasible(problem, z) =>
       ~Better(problem, Cost(problem, z, Cols),
               Cost(problem, z, ActiveCols) + objective_constant_delta)

\* The costs, and what was moved out of them, are numbers.
LEMMA CostType ==
  ASSUME TrailInv, NEW z \in [Cols -> Int]
  PROVE  /\ Cost(problem, z, Cols) \in Int /\ Cost(problem, z, ActiveCols) \in Int
         /\ Cost(problem, z, ActiveCols') \in Int
         /\ objective_constant_delta \in Int
<1>1. problem \in Problems /\ ActiveCols \in SUBSET Cols /\ ActiveCols' \in SUBSET Cols
  BY DEF TrailInv, WorkType, ActiveCols
<1> QED
  BY <1>1, CostStep DEF TrailInv, WorkType

\* Nothing has been moved out of the objective to begin with.
LEMMA CostInit == Init => CostInv
<1> SUFFICES ASSUME Init PROVE CostInv
  OBVIOUS
<1>1. ActiveCols = Cols /\ objective_constant_delta = 0 /\ TrailInv
  BY TrailInit DEF Init, ActiveCols
<1>2. problem.minimize \in BOOLEAN
  BY ProblemType DEF Init
<1>3. ASSUME NEW z \in [Cols -> Int]
      PROVE  /\ Cost(problem, z, Cols) = Cost(problem, z, ActiveCols) + objective_constant_delta
             /\ ~Better(problem, Cost(problem, z, Cols),
                        Cost(problem, z, ActiveCols) + objective_constant_delta)
  <2> DEFINE c == Cost(problem, z, Cols)
  <2>1. c \in Int
    BY <1>1, CostType
  <2>2. Cost(problem, z, ActiveCols) = c /\ objective_constant_delta = 0
    BY <1>1
  <2> HIDE DEF c
  <2>3. Cost(problem, z, ActiveCols) + objective_constant_delta = c /\ ~Better(problem, c, c)
    BY <2>1, <2>2 DEF Better
  <2> QED
    BY <2>3 DEF c
<1> QED
  BY <1>3 DEF CostInv

\* No value within the bounds of an empty column is better than its own.
LEMMA EmptyValueIsBest ==
  ASSUME TrailInv, NEW j \in Cols, Resolvable(j), NEW v \in Int,
         Within(v, col_lower[j], col_upper[j])
  PROVE  ~Better(problem, problem.objective[j] * v, problem.objective[j] * EmptyValue(j))
<1> DEFINE c == problem.objective[j]
           w == EmptyValue(j)
<1>1. c \in Int /\ problem.minimize \in BOOLEAN /\ w \in Int
  BY ProblemType, EmptyValueType DEF TrailInv, WorkType
<1>2. col_lower[j] \in Int /\ col_upper[j] \in Int
  BY DEF TrailInv, WorkType
<1>3. CASE c = 0
  <2>1. c * v = 0 /\ c * w = 0
    BY <1>1, <1>3
  <2> QED
    BY <2>1 DEF Better
<1>4. CASE Favours(j, FALSE) /\ is_finite_bound(col_lower[j]) /\ c # 0
  <2>1. w = col_lower[j] /\ w <= v
    BY <1>2, <1>4 DEF EmptyValue, Within, AtLeast
  <2>2. IF problem.minimize THEN c > 0 ELSE c < 0
    BY <1>1, <1>4 DEF Favours
  <2> HIDE DEF c, w
  <2>3. IF problem.minimize THEN c * w <= c * v ELSE c * v <= c * w
    BY <1>1, <2>1, <2>2
  <2>4. c * v \in Int /\ c * w \in Int
    BY <1>1
  <2>5. ~Better(problem, c * v, c * w)
    BY <1>1, <2>3, <2>4 DEF Better
  <2> QED
    BY <2>5 DEF c, w
<1>5. CASE Favours(j, TRUE) /\ is_finite_bound(col_upper[j]) /\ c # 0
  <2>1. ~Favours(j, FALSE)
    BY <1>1, <1>5 DEF Favours
  <2>2. w = col_upper[j] /\ v <= w
    BY <1>2, <1>5, <2>1 DEF EmptyValue, Within, AtMost
  <2>3. IF problem.minimize THEN c < 0 ELSE c > 0
    BY <1>1, <1>5 DEF Favours
  <2> HIDE DEF c, w
  <2>4. IF problem.minimize THEN c * w <= c * v ELSE c * v <= c * w
    BY <1>1, <2>2, <2>3
  <2>5. c * v \in Int /\ c * w \in Int
    BY <1>1
  <2>6. ~Better(problem, c * v, c * w)
    BY <1>1, <2>4, <2>5 DEF Better
  <2> QED
    BY <2>6 DEF c, w
<1> QED
  BY <1>3, <1>4, <1>5 DEF Resolvable

\* The column that a step removes takes its cost into the constant.
LEMMA RemovedCost ==
  ASSUME TrailInv, NEW kind \in {"fixed", "empty"}, NEW j \in Cols, NEW value \in Int, NEW rows,
         col_active[j], RemoveColumn(kind, j, value, rows), problem' = problem,
         NEW z \in [Cols -> Int]
  PROVE  /\ objective_constant_delta' = objective_constant_delta + problem.objective[j] * value
         /\ problem.objective[j] * value \in Int /\ problem.objective[j] * z[j] \in Int
         /\ Cost(problem, z, ActiveCols)
              = problem.objective[j] * z[j] + Cost(problem, z, ActiveCols')
         /\ Agrees(z)' => Agrees(z) /\ z[j] = value
<1>1. /\ objective_constant_delta' = objective_constant_delta + problem.objective[j] * value
      /\ col_active' = [col_active EXCEPT ![j] = FALSE]
      /\ trail' = Append(trail, ColumnMove(kind, j, value, rows))
  BY DEF RemoveColumn
<1>2. /\ problem \in Problems /\ ActiveCols \in SUBSET Cols /\ j \in ActiveCols
      /\ problem.objective[j] \in Int
  BY ProblemType DEF TrailInv, WorkType, ActiveCols
<1>3. problem.objective[j] * value \in Int /\ problem.objective[j] * z[j] \in Int
  BY <1>2
<1>4. ActiveCols' = ActiveCols \ {j}
  BY <1>1, RemainingStep
<1>5. Cost(problem, z, ActiveCols) = problem.objective[j] * z[j] + Cost(problem, z, ActiveCols')
  BY <1>2, <1>4, CostStep
<1>6. Agrees(z)' => Agrees(z) /\ z[j] = value
  BY <1>1, AgreesStep DEF ColumnMove, RemovesCol
<1> QED
  BY <1>1, <1>3, <1>5, <1>6

\* Both parts of the invariant survive the removal of a column whose value is
\* the one the point has, or one that no point betters.
LEMMA RemovedCostStep ==
  ASSUME TrailInv, CostInv, NEW kind \in {"fixed", "empty"}, NEW j \in Cols, NEW value \in Int,
         NEW rows, col_active[j], RemoveColumn(kind, j, value, rows), problem' = problem,
         validate(problem) => \A z \in [Cols -> Int] : Feasible(problem, z) =>
           ~Better(problem, problem.objective[j] * z[j], problem.objective[j] * value)
  PROVE  CostInv'
<1>0. problem.minimize \in BOOLEAN
  BY ProblemType DEF TrailInv, WorkType
<1>1. ASSUME NEW z \in [Cols -> Int], Agrees(z)'
      PROVE  Cost(problem, z, Cols) = Cost(problem, z, ActiveCols') + objective_constant_delta'
  <2> DEFINE t == problem.objective[j] * value
             all == Cost(problem, z, Cols)
             rest == Cost(problem, z, ActiveCols')
             part == Cost(problem, z, ActiveCols)
  <2>1. /\ objective_constant_delta' = objective_constant_delta + t
        /\ t \in Int /\ part = t + rest /\ Agrees(z)
    BY <1>1, RemovedCost
  <2>2. all = part + objective_constant_delta
    BY <2>1 DEF CostInv
  <2>3. all \in Int /\ rest \in Int /\ part \in Int /\ objective_constant_delta \in Int
    BY CostType
  <2> HIDE DEF t, all, rest, part
  <2>4. all = rest + objective_constant_delta'
    BY <2>1, <2>2, <2>3
  <2> QED
    BY <2>4 DEF all, rest
<1>2. ASSUME validate(problem), NEW z \in [Cols -> Int], Feasible(problem, z)
      PROVE  ~Better(problem, Cost(problem, z, Cols),
                     Cost(problem, z, ActiveCols') + objective_constant_delta')
  <2> DEFINE t == problem.objective[j] * value
             s == problem.objective[j] * z[j]
             all == Cost(problem, z, Cols)
             rest == Cost(problem, z, ActiveCols')
             part == Cost(problem, z, ActiveCols)
  <2>1. /\ objective_constant_delta' = objective_constant_delta + t
        /\ t \in Int /\ s \in Int /\ part = s + rest
    BY RemovedCost
  <2>2. ~Better(problem, all, part + objective_constant_delta) /\ ~Better(problem, s, t)
    BY <1>2 DEF CostInv
  <2>3. all \in Int /\ rest \in Int /\ part \in Int /\ objective_constant_delta \in Int
    BY CostType
  <2> HIDE DEF s, t, all, rest, part
  <2>4. ~Better(problem, all, rest + objective_constant_delta')
    BY <1>0, <2>1, <2>2, <2>3 DEF Better
  <2> QED
    BY <2>4 DEF all, rest
<1> QED
  BY <1>1, <1>2 DEF CostInv

\* Every step keeps the objective accounted for.
LEMMA CostInvStep ==
  TrailInv /\ BoundInv /\ KeepsFeasible /\ CostInv /\ [Next]_vars => CostInv'
<1> SUFFICES ASSUME TrailInv, BoundInv, KeepsFeasible, CostInv, [Next]_vars PROVE CostInv'
  OBVIOUS
<1>1. CASE UNCHANGED <<problem, col_active, objective_constant_delta>>
           /\ (trail' = trail \/ \E m : trail' = Append(trail, m))
  <2>1. \A z \in [Cols -> Int] : Agrees(z)' => Agrees(z)
    BY <1>1, AgreesStep DEF Agrees, RemovesCol
  <2>2. UNCHANGED <<problem, ActiveCols, objective_constant_delta>>
    BY <1>1 DEF ActiveCols
  <2> QED
    BY <2>1, <2>2 DEF CostInv
<1>2. ASSUME NEW j \in Cols, FixStep(j) PROVE CostInv'
  <2> DEFINE v == col_lower[j]
  <2>1. v \in Int /\ problem' = problem /\ col_active[j]
        /\ RemoveColumn("fixed", j, v, ColEntries(problem, j) \cap ActiveRows)
    BY <1>2 DEF FixStep, fix_column, TrailInv, WorkType
  <2>2. ASSUME NEW z \in [Cols -> Int], Feasible(problem, z)
        PROVE  ~Better(problem, problem.objective[j] * z[j], problem.objective[j] * v)
    <3>0. Fits(z)
      BY <2>2 DEF KeepsFeasible
    <3>1. z[j] = v
      BY <1>2, <3>0 DEF Fits, FixStep, ColumnFixed, Within, AtLeast, AtMost, TrailInv, WorkType
    <3> DEFINE t == problem.objective[j] * v
    <3>2. t \in Int
      BY <2>1, ProblemType DEF TrailInv, WorkType
    <3> HIDE DEF t
    <3>3. ~Better(problem, t, t)
      BY <3>2 DEF Better
    <3> QED
      BY <3>1, <3>3 DEF t
  <2> HIDE DEF v
  <2> QED
    BY <2>1, <2>2, RemovedCostStep
<1>3. ASSUME NEW j \in Cols, EmptyStep(j) PROVE CostInv'
  <2>1. EmptyValue(j) \in Int /\ problem' = problem /\ col_active[j] /\ Resolvable(j)
        /\ RemoveColumn("empty", j, EmptyValue(j), {})
    BY <1>3, EmptyValueType DEF EmptyStep
  <2>2. ASSUME NEW z \in [Cols -> Int], Feasible(problem, z)
        PROVE  ~Better(problem, problem.objective[j] * z[j], problem.objective[j] * EmptyValue(j))
    BY <2>1, <2>2, EmptyValueIsBest DEF KeepsFeasible, Fits
  <2> QED
    BY <2>1, <2>2, RemovedCostStep
<1>4. CASE Quiet
  BY <1>1, <1>4 DEF Quiet, active
<1>5. ASSUME NEW i \in Rows, RedundantStep(i) \/ SingletonStep(i) PROVE CostInv'
  BY <1>1, <1>5 DEF RedundantStep, SingletonStep
<1> QED
  BY <1>2, <1>3, <1>4, <1>5, Steps DEF Reduction

-----------------------------------------------------------------------------
(* The solver's optimum *)

\* No point of the reduced problem is better than x.
Unbettered(x) ==
  \A z \in [Cols -> Int] : ReducedFeasible(z) =>
    ~Better(problem, Cost(problem, z, ActiveCols), Cost(problem, x, ActiveCols))

\* A multiplier of the right sign charges every move away from its bound.
LEMMA SignedTerm ==
  ASSUME NEW r \in Int, NEW v \in Int, NEW w \in Int, NEW lo \in Int, NEW hi \in Int,
         SignsAgree(r, v, lo, hi), Within(w, lo, hi), problem.minimize \in BOOLEAN
  PROVE  /\ r * (w - v) \in Int
         /\ IF problem.minimize THEN 0 <= r * (w - v) ELSE r * (w - v) <= 0
<1> DEFINE d == w - v
<1>1. d \in Int
  OBVIOUS
<1>2. IF problem.minimize THEN (r > 0 => 0 <= d) /\ (r < 0 => d <= 0)
                          ELSE (r < 0 => 0 <= d) /\ (r > 0 => d <= 0)
  BY DEF SignsAgree, Within, AtLeast, AtMost
<1> HIDE DEF d
<1>3. /\ r > 0 /\ 0 <= d => 0 <= r * d
      /\ r > 0 /\ d <= 0 => r * d <= 0
      /\ r < 0 /\ 0 <= d => r * d <= 0
      /\ r < 0 /\ d <= 0 => 0 <= r * d
      /\ r = 0 => r * d = 0
      /\ r * d \in Int
  BY <1>1
<1>4. r * d \in Int /\ IF problem.minimize THEN 0 <= r * d ELSE r * d <= 0
  <2> DEFINE t == r * d
  <2> HIDE DEF t
  <2>1. t \in Int /\ IF problem.minimize THEN 0 <= t ELSE t <= 0
    BY <1>2, <1>3 DEF t
  <2> QED
    BY <2>1 DEF t
<1> QED
  BY <1>4 DEF d

\* Terms of one sign have a sum of that sign.
LEMMA SumSigned ==
  ASSUME NEW f, NEW S, IsFiniteSet(S), \A k \in S : f[k] \in Int
  PROVE  /\ SumOver(f, S) \in Int
         /\ (\A k \in S : 0 <= f[k]) => 0 <= SumOver(f, S)
         /\ (\A k \in S : f[k] <= 0) => SumOver(f, S) <= 0
<1> DEFINE g == [k \in S |-> 0]
<1>1. \A k \in S : g[k] = 0 /\ g[k] \in Int
  OBVIOUS
<1> HIDE DEF g
<1>2. SumOver(g, S) = 0
  BY <1>1, SumOfZeros
<1>3. (\A k \in S : 0 <= f[k]) => SumOver(g, S) <= SumOver(f, S)
  BY <1>1, SumMonotone
<1>4. (\A k \in S : f[k] <= 0) => SumOver(f, S) <= SumOver(g, S)
  BY <1>1, SumMonotone
<1> QED
  BY <1>2, <1>3, <1>4, SumType

\* Weak duality: multipliers with the signs that optimality asks for prove
\* that no point of the reduced problem is better.
LEMMA OptimalityIsProved ==
  ASSUME TrailInv, NEW x \in [Cols -> Int], NEW y, \A i \in ActiveRows : y[i] \in Int,
         ReducedOptimal(x, y)
  PROVE  Unbettered(x)
<1> SUFFICES ASSUME NEW z \in [Cols -> Int], ReducedFeasible(z)
             PROVE  ~Better(problem, Cost(problem, z, ActiveCols), Cost(problem, x, ActiveCols))
  BY DEF Unbettered
<1> DEFINE I == ActiveRows
           J == ActiveCols
           A == problem.A
           c == problem.objective
           d == [j \in J |-> z[j] - x[j]]
           f == [j \in J |-> (c[j] - Across(A, y, j, I)) * d[j]]
           g == [i \in I |-> y[i] * Along(A, d, i, J)]
           h == [j \in J |-> c[j] * d[j]]
<1>1. /\ problem \in Problems /\ I \in SUBSET Rows /\ J \in SUBSET Cols
      /\ IsFiniteSet(I) /\ IsFiniteSet(J)
      /\ \A i \in I, j \in J : A[i][j] \in Int
      /\ \A j \in J : c[j] \in Int /\ x[j] \in Int /\ z[j] \in Int
      /\ problem.minimize \in BOOLEAN
  <2>1. problem \in Problems /\ I \in SUBSET Rows /\ J \in SUBSET Cols
    BY DEF TrailInv, WorkType, ActiveRows, ActiveCols
  <2>2. IsFiniteSet(I) /\ IsFiniteSet(J)
    BY <2>1, FiniteShape
  <2>3. \A i \in I, j \in J : A[i][j] \in Int
    BY <2>1, ProblemType
  <2>4. \A j \in J : c[j] \in Int /\ x[j] \in Int /\ z[j] \in Int
    BY <2>1, ProblemType
  <2> QED
    BY <2>1, <2>2, <2>3, <2>4, ProblemType
<1>2. \A j \in J : d[j] = z[j] - x[j] /\ d[j] \in Int
  BY <1>1
<1>3. \A j \in J : Across(A, y, j, I) \in Int
  <2> TAKE j \in J
  <2> DEFINE t == [i \in I |-> A[i][j] * y[i]]
  <2>1. \A i \in I : t[i] \in Int
    BY <1>1
  <2> HIDE DEF t
  <2>2. SumOver(t, I) \in Int
    BY <1>1, <2>1, SumType
  <2> QED
    BY <2>2 DEF t, Across
<1>4. ASSUME NEW i \in I
      PROVE  /\ Along(A, d, i, J) \in Int
             /\ Activity(problem, z, i, J) \in Int /\ Activity(problem, x, i, J) \in Int
             /\ Activity(problem, z, i, J) - Activity(problem, x, i, J) = Along(A, d, i, J)
  <2> DEFINE tz == [j \in J |-> A[i][j] * z[j]]
             tx == [j \in J |-> A[i][j] * x[j]]
             td == [j \in J |-> A[i][j] * d[j]]
  <2>1. \A j \in J : td[j] \in Int /\ tx[j] \in Int /\ tz[j] = td[j] + tx[j]
    <3> TAKE j \in J
    <3>1. A[i][j] \in Int
      BY <1>1, ProblemType
    <3>2. d[j] \in Int /\ x[j] \in Int /\ z[j] = d[j] + x[j]
      BY <1>1, <1>2
    <3>3. /\ tz[j] = A[i][j] * z[j] /\ tx[j] = A[i][j] * x[j] /\ td[j] = A[i][j] * d[j]
      OBVIOUS
    <3> HIDE DEF A, d, tz, tx, td
    <3> QED
      BY <3>1, <3>2, <3>3
  <2>2. /\ Activity(problem, z, i, J) = SumOver(tz, J)
        /\ Activity(problem, x, i, J) = SumOver(tx, J)
        /\ Along(A, d, i, J) = SumOver(td, J)
    BY DEF Activity, Along
  <2> HIDE DEF tz, tx, td, d, J
  <2>3. SumOver(tz, J) = SumOver(td, J) + SumOver(tx, J)
    BY <1>1, <2>1, SumPlus
  <2>4. SumOver(td, J) \in Int /\ SumOver(tx, J) \in Int
    BY <1>1, <2>1, SumType
  <2> QED
    BY <2>2, <2>3, <2>4
<1>5. ASSUME NEW i \in I
      PROVE  g[i] \in Int /\ (IF problem.minimize THEN 0 <= g[i] ELSE g[i] <= 0)
  <2> DEFINE az == Activity(problem, z, i, J)
             ax == Activity(problem, x, i, J)
  <2>1. y[i] \in Int /\ az \in Int /\ ax \in Int
        /\ row_lower[i] \in Int /\ row_upper[i] \in Int
    BY <1>1, <1>4 DEF TrailInv, WorkType
  <2>2. SignsAgree(y[i], ax, row_lower[i], row_upper[i]) /\ Within(az, row_lower[i], row_upper[i])
    BY DEF ReducedOptimal, ReducedFeasible
  <2>3. g[i] = y[i] * (az - ax)
    BY <1>4
  <2> HIDE DEF g, az, ax
  <2> QED
    BY <1>1, <2>1, <2>2, <2>3, SignedTerm
<1>6. ASSUME NEW j \in J
      PROVE  f[j] \in Int /\ (IF problem.minimize THEN 0 <= f[j] ELSE f[j] <= 0)
  <2> DEFINE r == c[j] - Across(A, y, j, I)
  <2>1. r \in Int /\ x[j] \in Int /\ z[j] \in Int
        /\ col_lower[j] \in Int /\ col_upper[j] \in Int
    BY <1>1, <1>3 DEF TrailInv, WorkType
  <2>2. r = ReducedCost(problem, y, j, I)
    BY DEF ReducedCost, Across
  <2>3. SignsAgree(r, x[j], col_lower[j], col_upper[j]) /\ Within(z[j], col_lower[j], col_upper[j])
    BY <2>2 DEF ReducedOptimal, ReducedFeasible
  <2>4. f[j] = r * (z[j] - x[j])
    BY <1>2
  <2> HIDE DEF f, r
  <2> QED
    BY <1>1, <2>1, <2>3, <2>4, SignedTerm
<1>7. SumOver(h, J) = SumOver(f, J) + SumOver(g, I)
  <2>1. AreLagrangian(f, g, h, A, c, y, d, I, J)
    BY <1>1, <1>2 DEF AreLagrangian
  <2> HIDE DEF f, g, h, A, c, d, I, J
  <2> QED
    BY <2>1, SumLagrange
<1>8. /\ SumOver(f, J) \in Int /\ SumOver(g, I) \in Int
      /\ IF problem.minimize THEN 0 <= SumOver(f, J) /\ 0 <= SumOver(g, I)
                             ELSE SumOver(f, J) <= 0 /\ SumOver(g, I) <= 0
  <2> HIDE DEF f, g, I, J
  <2> QED
    BY <1>1, <1>5, <1>6, SumSigned
<1>9. /\ Cost(problem, z, J) = SumOver(h, J) + Cost(problem, x, J)
      /\ Cost(problem, z, J) \in Int /\ Cost(problem, x, J) \in Int
  <2> DEFINE tz == [j \in J |-> c[j] * z[j]]
             tx == [j \in J |-> c[j] * x[j]]
  <2>1. \A j \in J : h[j] \in Int /\ tx[j] \in Int /\ tz[j] = h[j] + tx[j]
    <3> TAKE j \in J
    <3>1. c[j] \in Int /\ d[j] \in Int /\ x[j] \in Int /\ z[j] = d[j] + x[j]
      BY <1>1, <1>2
    <3>2. c[j] * d[j] \in Int /\ c[j] * x[j] \in Int
      BY <3>1
    <3>3. c[j] * z[j] = c[j] * d[j] + c[j] * x[j]
      <4> HIDE DEF c, d
      <4> QED
        BY <3>1
    <3> QED
      BY <3>2, <3>3
  <2>2. Cost(problem, z, J) = SumOver(tz, J) /\ Cost(problem, x, J) = SumOver(tx, J)
    BY DEF Cost
  <2> HIDE DEF tz, tx, h, J
  <2>3. SumOver(tz, J) = SumOver(h, J) + SumOver(tx, J)
    BY <1>1, <2>1, SumPlus
  <2>4. SumOver(h, J) \in Int /\ SumOver(tx, J) \in Int
    BY <1>1, <2>1, SumType
  <2> QED
    BY <2>2, <2>3, <2>4
<1> DEFINE F == SumOver(f, J)
           G == SumOver(g, I)
           CZ == Cost(problem, z, J)
           CX == Cost(problem, x, J)
<1>10. /\ F \in Int /\ G \in Int /\ CZ \in Int /\ CX \in Int /\ CZ = (F + G) + CX
       /\ IF problem.minimize THEN 0 <= F /\ 0 <= G ELSE F <= 0 /\ G <= 0
  BY <1>7, <1>8, <1>9
<1> HIDE DEF F, G, CZ, CX
<1>11. ~Better(problem, CZ, CX)
  BY <1>1, <1>10 DEF Better
<1> QED
  BY <1>11 DEF CZ, CX

-----------------------------------------------------------------------------
(* Postsolve *)

\* The types of the solution.
SolutionType ==
  primal \in [Cols -> Int] /\ dual \in [Rows -> Int] /\ reduced_costs \in [Cols -> Int]

\* The columns that the solver was given have its values, and the moves that
\* have been undone have restored theirs.
ReplayInv ==
  /\ pc \in {"replay", "solved"} => ReducedFeasible(primal) /\ Unbettered(primal)
  /\ pc = "replay" =>
       /\ cursor \in 0..Len(trail)
       /\ \A p \in DOMAIN trail : p > cursor /\ RemovesCol(trail[p]) =>
            primal[trail[p].col] = trail[p].value
  /\ pc = "solved" => Agrees(primal)

\* The rows whose removal is still to be undone.
RowsToUndo ==
  {i \in Rows : \E p \in DOMAIN trail :
     p <= cursor /\ RemovesRow(trail[p]) /\ trail[p].row = i}
Undos == Cardinality(RowsToUndo)

\* Every multiplier may be divided once for each of them.
AllMultiple(f, S, g) == \A x \in S : Multiple(f[x], g)
DualsGrained ==
  pc = "replay" =>
    AllMultiple(dual, Rows, Grain(Undos)) /\ AllMultiple(reduced_costs, Cols, Grain(Undos))

\* The steps that touch the solution, or that are taken while it is there.
LEMMA SolutionSteps ==
  ASSUME [Next]_vars
  PROVE  \/ pc' \notin {"replay", "solved"} /\ UNCHANGED solution
         \/ Solve \/ Replay \/ EndReplay
         \/ UNCHANGED vars
<1>1. CASE RejectProblem \/ ScanColumn \/ EndColumns \/ ScanEmptyColumn \/ EndEmpties
  BY <1>1 DEF RejectProblem, ScanColumn, FoundInfeasible, NextTurn, EndColumns,
              ScanEmptyColumn, EndEmpties
<1>2. CASE ScanRow
  BY <1>2 DEF ScanRow, Turn, SkipRow, RemoveRedundantRow, RowCannotHold, TightenSingleton,
              RemoveRow, FoundInfeasible, NextTurn
<1>3. CASE EndRound \/ GiveUp
  BY <1>3 DEF EndRound, GiveUp
<1>4. CASE Finished
  BY <1>4 DEF Finished
<1> QED
  BY <1>1, <1>2, <1>3, <1>4 DEF Next

\* A move that is undone, by its kind.
LEMMA MoveFields ==
  ASSUME TrailInv, NEW p \in DOMAIN trail
  PROVE  LET m == trail[p]
         IN  /\ m \in Move
             /\ m.kind \in {"fixed", "empty"} => m \in ColMove /\ RemovesCol(m)
             /\ m.kind = "singleton" => m \in SingletonMoves /\ ~RemovesCol(m)
             /\ m.kind = "redundant" => m \in RedundantMove /\ ~RemovesCol(m)
             /\ m.kind \in {"fixed", "empty", "singleton", "redundant"}
BY DEF TrailInv, WorkType, Move, ColMove, SingletonMoves, RedundantMove, RemovesCol

\* What a reduced cost is restored from is a number.
LEMMA UndoneCostType ==
  ASSUME TrailInv, SolutionType, NEW m \in ColMove
  PROVE  SumOver([i \in m.rows |-> problem.A[i][m.col] * dual[i]], m.rows) \in Int
<1> DEFINE R == m.rows
           f == [i \in R |-> problem.A[i][m.col] * dual[i]]
<1>1. R \in SUBSET Rows /\ m.col \in Cols /\ IsFiniteSet(R)
  BY FiniteShape DEF ColMove
<1>2. \A i \in R : f[i] \in Int
  <2> TAKE i \in R
  <2>1. problem.A[i][m.col] \in Int /\ dual[i] \in Int
    BY <1>1, ProblemType DEF TrailInv, WorkType, SolutionType
  <2> QED
    BY <2>1
<1> HIDE DEF f
<1>3. SumOver(f, R) \in Int
  <2> HIDE DEF R
  <2> QED
    BY <1>1, <1>2, SumType
<1> QED
  BY <1>3 DEF f

\* The rows to undo are a finite set, which loses the row of the move that is
\* being undone.
LEMMA UndosStep ==
  ASSUME TrailInv, cursor \in DOMAIN trail, UNCHANGED trail, cursor' = cursor - 1
  PROVE  /\ Undos \in Nat /\ Undos' \in Nat
         /\ RemovesRow(trail[cursor]) => Undos = Undos' + 1
         /\ ~RemovesRow(trail[cursor]) => Undos = Undos'
<1> DEFINE m == trail[cursor]
<1>1. IsFiniteSet(RowsToUndo) /\ Undos \in Nat
  BY FiniteShape, FS_CardinalityType DEF RowsToUndo, Undos
<1>2. DOMAIN trail = 1..Len(trail) /\ Len(trail) \in Nat /\ cursor \in Int
  BY DEF TrailInv, WorkType
<1>3. \A p \in DOMAIN trail : p <= cursor - 1 <=> p <= cursor /\ p # cursor
  BY <1>2
<1>4. RowsToUndo' = {i \in Rows : \E p \in DOMAIN trail :
                       p <= cursor - 1 /\ RemovesRow(trail[p]) /\ trail[p].row = i}
  BY DEF RowsToUndo, RemovesRow
<1>5. CASE RemovesRow(m)
  <2>1. m.row \in Rows
    BY <1>5, MoveFields DEF RedundantMove, SingletonMoves, RemovesRow
  <2>2. m.row \in RowsToUndo
    BY <1>2, <1>5, <2>1 DEF RowsToUndo
  <2>3. ASSUME NEW p \in DOMAIN trail, p <= cursor - 1, RemovesRow(trail[p])
        PROVE  trail[p].row # m.row
    <3>1. p < cursor
      BY <1>2, <2>3
    <3>2. ~UsesRow(m, trail[p].row)
      BY <2>3, <3>1 DEF TrailInv, TrailCanBeReplayed
    <3> QED
      BY <1>5, <3>2 DEF UsesRow
  <2>4. RowsToUndo' = RowsToUndo \ {m.row}
    <3>1. ASSUME NEW i \in Rows
          PROVE  i \in RowsToUndo' <=> i \in RowsToUndo /\ i # m.row
      BY <1>3, <1>4, <2>3 DEF RowsToUndo
    <3>2. RowsToUndo \subseteq Rows /\ RowsToUndo' \subseteq Rows
      BY <1>4 DEF RowsToUndo
    <3> QED
      BY <3>1, <3>2
  <2>5. /\ IsFiniteSet(RowsToUndo \ {m.row})
        /\ Cardinality(RowsToUndo \ {m.row}) = Cardinality(RowsToUndo) - 1
    BY <1>1, <2>2, FS_RemoveElement
  <2>6. Cardinality(RowsToUndo \ {m.row}) \in Nat
    BY <2>5, FS_CardinalityType
  <2>7. Undos' = Undos - 1 /\ Undos' \in Nat
    BY <2>4, <2>5, <2>6 DEF Undos
  <2> QED
    BY <1>1, <1>5, <2>7
<1>6. CASE ~RemovesRow(m)
  <2>1. RowsToUndo' = RowsToUndo
    BY <1>3, <1>4, <1>6 DEF RowsToUndo
  <2> QED
    BY <1>1, <1>6, <2>1 DEF Undos
<1> QED
  BY <1>5, <1>6

\* The dual of a singleton row is an exact quotient.
LEMMA UndoneDual ==
  ASSUME TrailInv, ReplayInv, DualsGrained, pc = "replay", cursor > 0,
         trail[cursor].kind = "singleton"
  PROVE  LET m == trail[cursor]
             q == Quotient(reduced_costs[m.col], m.coeff)
         IN  /\ q \in Int
             /\ \A n \in Nat : Undos = n + 1 => Multiple(q, Grain(n))
<1> DEFINE m == trail[cursor]
           r == reduced_costs[m.col]
<1>1. cursor \in DOMAIN trail
  BY DEF ReplayInv, TrailInv, WorkType
<1>2. m.col \in Cols /\ m.coeff \in Divisor /\ m.row \in Rows
  BY <1>1, MoveFields DEF SingletonMoves
<1>3. m.row \in RowsToUndo
  BY <1>1, <1>2 DEF RowsToUndo, RemovesRow, TrailInv, WorkType
<1>4. PICK n \in Nat : Undos = n + 1
  <2>1. IsFiniteSet(RowsToUndo)
    BY FiniteShape DEF RowsToUndo
  <2>2. /\ IsFiniteSet(RowsToUndo \ {m.row})
        /\ Cardinality(RowsToUndo \ {m.row}) = Cardinality(RowsToUndo) - 1
    BY <1>3, <2>1, FS_RemoveElement
  <2>3. Cardinality(RowsToUndo) \in Nat /\ Cardinality(RowsToUndo \ {m.row}) \in Nat
    BY <2>1, <2>2, FS_CardinalityType
  <2> DEFINE c == Cardinality(RowsToUndo \ {m.row})
  <2>4. c \in Nat /\ Undos = c + 1
    BY <2>2, <2>3 DEF Undos
  <2> QED
    BY <2>4
<1>5. Multiple(r, Grain(n + 1))
  BY <1>2, <1>4 DEF DualsGrained, AllMultiple
<1>6. Quotient(r, m.coeff) \in Int /\ Multiple(Quotient(r, m.coeff), Grain(n))
  BY <1>2, <1>5, QuotientExact
<1>7. \A k \in Nat : Undos = k + 1 => k = n
  BY <1>4
<1> QED
  BY <1>6, <1>7

\* Every step keeps the types of the solution.
LEMMA SolutionTypeStep ==
  TrailInv /\ SolutionType /\ ReplayInv /\ DualsGrained /\ [Next]_vars => SolutionType'
<1> SUFFICES ASSUME TrailInv, SolutionType, ReplayInv, DualsGrained, [Next]_vars
             PROVE  SolutionType'
  OBVIOUS
<1>1. CASE Solve
  <2>1. PICK x \in {x \in [ActiveCols -> Grid] : ReducedFeasible(x)} :
        \E y \in [ActiveRows -> DualGrid] :
          /\ primal' = [j \in Cols |-> IF col_active[j] THEN x[j] ELSE 0]
          /\ dual' = [i \in Rows |-> IF row_active[i] THEN y[i] ELSE 0]
          /\ reduced_costs' = [j \in Cols |->
               IF col_active[j] THEN ReducedCost(problem, y, j, ActiveRows) ELSE 0]
    BY <1>1 DEF Solve
  <2>2. PICK y \in [ActiveRows -> DualGrid] :
          /\ primal' = [j \in Cols |-> IF col_active[j] THEN x[j] ELSE 0]
          /\ dual' = [i \in Rows |-> IF row_active[i] THEN y[i] ELSE 0]
          /\ reduced_costs' = [j \in Cols |->
               IF col_active[j] THEN ReducedCost(problem, y, j, ActiveRows) ELSE 0]
    BY <2>1
  <2>3. primal' \in [Cols -> Int] /\ dual' \in [Rows -> Int]
    <3>1. ASSUME NEW j \in Cols PROVE (IF col_active[j] THEN x[j] ELSE 0) \in Int
      <4>1. CASE col_active[j]
        <5>1. j \in ActiveCols
          BY <4>1 DEF ActiveCols
        <5>2. x[j] \in Grid
          BY <5>1
        <5> QED
          BY <4>1, <5>2, GridAssumption
      <4> QED
        BY <4>1
    <3>2. ASSUME NEW i \in Rows PROVE (IF row_active[i] THEN y[i] ELSE 0) \in Int
      <4>1. CASE row_active[i]
        <5>1. i \in ActiveRows
          BY <4>1 DEF ActiveRows
        <5>2. y[i] \in DualGrid
          BY <5>1
        <5> QED
          BY <4>1, <5>2, GridAssumption
      <4> QED
        BY <4>1
    <3> QED
      BY <2>2, <3>1, <3>2
  <2>4. ASSUME NEW j \in Cols PROVE ReducedCost(problem, y, j, ActiveRows) \in Int
    <3> DEFINE I == ActiveRows
               f == [i \in I |-> problem.A[i][j] * y[i]]
    <3>1. I \in SUBSET Rows /\ IsFiniteSet(I) /\ problem \in Problems
      BY FiniteShape DEF ActiveRows, TrailInv, WorkType
    <3>2. \A i \in I : f[i] \in Int
      <4> TAKE i \in I
      <4>1. problem.A[i][j] \in Int /\ y[i] \in Int
        BY <3>1, ProblemType, GridAssumption
      <4> QED
        BY <4>1
    <3> HIDE DEF f
    <3>3. SumOver(f, I) \in Int
      <4> HIDE DEF I
      <4> QED
        BY <3>1, <3>2, SumType
    <3>4. problem.objective[j] \in Int
      BY <3>1, ProblemType
    <3> QED
      BY <3>3, <3>4 DEF ReducedCost, f
  <2> QED
    BY <2>2, <2>3, <2>4 DEF SolutionType
<1>2. CASE Replay
  <2> DEFINE m == trail[cursor]
  <2>1. cursor \in DOMAIN trail
    BY <1>2 DEF Replay, ReplayInv, TrailInv, WorkType
  <2>2. CASE m.kind \in {"fixed", "empty"}
    <3>1. m \in ColMove /\ UndoColumn(m)
      BY <1>2, <2>1, <2>2, MoveFields DEF Replay
    <3>2. SumOver([i \in m.rows |-> problem.A[i][m.col] * dual[i]], m.rows) \in Int
      BY <3>1, UndoneCostType
    <3> HIDE DEF m
    <3>3. m.obj_coeff \in Int /\ m.value \in Int /\ m.col \in Cols
      BY <3>1 DEF ColMove, CostValue
    <3>4. m.obj_coeff - SumOver([i \in m.rows |-> problem.A[i][m.col] * dual[i]], m.rows) \in Int
      BY <3>2, <3>3
    <3> QED
      BY <3>1, <3>3, <3>4 DEF UndoColumn, SolutionType
  <2>3. CASE m.kind = "singleton"
    <3>1. m \in SingletonMoves /\ UndoSingleton(m)
      BY <1>2, <2>1, <2>3, MoveFields DEF Replay
    <3>2. m.row \in Rows /\ m.col \in Cols
      BY <3>1 DEF SingletonMoves
    <3>3. Quotient(reduced_costs[m.col], m.coeff) \in Int
      BY <1>2, <2>3, UndoneDual DEF Replay
    <3> HIDE DEF m
    <3> QED
      BY <3>1, <3>2, <3>3 DEF UndoSingleton, SolutionType
  <2>4. CASE m.kind = "redundant"
    <3>1. m \in RedundantMove /\ UndoRedundant(m)
      BY <1>2, <2>1, <2>4, MoveFields DEF Replay
    <3> QED
      BY <3>1 DEF UndoRedundant, SolutionType, RedundantMove
  <2> QED
    BY <2>1, <2>2, <2>3, <2>4, MoveFields
<1>3. CASE UNCHANGED solution
  BY <1>3 DEF solution, SolutionType
<1> QED
  BY <1>1, <1>2, <1>3, SolutionSteps DEF EndReplay, vars

\* A reduced cost is a whole number of grains if the duals are.
LEMMA ReducedCostMultiple ==
  ASSUME NEW c, NEW n \in Nat, n <= NumRows, Multiple(c, Grain(NumRows)),
         NEW S \in SUBSET Rows, NEW a, \A i \in S : a[i] \in Int,
         NEW y, \A i \in S : Multiple(y[i], Grain(n)),
         NEW f, \A i \in S : f[i] = a[i] * y[i]
  PROVE  Multiple(c - SumOver(f, S), Grain(n))
<1>1. Grain(n) \in Int /\ NumRows \in Nat
  BY GrainSteps, ShapeAssumption
<1>2. \A i \in S : Multiple(f[i], Grain(n))
  <2> TAKE i \in S
  <2>1. a[i] \in Int /\ Multiple(y[i], Grain(n)) /\ f[i] = a[i] * y[i]
    OBVIOUS
  <2> QED
    BY <1>1, <2>1, MultipleSum
<1>3. IsFiniteSet(S)
  BY FiniteShape
<1>4. Multiple(SumOver(f, S), Grain(n))
  BY <1>1, <1>2, <1>3, SumOfMultiples
<1>5. Multiple(c, Grain(n))
  BY <1>1, GrainDown
<1> QED
  BY <1>1, <1>4, <1>5, MultipleSum

\* Every step leaves the multipliers whole numbers of grains.
LEMMA DualsGrainedStep ==
  TrailInv /\ SolutionType /\ ReplayInv /\ DualsGrained /\ [Next]_vars => DualsGrained'
<1> SUFFICES ASSUME TrailInv, SolutionType, ReplayInv, DualsGrained, [Next]_vars
             PROVE  DualsGrained'
  OBVIOUS
<1>p. problem \in Problems
  BY DEF TrailInv, WorkType
<1>1. CASE Solve
  <2> DEFINE n == Undos'
             g == Grain(n)
  <2>1. PICK x \in {x \in [ActiveCols -> Grid] : ReducedFeasible(x)},
             y \in [ActiveRows -> DualGrid] :
          /\ dual' = [i \in Rows |-> IF row_active[i] THEN y[i] ELSE 0]
          /\ reduced_costs' = [j \in Cols |->
               IF col_active[j] THEN ReducedCost(problem, y, j, ActiveRows) ELSE 0]
    BY <1>1 DEF Solve
  <2>2. n \in Nat /\ n <= NumRows
    <3> DEFINE R == RowsToUndo'
    <3>1. R \subseteq Rows
      BY DEF RowsToUndo
    <3> HIDE DEF R
    <3>2. Cardinality(R) \in Nat /\ Cardinality(R) <= Cardinality(Rows)
      BY <3>1, FiniteShape, FS_Subset, FS_CardinalityType
    <3>3. Cardinality(Rows) = NumRows
      BY ShapeAssumption, FS_Interval DEF Rows
    <3>4. n = Cardinality(R)
      BY DEF Undos, R
    <3> HIDE DEF n
    <3> QED
      BY <3>2, <3>3, <3>4
  <2> HIDE DEF n
  <2>3. Grain(NumRows) \in Int /\ g \in Int /\ NumRows \in Nat
    BY <2>2, GrainSteps, ShapeAssumption
  <2>4. \A i \in ActiveRows : Multiple(y[i], g)
    <3> TAKE i \in ActiveRows
    <3>1. y[i] \in DualGrid /\ y[i] \in Int
      BY GridAssumption
    <3>2. Divides(Grain(NumRows), y[i])
      BY <3>1, ScaleAssumption DEF Grain
    <3>3. Multiple(y[i], Grain(NumRows))
      BY <2>3, <3>1, <3>2, DividesIsMultiple
    <3> QED
      BY <2>2, <2>3, <3>3, GrainDown
  <2>5. ASSUME NEW j \in Cols PROVE Multiple(ReducedCost(problem, y, j, ActiveRows), g)
    <3> DEFINE I == ActiveRows
               a == [i \in I |-> problem.A[i][j]]
               f == [i \in I |-> problem.A[i][j] * y[i]]
    <3>1. I \in SUBSET Rows /\ \A i \in I : a[i] \in Int /\ f[i] = a[i] * y[i]
      BY <1>p, ProblemType DEF ActiveRows
    <3>2. Multiple(problem.objective[j], Grain(NumRows))
      BY <1>p, ProblemDivides DEF CostValue
    <3>3. ReducedCost(problem, y, j, ActiveRows) = problem.objective[j] - SumOver(f, I)
      BY DEF ReducedCost
    <3>4. \A i \in I : Multiple(y[i], Grain(n))
      BY <2>4
    <3> HIDE DEF f, a, I
    <3> QED
      BY <2>2, <3>1, <3>2, <3>3, <3>4, ReducedCostMultiple
  <2>6. Multiple(0, g)
    BY <2>3, MultipleZero
  <2> HIDE DEF g
  <2>7. AllMultiple(dual', Rows, g)
    BY <2>1, <2>4, <2>6 DEF AllMultiple, ActiveRows
  <2>8. AllMultiple(reduced_costs', Cols, g)
    BY <2>1, <2>5, <2>6 DEF AllMultiple
  <2> QED
    BY <2>7, <2>8 DEF DualsGrained, AllMultiple, g, n
<1>2. CASE Replay
  <2> DEFINE m == trail[cursor]
             n == Undos'
             g == Grain(n)
  <2>1. cursor \in DOMAIN trail /\ cursor' = cursor - 1 /\ UNCHANGED trail /\ pc = "replay"
        /\ cursor > 0
    BY <1>2 DEF Replay, ReplayInv, reduction, TrailInv, WorkType
  <2>2. /\ Undos \in Nat /\ n \in Nat
        /\ RemovesRow(m) => Undos = n + 1
        /\ ~RemovesRow(m) => Undos = n
    BY <2>1, UndosStep
  <2>3. AllMultiple(dual, Rows, g) /\ AllMultiple(reduced_costs, Cols, g)
    <3>1. n <= Undos
      <4> HIDE DEF n, m
      <4> QED
        BY <2>2
    <3> HIDE DEF n
    <3> QED
      BY <2>1, <2>2, <3>1, GrainDown DEF DualsGrained, AllMultiple
  <2>4. g \in Int /\ Multiple(0, g)
    BY <2>2, GrainSteps, MultipleZero
  <2>5. CASE m.kind \in {"fixed", "empty"}
    <3> DEFINE R == m.rows
               f == [i \in R |-> problem.A[i][m.col] * dual[i]]
               a == [i \in R |-> problem.A[i][m.col]]
               r == m.obj_coeff - SumOver(f, R)
    <3>1. m \in ColMove /\ UndoColumn(m) /\ ~RemovesRow(m)
      BY <1>2, <2>1, <2>5, MoveFields DEF Replay, RemovesRow
    <3>2. /\ R \in SUBSET Rows /\ m.col \in Cols /\ Multiple(m.obj_coeff, Grain(NumRows))
      BY <3>1 DEF ColMove, CostValue
    <3>3. \A i \in R : a[i] \in Int /\ f[i] = a[i] * dual[i] /\ Multiple(dual[i], Grain(n))
      BY <1>p, <2>3, <3>2, ProblemType DEF AllMultiple
    <3>4. n <= NumRows
      <4>1. RowsToUndo \subseteq Rows
        BY DEF RowsToUndo
      <4>2. Cardinality(RowsToUndo) <= Cardinality(Rows)
        BY <4>1, FiniteShape, FS_Subset
      <4>3. Cardinality(Rows) = NumRows
        BY ShapeAssumption, FS_Interval DEF Rows
      <4>4. n = Cardinality(RowsToUndo)
        BY <2>2, <3>1 DEF Undos
      <4> HIDE DEF n
      <4> QED
        BY <4>2, <4>3, <4>4
    <3>5. Multiple(r, g)
      <4> HIDE DEF f, a, R, m, n
      <4> QED
        BY <2>2, <3>2, <3>3, <3>4, ReducedCostMultiple
    <3>6. dual' = dual /\ reduced_costs' = [reduced_costs EXCEPT ![m.col] = r]
      BY <3>1 DEF UndoColumn
    <3> HIDE DEF r, g, m
    <3>7. AllMultiple(reduced_costs', Cols, g)
      BY <2>3, <3>5, <3>6 DEF AllMultiple, SolutionType
    <3> QED
      BY <2>3, <3>6, <3>7 DEF DualsGrained, AllMultiple, g
  <2>6. CASE m.kind = "singleton"
    <3> DEFINE q == Quotient(reduced_costs[m.col], m.coeff)
    <3>1. m \in SingletonMoves /\ UndoSingleton(m) /\ RemovesRow(m)
      BY <1>2, <2>1, <2>6, MoveFields DEF Replay, RemovesRow
    <3>2. m.row \in Rows /\ m.col \in Cols
      BY <3>1 DEF SingletonMoves
    <3>3. Multiple(q, g)
      BY <2>1, <2>2, <2>6, <3>1, UndoneDual
    <3>4. \/ dual' = [dual EXCEPT ![m.row] = q]
             /\ reduced_costs' = [reduced_costs EXCEPT ![m.col] = 0]
          \/ dual' = [dual EXCEPT ![m.row] = 0] /\ reduced_costs' = reduced_costs
      BY <3>1 DEF UndoSingleton
    <3> HIDE DEF q, g, m
    <3>5. AllMultiple(dual', Rows, g) /\ AllMultiple(reduced_costs', Cols, g)
      BY <2>3, <2>4, <3>2, <3>3, <3>4 DEF AllMultiple, SolutionType
    <3> QED
      BY <3>5 DEF DualsGrained, AllMultiple, g
  <2>7. CASE m.kind = "redundant"
    <3>1. m \in RedundantMove /\ UndoRedundant(m)
      BY <1>2, <2>1, <2>7, MoveFields DEF Replay
    <3>2. m.row \in Rows /\ dual' = [dual EXCEPT ![m.row] = 0] /\ reduced_costs' = reduced_costs
      BY <3>1 DEF RedundantMove, UndoRedundant
    <3> HIDE DEF g, m
    <3>3. AllMultiple(dual', Rows, g) /\ AllMultiple(reduced_costs', Cols, g)
      BY <2>3, <2>4, <3>2 DEF AllMultiple, SolutionType
    <3> QED
      BY <3>3 DEF DualsGrained, AllMultiple, g
  <2> QED
    BY <2>1, <2>5, <2>6, <2>7, MoveFields
<1>3. CASE EndReplay
  BY <1>3 DEF EndReplay, DualsGrained
<1>4. CASE UNCHANGED vars
  BY <1>4 DEF vars, reduction, solution, DualsGrained, AllMultiple, Undos, RowsToUndo, RemovesRow
<1>5. CASE pc' \notin {"replay", "solved"}
  BY <1>5 DEF DualsGrained
<1> QED
  BY <1>1, <1>2, <1>3, <1>4, <1>5, SolutionSteps

\* Two points that agree on the active columns are alike to the reduced
\* problem.
LEMMA ReducedAgrees ==
  ASSUME TrailInv, NEW x, NEW z, \A j \in ActiveCols : x[j] \in Int /\ z[j] = x[j]
  PROVE  /\ ReducedFeasible(z) <=> ReducedFeasible(x)
         /\ Unbettered(z) <=> Unbettered(x)
         /\ \A y : ReducedOptimal(z, y) <=> ReducedOptimal(x, y)
<1>1. ActiveCols \in SUBSET Cols /\ ActiveRows \in SUBSET Rows /\ problem \in Problems
  BY DEF ActiveCols, ActiveRows, TrailInv, WorkType
<1>2. /\ \A i \in Rows : Activity(problem, x, i, ActiveCols) = Activity(problem, z, i, ActiveCols)
      /\ Cost(problem, x, ActiveCols) = Cost(problem, z, ActiveCols)
  BY <1>1, ActivityAgrees
<1> QED
  BY <1>1, <1>2 DEF ReducedFeasible, Unbettered, ReducedOptimal

\* There is no solution to begin with.
LEMMA ReplayInit == Init => SolutionType /\ ReplayInv /\ DualsGrained
BY DEF Init, SolutionType, ReplayInv, DualsGrained

\* Undoing the moves from the end restores the values one by one.
LEMMA ReplayStep ==
  TrailInv /\ BoundInv /\ SolutionType /\ ReplayInv /\ DualsGrained /\ [Next]_vars
  => ReplayInv'
<1> SUFFICES ASSUME TrailInv, BoundInv, SolutionType, ReplayInv, DualsGrained, [Next]_vars
             PROVE  ReplayInv'
  OBVIOUS
<1>0. TrailInv' /\ SolutionType'
  BY TrailStep, SolutionTypeStep
<1>t. DOMAIN trail = 1..Len(trail) /\ Len(trail) \in Nat
  BY DEF TrailInv, WorkType
<1>1. CASE Solve
  <2>1. PICK x \in {x \in [ActiveCols -> Grid] : ReducedFeasible(x)},
             y \in [ActiveRows -> DualGrid] :
          /\ ReducedOptimal(x, y)
          /\ primal' = [j \in Cols |-> IF col_active[j] THEN x[j] ELSE 0]
    BY <1>1 DEF Solve
  <2>2. UNCHANGED <<problem, bounds, active, trail>> /\ pc' = "replay" /\ cursor' = Len(trail)
    BY <1>1 DEF Solve, reduction
  <2>3. primal' \in [Cols -> Int] /\ \A j \in ActiveCols : x[j] \in Int /\ primal'[j] = x[j]
    BY <1>0, <2>1, GridAssumption DEF SolutionType, ActiveCols
  <2>4. ReducedFeasible(primal') /\ ReducedOptimal(primal', y)
    BY <2>1, <2>3, ReducedAgrees
  <2>5. Unbettered(primal')
    BY <2>3, <2>4, OptimalityIsProved, GridAssumption
  <2>6. ReducedFeasible(primal)' /\ Unbettered(primal)'
    BY <2>2, <2>4, <2>5 DEF ReducedFeasible, Unbettered, active, bounds, ActiveCols, ActiveRows
  <2> QED
    BY <1>t, <2>2, <2>6 DEF ReplayInv
<1>2. CASE Replay
  <2> DEFINE m == trail[cursor]
  <2>1. cursor \in DOMAIN trail /\ cursor' = cursor - 1 /\ pc = "replay" /\ pc' = "replay"
        /\ UNCHANGED <<problem, bounds, active, trail>>
    BY <1>2, <1>t DEF Replay, ReplayInv, reduction
  <2>2. \/ RemovesCol(m) /\ m.col \in Cols /\ ~col_active[m.col]
           /\ primal' = [primal EXCEPT ![m.col] = m.value]
        \/ ~RemovesCol(m) /\ primal' = primal
    BY <1>2, <2>1, MoveFields
       DEF Replay, UndoColumn, UndoSingleton, UndoRedundant, ColMove, TrailInv, RemovedInv
  <2>3. \A j \in ActiveCols : primal[j] \in Int /\ primal'[j] = primal[j]
    BY <2>2 DEF SolutionType, ActiveCols
  <2>4. ReducedFeasible(primal') /\ Unbettered(primal')
    BY <2>1, <2>3, ReducedAgrees DEF ReplayInv
  <2>5. ReducedFeasible(primal)' /\ Unbettered(primal)'
    BY <2>1, <2>4 DEF ReducedFeasible, Unbettered, active, bounds, ActiveCols, ActiveRows
  <2>6. ASSUME NEW p \in DOMAIN trail, p > cursor - 1, RemovesCol(trail[p])
        PROVE  primal'[trail[p].col] = trail[p].value
    <3>1. CASE p = cursor
      BY <2>2, <2>6, <3>1 DEF SolutionType
    <3>2. CASE p # cursor
      <4>1. p > cursor /\ primal[trail[p].col] = trail[p].value /\ trail[p].col \in Cols
        BY <1>t, <2>1, <2>6, <3>2, MoveFields DEF ReplayInv, ColMove, RemovesCol
      <4>2. RemovesCol(m) => m.col # trail[p].col
        BY <2>1, <2>6, <4>1 DEF TrailInv, TrailCanBeReplayed, UsesCol, RemovesCol
      <4> QED
        BY <2>2, <4>1, <4>2 DEF SolutionType
    <3> QED
      BY <3>1, <3>2
  <2> QED
    BY <1>t, <2>1, <2>5, <2>6 DEF ReplayInv, RemovesCol
<1>3. CASE EndReplay
  <2>1. UNCHANGED <<problem, bounds, active, trail, primal>> /\ pc = "replay" /\ pc' = "solved"
        /\ cursor = 0
    BY <1>3 DEF EndReplay, reduction, solution
  <2>2. ReducedFeasible(primal)' /\ Unbettered(primal)'
    BY <2>1 DEF ReplayInv, ReducedFeasible, Unbettered, active, bounds, ActiveCols, ActiveRows
  <2>3. Agrees(primal)'
    BY <1>t, <2>1 DEF ReplayInv, Agrees, RemovesCol
  <2> QED
    BY <2>1, <2>2, <2>3 DEF ReplayInv
<1>4. CASE UNCHANGED vars
  BY <1>4 DEF vars, reduction, solution, ReplayInv, Agrees, RemovesCol, ReducedFeasible,
              Unbettered, active, bounds, ActiveCols, ActiveRows
<1>5. CASE pc' \notin {"replay", "solved"}
  BY <1>5 DEF ReplayInv
<1> QED
  BY <1>1, <1>2, <1>3, <1>4, <1>5, SolutionSteps

\* With every move undone, the point is feasible and optimal.
LEMMA SolvedIsOptimal ==
  ASSUME TrailInv, KeepsFeasible, ValidInv, Lifts, CostInv, SolutionType, ReplayInv
  PROVE  OptimumIsRestored
<1> SUFFICES ASSUME pc = "solved", Sane(problem)
             PROVE  /\ Feasible(problem, primal)
                    /\ Cost(problem, primal, Cols)
                         = Cost(problem, primal, ActiveCols) + objective_constant_delta
                    /\ \A x \in [Cols -> Grid] : Feasible(problem, x) =>
                         ~Better(problem, Cost(problem, x, Cols), Cost(problem, primal, Cols))
  BY DEF OptimumIsRestored
<1>1. /\ validate(problem) /\ primal \in [Cols -> Int] /\ Agrees(primal)
      /\ ReducedFeasible(primal) /\ Unbettered(primal)
  BY DEF ValidInv, SolutionType, ReplayInv
<1>2. Feasible(problem, primal)
  BY <1>1 DEF Lifts
<1>3. Cost(problem, primal, Cols) = Cost(problem, primal, ActiveCols) + objective_constant_delta
  BY <1>1 DEF CostInv
<1>4. ASSUME NEW x \in [Cols -> Grid], Feasible(problem, x)
      PROVE  ~Better(problem, Cost(problem, x, Cols), Cost(problem, primal, Cols))
  <2> DEFINE cx == Cost(problem, x, Cols)
             rx == Cost(problem, x, ActiveCols)
             cp == Cost(problem, primal, Cols)
             rp == Cost(problem, primal, ActiveCols)
  <2>1. x \in [Cols -> Int]
    BY GridAssumption
  <2>2. Fits(x)
    BY <1>4, <2>1 DEF KeepsFeasible
  <2>3. ReducedFeasible(x)
    BY <2>2 DEF Fits, ReducedFeasible, ActiveCols
  <2>4. /\ ~Better(problem, rx, rp)
        /\ ~Better(problem, cx, rx + objective_constant_delta)
        /\ cp = rp + objective_constant_delta
    BY <1>1, <1>3, <1>4, <2>1, <2>3 DEF Unbettered, CostInv
  <2>5. cx \in Int /\ rx \in Int /\ cp \in Int /\ rp \in Int /\ objective_constant_delta \in Int
    BY <1>1, <2>1, CostType
  <2>6. problem.minimize \in BOOLEAN
    BY ProblemType DEF TrailInv, WorkType
  <2> HIDE DEF cx, rx, cp, rp
  <2>7. ~Better(problem, cx, cp)
    BY <2>4, <2>5, <2>6 DEF Better
  <2> QED
    BY <2>7 DEF cx, cp
<1> QED
  BY <1>2, <1>3, <1>4

-----------------------------------------------------------------------------
(* The fixpoint *)

\* The types of what controls the loops.
ControlType ==
  /\ pc \in {"columns", "empties", "rows", "solve", "replay", "solved", "done"}
  /\ round \in 1..MaxRounds
  /\ cursor \in Nat
  /\ changed \in BOOLEAN
  /\ status \in {"none", "Reduced", "Infeasible", "Error"}

\* The loops have nothing to do for the columns and rows before n.
FixedDone(n) == \A j \in ActiveCols : j < n => ~ColumnFixed(j)
EmptiesDone(n) == \A j \in ActiveCols : j < n => ~(Emptied(j) /\ Resolvable(j))
RowsDone(n) ==
  \A i \in ActiveRows : i < n => ~Redundant(i) /\ ~ProvenInfeasible(i) /\ ~Singleton(i)

\* One past the last column and the last row.
AllCols == NumCols + 1
AllRows == NumRows + 1

\* As long as nothing has changed in a round, what it has passed is done.
ScanInv ==
  /\ pc = "columns" /\ ~changed => FixedDone(cursor)
  /\ pc = "empties" /\ ~changed => FixedDone(AllCols) /\ EmptiesDone(cursor)
  /\ pc = "rows" /\ ~changed =>
       FixedDone(AllCols) /\ EmptiesDone(AllCols) /\ RowsDone(cursor)
  /\ pc = "solve" /\ round < MaxRounds =>
       FixedDone(AllCols) /\ EmptiesDone(AllCols) /\ RowsDone(AllRows)

\* Every step keeps the types of what controls the loops.
LEMMA ControlStep == TrailInv /\ ControlType /\ [Next]_vars => ControlType'
<1> SUFFICES ASSUME TrailInv, ControlType, [Next]_vars PROVE ControlType'
  OBVIOUS
<1>1. CASE RejectProblem \/ EndColumns \/ EndEmpties \/ GiveUp \/ EndReplay
  BY <1>1 DEF RejectProblem, EndColumns, EndEmpties, GiveUp, EndReplay, reduction, ControlType
<1> DEFINE Turns ==
             /\ pc' = pc \/ pc' = "done"
             /\ round' = round
             /\ cursor' = cursor \/ cursor' = cursor + 1
             /\ changed' = changed \/ changed' = TRUE
             /\ status' = status \/ status' = "Infeasible"
<1>t. Turns => ControlType'
  <2> SUFFICES ASSUME Turns PROVE ControlType'
    OBVIOUS
  <2>1. changed' \in BOOLEAN
    BY DEF ControlType
  <2>2. cursor' \in Nat
    BY DEF ControlType
  <2> QED
    BY <2>1, <2>2 DEF ControlType
<1>2. CASE ScanColumn
  <2>1. CASE FoundInfeasible
    BY <1>t, <2>1 DEF FoundInfeasible
  <2>2. CASE ~FoundInfeasible
    <3>1. NextTurn /\ status' = status /\ round' = round /\ (changed' = changed \/ changed' = TRUE)
      BY <1>2, <2>2 DEF ScanColumn, fix_column, RemoveColumn, reduction
    <3> QED
      BY <1>t, <3>1 DEF NextTurn
  <2> QED
    BY <2>1, <2>2
<1>3. CASE ScanEmptyColumn
  <2>1. NextTurn /\ status' = status /\ round' = round /\ (changed' = changed \/ changed' = TRUE)
    BY <1>3 DEF ScanEmptyColumn, RemoveColumn, reduction
  <2> QED
    BY <1>t, <2>1 DEF NextTurn
<1>4. CASE ScanRow
  <2>1. PICK i \in Rows : SkipRow(i) \/ RemoveRedundantRow(i) \/ RowCannotHold(i)
                          \/ TightenSingleton(i)
    BY <1>4 DEF ScanRow
  <2>2. \/ FoundInfeasible
        \/ NextTurn /\ status' = status /\ round' = round /\ (changed' = changed \/ changed' = TRUE)
    BY <2>1 DEF SkipRow, RemoveRedundantRow, RowCannotHold, TightenSingleton, RemoveRow, reduction
  <2> QED
    BY <1>t, <2>2 DEF NextTurn, FoundInfeasible
<1>5. CASE EndRound
  <2>1. /\ cursor' = 1 /\ changed' = FALSE
        /\ \/ pc' = "columns" /\ round < MaxRounds /\ round' = round + 1 /\ status' = status
           \/ pc' = "solve" /\ round' = round /\ status' = "Reduced"
    BY <1>5 DEF EndRound, AnotherRound
  <2>2. round' \in 1..MaxRounds
    BY <2>1, RoundsAssumption DEF ControlType
  <2> QED
    BY <2>1, <2>2 DEF ControlType
<1>6. CASE Solve
  BY <1>6 DEF Solve, reduction, ControlType, TrailInv, WorkType
<1>7. CASE Replay
  BY <1>7 DEF Replay, reduction, ControlType
<1>8. CASE Finished \/ UNCHANGED vars
  BY <1>8 DEF Finished, vars, reduction, ControlType
<1> QED
  BY <1>1, <1>2, <1>3, <1>4, <1>5, <1>6, <1>7, <1>8 DEF Next

\* What is done does not depend on the control.
LEMMA DoneStays ==
  ASSUME UNCHANGED <<problem, bounds, active>>
  PROVE  \A n \in Nat : /\ FixedDone(n)' <=> FixedDone(n)
                        /\ EmptiesDone(n)' <=> EmptiesDone(n)
                        /\ RowsDone(n)' <=> RowsDone(n)
<1>1. ActiveCols' = ActiveCols /\ ActiveRows' = ActiveRows
  BY DEF active, ActiveCols, ActiveRows
<1>2. UNCHANGED <<problem, col_lower, col_upper, row_lower, row_upper>>
  BY DEF bounds
<1>3. \A j : ColumnFixed(j)' <=> ColumnFixed(j)
  BY <1>2 DEF ColumnFixed
<1>4. \A j : (Emptied(j) /\ Resolvable(j))' <=> (Emptied(j) /\ Resolvable(j))
  BY <1>1, <1>2 DEF Emptied, Resolvable, Favours
<1>5. \A i : ActiveEntries(i)' = ActiveEntries(i)
  BY <1>1, <1>2 DEF ActiveEntries
<1>6. \A i : min_activity(i)' = min_activity(i) /\ max_activity(i)' = max_activity(i)
  BY <1>2, <1>5 DEF min_activity, max_activity, Extreme
<1>7. \A i : /\ Redundant(i)' <=> Redundant(i)
             /\ ProvenInfeasible(i)' <=> ProvenInfeasible(i)
             /\ Singleton(i)' <=> Singleton(i)
  BY <1>2, <1>5, <1>6 DEF Redundant, ProvenInfeasible, Singleton
<1>8. \A n \in Nat : FixedDone(n)' <=> FixedDone(n)
  BY <1>1, <1>3 DEF FixedDone
<1>9. \A n \in Nat : EmptiesDone(n)' <=> EmptiesDone(n)
  BY <1>1, <1>4 DEF EmptiesDone
<1>10. \A n \in Nat : RowsDone(n)' <=> RowsDone(n)
  BY <1>1, <1>7 DEF RowsDone
<1> QED
  BY <1>8, <1>9, <1>10

\* No loop has passed anything to begin with.
LEMMA ScanInit == Init => ControlType /\ ScanInv
<1> SUFFICES ASSUME Init PROVE ControlType /\ ScanInv
  OBVIOUS
<1>1. ControlType
  <2>1. 1 \in 1..MaxRounds /\ 1 \in Nat
    BY RoundsAssumption
  <2> QED
    BY <2>1 DEF Init, ControlType
<1>2. ActiveCols \subseteq 1..NumCols
  BY DEF ActiveCols, Cols
<1>3. FixedDone(1)
  BY <1>2, ShapeAssumption DEF FixedDone
<1> QED
  BY <1>1, <1>3 DEF Init, ScanInv

\* A loop that changes nothing has left nothing behind it to do.
LEMMA ScanStep == TrailInv /\ ControlType /\ ScanInv /\ [Next]_vars => ScanInv'
<1> SUFFICES ASSUME TrailInv, ControlType, ScanInv, [Next]_vars PROVE ScanInv'
  OBVIOUS
<1>0. /\ cursor \in Nat /\ AllCols \in Nat /\ AllRows \in Nat /\ cursor + 1 \in Nat
      /\ ActiveCols \subseteq 1..NumCols /\ ActiveRows \subseteq 1..NumRows
  BY ShapeAssumption DEF ControlType, AllCols, AllRows, ActiveCols, ActiveRows, Cols, Rows
<1>1. CASE ScanColumn
  <2> DEFINE j == cursor
  <2>1. CASE pc' = "done" \/ (pc' = "columns" /\ changed')
    BY <2>1 DEF ScanInv
  <2>2. CASE ~(pc' = "done" \/ (pc' = "columns" /\ changed'))
    <3>1. /\ ~(col_active[j] /\ ColumnFixed(j)) /\ j \in Cols
          /\ pc = "columns" /\ pc' = pc /\ cursor' = cursor + 1
          /\ UNCHANGED <<problem, bounds, active, changed>>
      BY <1>1, <2>2 DEF ScanColumn, FoundInfeasible, NextTurn, fix_column, RemoveColumn, reduction
    <3>2. ~changed => FixedDone(cursor + 1)
      BY <1>0, <3>1 DEF ScanInv, FixedDone, ActiveCols
    <3> QED
      BY <1>0, <3>1, <3>2, DoneStays DEF ScanInv
  <2> QED
    BY <2>1, <2>2
<1>2. CASE ScanEmptyColumn
  <2> DEFINE j == cursor
  <2>1. CASE pc' = "empties" /\ changed'
    BY <2>1 DEF ScanInv
  <2>2. CASE ~(pc' = "empties" /\ changed')
    <3>1. /\ ~(col_active[j] /\ Emptied(j) /\ Resolvable(j)) /\ j \in Cols
          /\ pc = "empties" /\ pc' = pc /\ cursor' = cursor + 1
          /\ UNCHANGED <<problem, bounds, active, changed>>
      BY <1>2, <2>2 DEF ScanEmptyColumn, NextTurn, RemoveColumn, reduction
    <3>2. ~changed => EmptiesDone(cursor + 1)
      BY <1>0, <3>1 DEF ScanInv, EmptiesDone, ActiveCols
    <3> QED
      BY <1>0, <3>1, <3>2, DoneStays DEF ScanInv
  <2> QED
    BY <2>1, <2>2
<1>3. CASE ScanRow
  <2>1. CASE pc' = "done" \/ (pc' = "rows" /\ changed')
    BY <2>1 DEF ScanInv
  <2>2. CASE ~(pc' = "done" \/ (pc' = "rows" /\ changed'))
    <3>1. PICK i \in Rows : SkipRow(i)
      BY <1>3, <2>2 DEF ScanRow, RemoveRedundantRow, RowCannotHold, TightenSingleton, Turn,
                        RemoveRow, NextTurn, FoundInfeasible
    <3>2. /\ i = cursor
          /\ ~row_active[i] \/ (~Redundant(i) /\ ~ProvenInfeasible(i) /\ ~Singleton(i))
          /\ pc = "rows" /\ pc' = pc /\ cursor' = cursor + 1
          /\ UNCHANGED <<problem, bounds, active, changed>>
      BY <3>1 DEF SkipRow, Turn, NextTurn, reduction
    <3>3. ~changed => RowsDone(cursor + 1)
      BY <1>0, <3>2 DEF ScanInv, RowsDone, ActiveRows
    <3> QED
      BY <1>0, <3>2, <3>3, DoneStays DEF ScanInv
  <2> QED
    BY <2>1, <2>2
<1>4. CASE EndColumns
  <2>1. /\ pc = "columns" /\ pc' = "empties" /\ cursor > NumCols /\ cursor' = 1
        /\ UNCHANGED <<problem, bounds, active, changed>>
    BY <1>4 DEF EndColumns, reduction
  <2>2. ~changed => FixedDone(AllCols) /\ EmptiesDone(1)
    BY <1>0, <2>1, ShapeAssumption DEF ScanInv, FixedDone, EmptiesDone, AllCols
  <2> QED
    BY <1>0, <2>1, <2>2, DoneStays DEF ScanInv
<1>5. CASE EndEmpties
  <2>1. /\ pc = "empties" /\ pc' = "rows" /\ cursor > NumCols /\ cursor' = 1
        /\ UNCHANGED <<problem, bounds, active, changed>>
    BY <1>5 DEF EndEmpties, reduction
  <2>2. ~changed => FixedDone(AllCols) /\ EmptiesDone(AllCols) /\ RowsDone(1)
    BY <1>0, <2>1, ShapeAssumption DEF ScanInv, EmptiesDone, RowsDone, AllCols
  <2> QED
    BY <1>0, <2>1, <2>2, DoneStays DEF ScanInv
<1>6. CASE EndRound
  <2>1. /\ pc = "rows" /\ cursor > NumRows /\ cursor' = 1
        /\ UNCHANGED <<problem, bounds, active>>
        /\ \/ pc' = "columns"
           \/ pc' = "solve" /\ round' = round /\ ~(changed /\ round < MaxRounds)
    BY <1>6 DEF EndRound, AnotherRound
  <2>2. CASE pc' = "columns"
    <3>1. FixedDone(1)
      BY <1>0 DEF FixedDone
    <3> QED
      BY <1>0, <2>1, <2>2, <3>1, DoneStays DEF ScanInv
  <2>3. CASE pc' = "solve"
    <3>1. ~changed => FixedDone(AllCols) /\ EmptiesDone(AllCols) /\ RowsDone(AllRows)
      BY <1>0, <2>1, ShapeAssumption DEF ScanInv, RowsDone, AllRows
    <3> QED
      BY <1>0, <2>1, <2>3, <3>1, DoneStays DEF ScanInv
  <2> QED
    BY <2>1, <2>2, <2>3
<1>7. CASE RejectProblem \/ Solve \/ GiveUp \/ Replay \/ EndReplay
  BY <1>7 DEF RejectProblem, Solve, GiveUp, Replay, EndReplay, ScanInv
<1>8. CASE Finished \/ UNCHANGED vars
  BY <1>0, <1>8, DoneStays DEF Finished, vars, reduction, ScanInv
<1> QED
  BY <1>1, <1>2, <1>3, <1>4, <1>5, <1>6, <1>7, <1>8 DEF Next

-----------------------------------------------------------------------------
(* Complementary slackness *)

\* The bounds of an active row have moved by what the removed columns add to
\* its activity.
RowsTrack ==
  \A z \in [Cols -> Int] : Agrees(z) => \A i \in ActiveRows :
    /\ is_finite_bound(row_lower[i]) =>
         problem.row_lower[i] - row_lower[i]
           = Activity(problem, z, i, Cols) - Activity(problem, z, i, ActiveCols)
    /\ is_finite_bound(row_upper[i]) =>
         problem.row_upper[i] - row_upper[i]
           = Activity(problem, z, i, Cols) - Activity(problem, z, i, ActiveCols)

\* The row's activity is at one of the bounds that the problem gives it.
AtOwnBound(p, z, i) == Activity(p, z, i, Cols) \in {p.row_lower[i], p.row_upper[i]}

\* A value that sits at a bound which a singleton row tightened.
Binding(m, v) ==
  \/ is_finite_bound(m.new_lower) /\ v = m.new_lower /\ m.new_lower > m.old_lower
  \/ is_finite_bound(m.new_upper) /\ v = m.new_upper /\ m.new_upper < m.old_upper

\* A singleton row whose bound binds its column is at a bound of its own.
SingletonsBind ==
  \A z \in [Cols -> Int] : Agrees(z) => \A p \in DOMAIN trail :
    trail[p].kind = "singleton" /\ Binding(trail[p], z[trail[p].col]) =>
      AtOwnBound(problem, z, trail[p].row)

\* A finite bound that a value is at.
AtFiniteBound(v, lo, hi) ==
  \/ is_finite_bound(lo) /\ v = lo
  \/ is_finite_bound(hi) /\ v = hi

\* What a move makes of the column bounds l and u, and what it says of them.
Follows(m, l, u, l2, u2) ==
  \/ m.kind = "redundant" /\ l2 = l /\ u2 = u
  \/ /\ RemovesCol(m) /\ l2 = l /\ u2 = u
     /\ \/ AtFiniteBound(m.value, l[m.col], u[m.col])
        \/ m.obj_coeff = 0 /\ m.rows = {}
  \/ /\ m.kind = "singleton"
     /\ m.old_lower = l[m.col] /\ m.old_upper = u[m.col]
     /\ m.old_lower <= m.new_lower /\ m.new_upper <= m.old_upper
     /\ l2 = [l EXCEPT ![m.col] = m.new_lower]
     /\ u2 = [u EXCEPT ![m.col] = m.new_upper]

\* The column bounds before the first move, and after each one.
IsHistory(L, U) ==
  /\ L \in [0..Len(trail) -> [Cols -> Int]] /\ U \in [0..Len(trail) -> [Cols -> Int]]
  /\ L[0] = problem.col_lower /\ U[0] = problem.col_upper
  /\ L[Len(trail)] = col_lower /\ U[Len(trail)] = col_upper
  /\ \A p \in DOMAIN trail : Follows(trail[p], L[p - 1], U[p - 1], L[p], U[p])

\* The moves on the trail account for the working bounds.
HasHistory == \E L, U : IsHistory(L, U)

\* The bounds of a row, its own and the working ones, are integers.
LEMMA OwnBounds ==
  ASSUME TrailInv, NEW i \in Rows
  PROVE  /\ problem.row_lower[i] \in Int /\ problem.row_upper[i] \in Int
         /\ row_lower[i] \in Int /\ row_upper[i] \in Int
<1>1. problem.row_lower[i] \in Bound /\ problem.row_upper[i] \in Bound
  BY ProblemType DEF TrailInv, WorkType
<1> QED
  BY <1>1, BoundType DEF TrailInv, WorkType

\* Before the first move the bounds are the problem's own.
LEMMA TrackInit == Init => RowsTrack /\ SingletonsBind /\ HasHistory
<1> SUFFICES ASSUME Init PROVE RowsTrack /\ SingletonsBind /\ HasHistory
  OBVIOUS
<1>0. /\ problem \in Problems /\ ActiveCols = Cols /\ trail = << >>
      /\ row_lower = problem.row_lower /\ row_upper = problem.row_upper
      /\ col_lower = problem.col_lower /\ col_upper = problem.col_upper
  BY DEF Init, ActiveCols
<1>1. TrailInv
  BY TrailInit
<1>2. RowsTrack
  <2>1. \A i \in ActiveRows : i \in Rows
    BY DEF ActiveRows
  <2>2. \A i \in Rows : row_lower[i] \in Int /\ row_upper[i] \in Int
    BY <1>1 DEF TrailInv, WorkType
  <2>3. \A z \in [Cols -> Int], i \in Rows : Activity(problem, z, i, Cols) \in Int
    BY <1>0, ActivityStep
  <2> QED
    BY <1>0, <2>1, <2>2, <2>3 DEF RowsTrack
<1>3. SingletonsBind
  BY <1>0 DEF SingletonsBind
<1>4. HasHistory
  <2> DEFINE L == [k \in 0..0 |-> col_lower]
             U == [k \in 0..0 |-> col_upper]
  <2>1. Len(trail) = 0 /\ DOMAIN trail = {} /\ 0 \in 0..0
    BY <1>0
  <2>2. col_lower \in [Cols -> Int] /\ col_upper \in [Cols -> Int]
    BY <1>1 DEF TrailInv, WorkType
  <2>3. IsHistory(L, U)
    BY <1>0, <2>1, <2>2 DEF IsHistory
  <2> QED
    BY <2>3 DEF HasHistory
<1> QED
  BY <1>2, <1>3, <1>4

\* Every step keeps the shift of the row bounds equal to what was fixed.
LEMMA RowsTrackStep == TrailInv /\ BoundInv /\ RowsTrack /\ [Next]_vars => RowsTrack'
<1> SUFFICES ASSUME TrailInv, BoundInv, RowsTrack, [Next]_vars PROVE RowsTrack'
  OBVIOUS
<1>1. CASE /\ UNCHANGED <<problem, row_lower, row_upper, col_active>>
           /\ ActiveRows' \subseteq ActiveRows
           /\ trail' = trail \/ \E m : trail' = Append(trail, m)
  <2>1. \A z \in [Cols -> Int] : Agrees(z)' => Agrees(z)
    BY <1>1, AgreesStep DEF Agrees, RemovesCol
  <2>2. ActiveCols' = ActiveCols
    BY <1>1 DEF ActiveCols
  <2> QED
    BY <1>1, <2>1, <2>2 DEF RowsTrack
<1>2. ASSUME NEW j \in Cols, FixStep(j) PROVE RowsTrack'
  <2>1. /\ problem' = problem /\ ActiveRows' = ActiveRows /\ ActiveRows \subseteq Rows
        /\ col_active[j] /\ col_active' = [col_active EXCEPT ![j] = FALSE]
        /\ trail' = Append(trail, ColumnMove("fixed", j, col_lower[j],
                                             ColEntries(problem, j) \cap ActiveRows))
    BY <1>2 DEF FixStep, fix_column, RemoveColumn, ActiveRows
  <2> SUFFICES ASSUME NEW z \in [Cols -> Int], Agrees(z)', NEW i \in ActiveRows
               PROVE  /\ is_finite_bound(row_lower'[i]) =>
                           problem.row_lower[i] - row_lower'[i]
                             = Activity(problem, z, i, Cols) - Activity(problem, z, i, ActiveCols')
                      /\ is_finite_bound(row_upper'[i]) =>
                           problem.row_upper[i] - row_upper'[i]
                             = Activity(problem, z, i, Cols) - Activity(problem, z, i, ActiveCols')
    BY <2>1 DEF RowsTrack
  <2> DEFINE t == problem.A[i][j] * z[j]
             all == Activity(problem, z, i, Cols)
             part == Activity(problem, z, i, ActiveCols)
             rest == Activity(problem, z, i, ActiveCols')
  <2>2. Agrees(z) /\ z[j] = col_lower[j]
    BY <2>1, AgreesStep DEF ColumnMove, RemovesCol
  <2>3. rest \in Int /\ t \in Int /\ part = t + rest
    BY <2>1, ActivityOfRest
  <2>4. all \in Int
    BY <2>1, ActivityStep DEF TrailInv, WorkType
  <2>5. /\ row_lower'[i] = Minus(row_lower[i], t) /\ row_upper'[i] = Minus(row_upper[i], t)
        /\ is_finite_bound(row_lower'[i]) <=> is_finite_bound(row_lower[i])
        /\ is_finite_bound(row_upper'[i]) <=> is_finite_bound(row_upper[i])
    BY <1>2, <2>2, FixBounds DEF FoldedBounds
  <2>6. /\ is_finite_bound(row_lower[i]) => problem.row_lower[i] - row_lower[i] = all - part
        /\ is_finite_bound(row_upper[i]) => problem.row_upper[i] - row_upper[i] = all - part
    BY <2>2 DEF RowsTrack
  <2>7. /\ row_lower[i] \in Int /\ row_upper[i] \in Int
        /\ problem.row_lower[i] \in Int /\ problem.row_upper[i] \in Int
    BY <2>1, OwnBounds
  <2> HIDE DEF t, all, part, rest
  <2>8. is_finite_bound(row_lower'[i]) => problem.row_lower[i] - row_lower'[i] = all - rest
    BY <2>3, <2>4, <2>5, <2>6, <2>7 DEF Minus
  <2>9. is_finite_bound(row_upper'[i]) => problem.row_upper[i] - row_upper'[i] = all - rest
    BY <2>3, <2>4, <2>5, <2>6, <2>7 DEF Minus
  <2> QED
    BY <2>8, <2>9 DEF all, rest
<1>3. ASSUME NEW j \in Cols, EmptyStep(j) PROVE RowsTrack'
  <2>1. /\ problem' = problem /\ ActiveRows' = ActiveRows /\ UNCHANGED <<row_lower, row_upper>>
        /\ trail' = Append(trail, ColumnMove("empty", j, EmptyValue(j), {}))
    BY <1>3 DEF EmptyStep, RemoveColumn, ActiveRows, bounds
  <2>2. \A z \in [Cols -> Int] : Agrees(z)' => Agrees(z)
    BY <2>1, AgreesStep
  <2>3. \A z \in [Cols -> Int] : \A i \in ActiveRows :
          Activity(problem, z, i, ActiveCols) = Activity(problem, z, i, ActiveCols')
    BY <1>3, EmptyKeepsRows
  <2> QED
    BY <2>1, <2>2, <2>3 DEF RowsTrack
<1>4. CASE Quiet
  BY <1>1, <1>4 DEF Quiet, active, bounds, ActiveRows
<1>5. ASSUME NEW i \in Rows, RedundantStep(i) \/ SingletonStep(i) PROVE RowsTrack'
  <2>1. ActiveRows' \subseteq ActiveRows
    BY <1>5 DEF RedundantStep, SingletonStep, ActiveRows, TrailInv, WorkType
  <2>2. CASE RedundantStep(i)
    BY <1>1, <2>1, <2>2 DEF RedundantStep, bounds
  <2>3. CASE SingletonStep(i)
    BY <1>1, <2>1, <2>3 DEF SingletonStep
  <2> QED
    BY <1>5, <2>2, <2>3
<1> QED
  BY <1>2, <1>3, <1>4, <1>5, Steps DEF Reduction

\* The row that is being removed is at its own bound if the column is at the
\* bound it implies.
LEMMA SingletonBinds ==
  ASSUME TrailInv, BoundInv, RowsTrack, NEW i \in ActiveRows, Singleton(i),
         NEW z \in [Cols -> Int], Agrees(z),
         Binding(SingletonMove(i), z[SingletonMove(i).col])
  PROVE  AtOwnBound(problem, z, i)
<1> DEFINE m == SingletonMove(i)
           v == z[m.col]
           a == problem.A[i][OnlyCol(i)]
           L == ImpliedLower(i, a)
           U == ImpliedUpper(i, a)
           all == Activity(problem, z, i, Cols)
           part == Activity(problem, z, i, ActiveCols)
<1>1. /\ L \in Int /\ U \in Int /\ m.old_lower \in Int /\ m.old_upper \in Int
      /\ m.new_lower = (IF m.old_lower < L THEN L ELSE m.old_lower)
      /\ m.new_upper = (IF m.old_upper > U THEN U ELSE m.old_upper)
      /\ m.col \in Cols
  <2>1. m \in SingletonMoves
    BY SingletonFields
  <2>2. m.old_lower \in Int /\ m.old_upper \in Int
    BY <2>1 DEF SingletonMoves
  <2> QED
    BY <2>2, SingletonFields
<1>2. part = a * v /\ v \in Int
  BY <1>1, SingletonActivity
<1>3. /\ row_lower[i] \in Int /\ row_upper[i] \in Int
      /\ problem.row_lower[i] \in Int /\ problem.row_upper[i] \in Int
  BY OwnBounds DEF ActiveRows
<1>5. /\ is_finite_bound(row_lower[i]) => problem.row_lower[i] - row_lower[i] = all - part
      /\ is_finite_bound(row_upper[i]) => problem.row_upper[i] - row_upper[i] = all - part
  BY DEF RowsTrack
<1>6. all \in Int
  <2>1. problem \in Problems /\ i \in Rows
    BY DEF TrailInv, WorkType, ActiveRows
  <2> QED
    BY <2>1, ActivityStep
<1>7. /\ is_finite_bound(m.new_lower) /\ v = m.new_lower /\ m.new_lower > m.old_lower
           => is_finite_bound(L) /\ v = L
      /\ is_finite_bound(m.new_upper) /\ v = m.new_upper /\ m.new_upper < m.old_upper
           => is_finite_bound(U) /\ v = U
  <2> HIDE DEF m, v, a, L, U
  <2> QED
    BY <1>1
<1>8. (is_finite_bound(L) /\ v = L) \/ (is_finite_bound(U) /\ v = U)
  BY <1>7 DEF Binding
<1>9. /\ a * v \in Int
      /\ \/ is_finite_bound(row_lower[i]) /\ a * v = row_lower[i]
         \/ is_finite_bound(row_upper[i]) /\ a * v = row_upper[i]
  <2> HIDE DEF m, v
  <2> QED
    BY <1>2, <1>8, ImpliedMeans
<1> HIDE DEF m, v, a, L, U, all, part
<1>10. /\ part \in Int
       /\ \/ is_finite_bound(row_lower[i]) /\ part = row_lower[i]
          \/ is_finite_bound(row_upper[i]) /\ part = row_upper[i]
  BY <1>2, <1>9
<1>11. all = problem.row_lower[i] \/ all = problem.row_upper[i]
  BY <1>3, <1>5, <1>6, <1>10
<1> QED
  BY <1>11 DEF AtOwnBound, all

\* A row that becomes a singleton's bound binds at a bound of its own.
LEMMA SingletonsBindStep ==
  TrailInv /\ BoundInv /\ RowsTrack /\ SingletonsBind /\ [Next]_vars => SingletonsBind'
<1> SUFFICES ASSUME TrailInv, BoundInv, RowsTrack, SingletonsBind, [Next]_vars
             PROVE  SingletonsBind'
  OBVIOUS
<1>0. problem' = problem
  BY ProblemStep
<1>1. CASE trail' = trail
  BY <1>0, <1>1 DEF SingletonsBind, Agrees, RemovesCol, Binding, AtOwnBound
<1>2. ASSUME NEW m, trail' = Append(trail, m),
             m.kind = "singleton" => \E i \in ActiveRows : Singleton(i) /\ m = SingletonMove(i)
      PROVE  SingletonsBind'
  <2> SUFFICES ASSUME NEW z \in [Cols -> Int], Agrees(z)', NEW p \in DOMAIN trail',
                      trail'[p].kind = "singleton", Binding(trail'[p], z[trail'[p].col])
               PROVE  AtOwnBound(problem, z, trail'[p].row)
    BY <1>0 DEF SingletonsBind, Binding, AtOwnBound
  <2>1. Agrees(z)
    BY <1>2, AgreesStep
  <2>2. CASE p \in DOMAIN trail /\ trail'[p] = trail[p]
    BY <2>1, <2>2 DEF SingletonsBind
  <2>3. CASE trail'[p] = m
    <3>1. PICK i \in ActiveRows : Singleton(i) /\ m = SingletonMove(i)
      BY <1>2, <2>3
    <3>2. m.row = i
      BY <3>1, SingletonFields DEF ActiveRows
    <3> QED
      BY <2>1, <2>3, <3>1, <3>2, SingletonBinds
  <2>4. p \in 1..(Len(trail) + 1) /\ Len(trail) \in Nat /\ DOMAIN trail = 1..Len(trail)
    BY <1>2 DEF TrailInv, WorkType
  <2>5. (p \in DOMAIN trail /\ trail'[p] = trail[p]) \/ trail'[p] = m
    BY <1>2, <2>4 DEF TrailInv, WorkType
  <2> QED
    BY <2>2, <2>3, <2>5
<1>3. CASE Quiet
  BY <1>1, <1>3 DEF Quiet
<1>4. ASSUME NEW j \in Cols, FixStep(j) \/ EmptyStep(j) PROVE SingletonsBind'
  <2>1. \E kind \in {"fixed", "empty"} : \E value, rows :
          trail' = Append(trail, ColumnMove(kind, j, value, rows))
    BY <1>4 DEF FixStep, fix_column, EmptyStep, RemoveColumn
  <2> QED
    BY <1>2, <2>1 DEF ColumnMove
<1>5. ASSUME NEW i \in Rows, RedundantStep(i) PROVE SingletonsBind'
  BY <1>2, <1>5 DEF RedundantStep, RedundantMoveOf
<1>6. ASSUME NEW i \in Rows, SingletonStep(i) PROVE SingletonsBind'
  BY <1>2, <1>6 DEF SingletonStep, ActiveRows
<1> QED
  BY <1>3, <1>4, <1>5, <1>6, Steps DEF Reduction

\* A history goes on with the bounds that a step leaves.
LEMMA HistoryGrows ==
  ASSUME TrailInv, TrailInv', HasHistory, problem' = problem, NEW m, trail' = Append(trail, m),
         Follows(m, col_lower, col_upper, col_lower', col_upper')
  PROVE  HasHistory'
<1> DEFINE n == Len(trail)
<1>1. PICK L, U : IsHistory(L, U)
  BY DEF HasHistory
<1>2. /\ n \in Nat /\ Len(trail') = n + 1 /\ DOMAIN trail = 1..n /\ DOMAIN trail' = 1..(n + 1)
      /\ trail'[n + 1] = m /\ \A p \in 1..n : trail'[p] = trail[p]
  BY DEF TrailInv, WorkType
<1>3. /\ L \in [0..n -> [Cols -> Int]] /\ U \in [0..n -> [Cols -> Int]]
      /\ L[0] = problem.col_lower /\ U[0] = problem.col_upper
      /\ L[n] = col_lower /\ U[n] = col_upper
      /\ \A p \in 1..n : Follows(trail[p], L[p - 1], U[p - 1], L[p], U[p])
  BY <1>1, <1>2 DEF IsHistory
<1>4. col_lower' \in [Cols -> Int] /\ col_upper' \in [Cols -> Int]
  BY DEF TrailInv, WorkType
<1>5. PICK L2, U2 :
        /\ \A k \in 0..n : L2[k] = L[k] /\ U2[k] = U[k]
        /\ L2[n + 1] = col_lower' /\ U2[n + 1] = col_upper'
        /\ L2 \in [0..(n + 1) -> [Cols -> Int]] /\ U2 \in [0..(n + 1) -> [Cols -> Int]]
  <2> DEFINE X == [k \in 0..(n + 1) |-> IF k <= n THEN L[k] ELSE col_lower']
             Y == [k \in 0..(n + 1) |-> IF k <= n THEN U[k] ELSE col_upper']
  <2>1. /\ \A k \in 0..n : X[k] = L[k] /\ Y[k] = U[k]
        /\ X[n + 1] = col_lower' /\ Y[n + 1] = col_upper'
        /\ X \in [0..(n + 1) -> [Cols -> Int]] /\ Y \in [0..(n + 1) -> [Cols -> Int]]
    BY <1>2, <1>3, <1>4
  <2> HIDE DEF X, Y
  <2> QED
    BY <2>1
<1>6. ASSUME NEW p \in 1..(n + 1)
      PROVE  Follows(trail'[p], L2[p - 1], U2[p - 1], L2[p], U2[p])
  <2> HIDE DEF n
  <2>1. CASE p = n + 1
    <3>1. p - 1 = n /\ n \in 0..n
      BY <1>2, <2>1
    <3> QED
      BY <1>2, <1>3, <1>5, <2>1, <3>1
  <2>2. CASE p # n + 1
    <3>1. p \in 1..n /\ p \in 0..n /\ p - 1 \in 0..n
      BY <1>2, <2>2
    <3> QED
      BY <1>2, <1>3, <1>5, <3>1
  <2> QED
    BY <2>1, <2>2
<1>7. 0 \in 0..n
  BY <1>2
<1> HIDE DEF n
<1>8. \A p \in DOMAIN trail' : Follows(trail[p], L2[p - 1], U2[p - 1], L2[p], U2[p])'
  BY <1>2, <1>6 DEF Follows, RemovesCol
<1>9. L2[0] = problem.col_lower /\ U2[0] = problem.col_upper
  BY <1>3, <1>5, <1>7
<1>10. IsHistory(L2, U2)'
  BY <1>2, <1>5, <1>8, <1>9 DEF IsHistory, Follows, RemovesCol
<1> QED
  BY <1>10 DEF HasHistory

\* One more move extends the history of the bounds.
LEMMA HistoryStep == TrailInv /\ BoundInv /\ HasHistory /\ [Next]_vars => HasHistory'
<1> SUFFICES ASSUME TrailInv, BoundInv, HasHistory, [Next]_vars PROVE HasHistory'
  OBVIOUS
<1>0. TrailInv' /\ problem' = problem
  BY TrailStep, ProblemStep
<1>1. CASE Quiet
  <2>1. PICK L, U : IsHistory(L, U)
    BY DEF HasHistory
  <2>2. UNCHANGED <<problem, col_lower, col_upper, trail>>
    BY <1>1 DEF Quiet, bounds
  <2>3. IsHistory(L, U)'
    BY <2>1, <2>2 DEF IsHistory, Follows, RemovesCol
  <2> QED
    BY <2>3 DEF HasHistory
<1>2. ASSUME NEW j \in Cols, FixStep(j) PROVE HasHistory'
  <2> DEFINE m == ColumnMove("fixed", j, col_lower[j], ColEntries(problem, j) \cap ActiveRows)
  <2>1. /\ trail' = Append(trail, m) /\ UNCHANGED <<col_lower, col_upper>>
        /\ is_finite_bound(col_lower[j])
    BY <1>2 DEF FixStep, fix_column, RemoveColumn, ColumnFixed
  <2>2. RemovesCol(m) /\ m.col = j /\ m.value = col_lower[j]
    BY DEF ColumnMove, RemovesCol
  <2> HIDE DEF m
  <2>3. Follows(m, col_lower, col_upper, col_lower', col_upper')
    BY <2>1, <2>2 DEF Follows, AtFiniteBound
  <2> QED
    BY <1>0, <2>1, <2>3, HistoryGrows
<1>3. ASSUME NEW j \in Cols, EmptyStep(j) PROVE HasHistory'
  <2> DEFINE m == ColumnMove("empty", j, EmptyValue(j), {})
  <2>1. /\ trail' = Append(trail, m) /\ UNCHANGED <<col_lower, col_upper>> /\ Resolvable(j)
    BY <1>3 DEF EmptyStep, RemoveColumn, bounds
  <2>2. RemovesCol(m) /\ m.col = j /\ m.value = EmptyValue(j)
        /\ m.obj_coeff = problem.objective[j] /\ m.rows = {}
    BY DEF ColumnMove, RemovesCol
  <2>3. problem.objective[j] = 0 \/ AtFiniteBound(EmptyValue(j), col_lower[j], col_upper[j])
    <3>1. problem.objective[j] \in Int /\ problem.minimize \in BOOLEAN
      BY ProblemType DEF TrailInv, WorkType
    <3>2. ~(Favours(j, FALSE) /\ Favours(j, TRUE))
      BY <3>1 DEF Favours
    <3> QED
      BY <2>1, <3>2 DEF EmptyValue, Resolvable, AtFiniteBound
  <2> HIDE DEF m
  <2>4. Follows(m, col_lower, col_upper, col_lower', col_upper')
    BY <2>1, <2>2, <2>3 DEF Follows
  <2> QED
    BY <1>0, <2>1, <2>4, HistoryGrows
<1>4. ASSUME NEW i \in Rows, RedundantStep(i) PROVE HasHistory'
  <2>1. /\ trail' = Append(trail, RedundantMoveOf(i)) /\ UNCHANGED <<col_lower, col_upper>>
        /\ Follows(RedundantMoveOf(i), col_lower, col_upper, col_lower', col_upper')
    BY <1>4 DEF RedundantStep, bounds, Follows, RedundantMoveOf
  <2> QED
    BY <1>0, <2>1, HistoryGrows
<1>5. ASSUME NEW i \in Rows, SingletonStep(i) PROVE HasHistory'
  <2> DEFINE m == SingletonMove(i)
             a == problem.A[i][m.col]
  <2>1. /\ trail' = Append(trail, m)
        /\ col_lower' = [col_lower EXCEPT ![m.col] = m.new_lower]
        /\ col_upper' = [col_upper EXCEPT ![m.col] = m.new_upper]
        /\ Singleton(i) /\ i \in ActiveRows
    BY <1>5 DEF SingletonStep, ActiveRows
  <2>2. /\ m.kind = "singleton" /\ m.col \in Cols
        /\ m.old_lower = col_lower[m.col] /\ m.old_upper = col_upper[m.col]
        /\ ImpliedLower(i, a) \in Int /\ ImpliedUpper(i, a) \in Int
        /\ m.new_lower = (IF col_lower[m.col] < ImpliedLower(i, a)
                           THEN ImpliedLower(i, a) ELSE col_lower[m.col])
        /\ m.new_upper = (IF col_upper[m.col] > ImpliedUpper(i, a)
                           THEN ImpliedUpper(i, a) ELSE col_upper[m.col])
    BY <2>1, SingletonFields
  <2>3. m.old_lower <= m.new_lower /\ m.new_upper <= m.old_upper
    <3>1. col_lower[m.col] \in Int /\ col_upper[m.col] \in Int
      BY <2>2 DEF TrailInv, WorkType
    <3> HIDE DEF m, a
    <3> QED
      BY <2>2, <3>1
  <2> HIDE DEF m
  <2>4. Follows(m, col_lower, col_upper, col_lower', col_upper')
    BY <2>1, <2>2, <2>3 DEF Follows
  <2> QED
    BY <1>0, <2>1, <2>4, HistoryGrows
<1> QED
  BY <1>1, <1>2, <1>3, <1>4, <1>5, Steps DEF Reduction

\* The point that postsolve is going to restore.
Completes(z) == Agrees(z) /\ \A j \in ActiveCols : z[j] = primal[j]

\* At every point of the replay a dual that is not zero belongs to a row at
\* its own bound, and a reduced cost to a column at the bound it had when the
\* moves that are left had been made.
SlackInv ==
  \A z \in [Cols -> Int] : Completes(z) =>
    /\ pc \in {"replay", "solved"} =>
         \A i \in Rows : dual[i] # 0 => AtOwnBound(problem, z, i)
    /\ pc = "replay" => \A L, U : IsHistory(L, U) =>
         \A j \in Cols : reduced_costs[j] # 0 =>
           AtFiniteBound(z[j], L[cursor][j], U[cursor][j])
    /\ pc = "solved" => \A j \in Cols : reduced_costs[j] # 0 =>
         AtFiniteBound(z[j], problem.col_lower[j], problem.col_upper[j])

\* A multiplier that is not zero and has a sign it may have.
LEMMA SignedAtBound ==
  ASSUME NEW r \in Int, r # 0, NEW v, NEW lo, NEW hi, SignsAgree(r, v, lo, hi)
  PROVE  AtFiniteBound(v, lo, hi)
BY DEF SignsAgree, AtFiniteBound

\* A move reads the column's final value, if it does not remove it.
LEMMA ReadsFinalValue ==
  ASSUME TrailInv, SolutionType, ReplayInv, pc = "replay", cursor > 0,
         trail[cursor].kind = "singleton", NEW z \in [Cols -> Int], Completes(z)
  PROVE  primal[trail[cursor].col] = z[trail[cursor].col]
<1> DEFINE m == trail[cursor]
           j == m.col
<1>1. cursor \in DOMAIN trail
  BY DEF ReplayInv, TrailInv, WorkType
<1>2. j \in Cols /\ m \in SingletonMoves
  BY <1>1, MoveFields DEF SingletonMoves
<1>3. CASE col_active[j]
  BY <1>2, <1>3 DEF Completes, ActiveCols
<1>4. CASE ~col_active[j]
  <2>1. PICK q \in DOMAIN trail : RemovesCol(trail[q]) /\ trail[q].col = j
    BY <1>2, <1>4 DEF TrailInv, TrailCanBeReplayed
  <2>2. ~RemovesCol(m) /\ UsesCol(m, j)
    BY <1>1, MoveFields DEF UsesCol
  <2>3. ~(q < cursor) /\ q # cursor
    BY <1>1, <2>1, <2>2 DEF TrailInv, TrailCanBeReplayed
  <2>4. q > cursor
    BY <1>1, <2>1, <2>3 DEF TrailInv, WorkType
  <2>5. primal[j] = trail[q].value /\ z[j] = trail[q].value
    BY <2>1, <2>4 DEF ReplayInv, Completes, Agrees
  <2> QED
    BY <2>5
<1> QED
  BY <1>3, <1>4

\* An optimal pair of the reduced problem is complementary in the whole one.
LEMMA SlackSolve ==
  ASSUME TrailInv, TrailInv', SolutionType', RowsTrack, Solve
  PROVE  SlackInv'
<1>1. PICK x \in {x \in [ActiveCols -> Grid] : ReducedFeasible(x)},
           y \in [ActiveRows -> DualGrid] :
        /\ ReducedOptimal(x, y)
        /\ primal' = [j \in Cols |-> IF col_active[j] THEN x[j] ELSE 0]
        /\ dual' = [i \in Rows |-> IF row_active[i] THEN y[i] ELSE 0]
        /\ reduced_costs' = [j \in Cols |->
             IF col_active[j] THEN ReducedCost(problem, y, j, ActiveRows) ELSE 0]
  BY DEF Solve
<1>2. UNCHANGED <<problem, bounds, active, trail, col_lower, col_upper>> /\ pc' = "replay"
      /\ cursor' = Len(trail)
  BY DEF Solve, reduction, bounds
<1> SUFFICES ASSUME NEW z \in [Cols -> Int], Completes(z)'
             PROVE  /\ \A i \in Rows : dual'[i] # 0 => AtOwnBound(problem, z, i)
                    /\ \A L, U : IsHistory(L, U) =>
                         \A j \in Cols : reduced_costs'[j] # 0 =>
                           AtFiniteBound(z[j], L[cursor'][j], U[cursor'][j])
  <2>1. \A L, U : IsHistory(L, U)' <=> IsHistory(L, U)
    BY <1>2 DEF IsHistory, Follows, RemovesCol
  <2> QED
    BY <1>2, <2>1 DEF SlackInv, AtOwnBound, AtFiniteBound
<1>3. Agrees(z)
  BY <1>2 DEF Completes, Agrees, RemovesCol
<1>4. \A j \in ActiveCols : x[j] \in Int /\ z[j] = x[j] /\ j \in Cols
  BY <1>1, <1>2, GridAssumption DEF Completes, ActiveCols, active
<1>5. ASSUME NEW i \in Rows, dual'[i] # 0 PROVE AtOwnBound(problem, z, i)
  <2> DEFINE all == Activity(problem, z, i, Cols)
             part == Activity(problem, z, i, ActiveCols)
  <2>1. i \in ActiveRows /\ y[i] # 0 /\ y[i] \in Int
    BY <1>1, <1>5, GridAssumption DEF ActiveRows
  <2>2. problem \in Problems /\ ActiveCols \in SUBSET Cols
    BY DEF TrailInv, WorkType, ActiveCols
  <2>3. Activity(problem, x, i, ActiveCols) = part /\ all \in Int /\ part \in Int
    BY <1>4, <2>2, ActivityAgrees, ActivityStep
  <2>4. SignsAgree(y[i], part, row_lower[i], row_upper[i])
    BY <1>1, <2>1, <2>3 DEF ReducedOptimal
  <2>5. AtFiniteBound(part, row_lower[i], row_upper[i])
    BY <2>1, <2>4, SignedAtBound
  <2>6. /\ is_finite_bound(row_lower[i]) => problem.row_lower[i] - row_lower[i] = all - part
        /\ is_finite_bound(row_upper[i]) => problem.row_upper[i] - row_upper[i] = all - part
    BY <1>3, <2>1 DEF RowsTrack
  <2>7. /\ problem.row_lower[i] \in Int /\ problem.row_upper[i] \in Int
        /\ row_lower[i] \in Int /\ row_upper[i] \in Int
    BY OwnBounds
  <2> HIDE DEF all, part
  <2>8. all = problem.row_lower[i] \/ all = problem.row_upper[i]
    BY <2>3, <2>5, <2>6, <2>7 DEF AtFiniteBound
  <2> QED
    BY <2>8 DEF all, AtOwnBound
<1>6. ASSUME NEW L, NEW U, IsHistory(L, U), NEW j \in Cols, reduced_costs'[j] # 0
      PROVE  AtFiniteBound(z[j], L[cursor'][j], U[cursor'][j])
  <2>1. j \in ActiveCols /\ reduced_costs'[j] = ReducedCost(problem, y, j, ActiveRows)
        /\ reduced_costs'[j] \in Int
    BY <1>1, <1>6 DEF ActiveCols, SolutionType
  <2>2. SignsAgree(reduced_costs'[j], z[j], col_lower[j], col_upper[j])
    BY <1>1, <1>4, <2>1 DEF ReducedOptimal
  <2>3. AtFiniteBound(z[j], col_lower[j], col_upper[j])
    BY <1>6, <2>1, <2>2, SignedAtBound
  <2> QED
    BY <1>2, <1>6, <2>3 DEF IsHistory
<1> QED
  BY <1>5, <1>6

\* Undoing a move keeps the pair complementary.
LEMMA SlackReplay ==
  ASSUME TrailInv, SolutionType, ReplayInv, SingletonsBind, SlackInv, Replay
  PROVE  SlackInv'
<1> DEFINE m == trail[cursor]
<1>1. cursor \in DOMAIN trail /\ cursor > 0 /\ cursor' = cursor - 1 /\ pc = "replay"
      /\ pc' = "replay" /\ UNCHANGED <<problem, bounds, active, trail, col_lower, col_upper>>
  BY DEF Replay, ReplayInv, reduction, TrailInv, WorkType, bounds
<1>2. \A j \in ActiveCols : primal'[j] = primal[j]
  <2>1. \/ RemovesCol(m) /\ m.col \in Cols /\ ~col_active[m.col]
           /\ primal' = [primal EXCEPT ![m.col] = m.value]
        \/ primal' = primal
    BY <1>1, MoveFields
       DEF Replay, UndoColumn, UndoSingleton, UndoRedundant, ColMove, TrailInv, RemovedInv
  <2> QED
    BY <2>1 DEF SolutionType, ActiveCols
<1> SUFFICES ASSUME NEW z \in [Cols -> Int], Completes(z)
             PROVE  /\ \A i \in Rows : dual'[i] # 0 => AtOwnBound(problem, z, i)
                    /\ \A L, U : IsHistory(L, U) =>
                         \A j \in Cols : reduced_costs'[j] # 0 =>
                           AtFiniteBound(z[j], L[cursor - 1][j], U[cursor - 1][j])
  <2>1. \A L, U : IsHistory(L, U)' <=> IsHistory(L, U)
    BY <1>1 DEF IsHistory, Follows, RemovesCol
  <2>2. \A z \in [Cols -> Int] : Completes(z)' => Completes(z)
    BY <1>1, <1>2 DEF Completes, Agrees, RemovesCol, ActiveCols, active
  <2> QED
    BY <1>1, <2>1, <2>2 DEF SlackInv, AtOwnBound, AtFiniteBound
<1>3. /\ \A i \in Rows : dual[i] # 0 => AtOwnBound(problem, z, i)
      /\ \A L, U : IsHistory(L, U) => \A j \in Cols : reduced_costs[j] # 0 =>
           AtFiniteBound(z[j], L[cursor][j], U[cursor][j])
  BY <1>1 DEF SlackInv
<1>4. \A L, U : IsHistory(L, U) =>
        Follows(m, L[cursor - 1], U[cursor - 1], L[cursor], U[cursor])
        /\ L[cursor - 1] \in [Cols -> Int] /\ U[cursor - 1] \in [Cols -> Int]
  BY <1>1 DEF IsHistory, TrailInv, WorkType
<1>5. CASE m.kind \in {"fixed", "empty"}
  <2>1. m \in ColMove /\ RemovesCol(m) /\ UndoColumn(m)
    BY <1>1, <1>5, MoveFields DEF Replay
  <2>2. z[m.col] = m.value /\ m.col \in Cols
    BY <1>1, <2>1 DEF Completes, Agrees, ColMove
  <2> DEFINE R == m.rows
             r == m.obj_coeff - SumOver([i \in R |-> problem.A[i][m.col] * dual[i]], R)
  <2>3. dual' = dual /\ reduced_costs' = [reduced_costs EXCEPT ![m.col] = r]
    BY <2>1 DEF UndoColumn
  <2>4. m.obj_coeff = 0 /\ R = {} => r = 0
    <3> HIDE DEF R
    <3>1. R = {} => SumOver([i \in R |-> problem.A[i][m.col] * dual[i]], R) = 0
      BY SumEmpty
    <3> QED
      BY <3>1
  <2> SUFFICES ASSUME NEW L, NEW U, IsHistory(L, U), NEW j \in Cols, reduced_costs'[j] # 0
               PROVE  AtFiniteBound(z[j], L[cursor - 1][j], U[cursor - 1][j])
    BY <1>3, <2>3
  <2>5. /\ L[cursor - 1] = L[cursor] /\ U[cursor - 1] = U[cursor]
        /\ \/ AtFiniteBound(m.value, L[cursor - 1][m.col], U[cursor - 1][m.col])
           \/ m.obj_coeff = 0 /\ R = {}
    BY <1>4, <2>1, <1>5 DEF Follows
  <2> HIDE DEF r, R
  <2>6. CASE j = m.col
    BY <2>2, <2>3, <2>4, <2>5, <2>6 DEF SolutionType
  <2>7. CASE j # m.col
    BY <1>3, <2>3, <2>5, <2>7 DEF SolutionType
  <2> QED
    BY <2>6, <2>7
<1>6. CASE m.kind = "singleton"
  <2>1. m \in SingletonMoves /\ UndoSingleton(m)
    BY <1>1, <1>6, MoveFields DEF Replay
  <2>2. /\ m.row \in Rows /\ m.col \in Cols
        /\ m.old_lower \in Int /\ m.old_upper \in Int /\ m.new_lower \in Int /\ m.new_upper \in Int
    BY <2>1 DEF SingletonMoves
  <2>3. primal[m.col] = z[m.col]
    BY <1>1, <1>6, ReadsFinalValue
  <2>4. Binds(m) <=> Binding(m, z[m.col])
    BY <2>3 DEF Binds, AtTightenedLower, AtTightenedUpper, Binding
  <2>5. Binding(m, z[m.col]) => AtOwnBound(problem, z, m.row)
    BY <1>1, <1>6 DEF SingletonsBind, Completes
  <2>6. \A i \in Rows : dual'[i] # 0 => AtOwnBound(problem, z, i)
    BY <1>3, <2>1, <2>2, <2>4, <2>5 DEF UndoSingleton, SolutionType
  <2> SUFFICES ASSUME NEW L, NEW U, IsHistory(L, U), NEW j \in Cols, reduced_costs'[j] # 0
               PROVE  AtFiniteBound(z[j], L[cursor - 1][j], U[cursor - 1][j])
    BY <2>6
  <2>7. /\ m.old_lower = L[cursor - 1][m.col] /\ m.old_upper = U[cursor - 1][m.col]
        /\ m.old_lower <= m.new_lower /\ m.new_upper <= m.old_upper
        /\ L[cursor] = [L[cursor - 1] EXCEPT ![m.col] = m.new_lower]
        /\ U[cursor] = [U[cursor - 1] EXCEPT ![m.col] = m.new_upper]
        /\ L[cursor - 1] \in [Cols -> Int] /\ U[cursor - 1] \in [Cols -> Int]
    BY <1>4, <1>6 DEF Follows, RemovesCol
  <2>8. CASE j # m.col
    <3>1. reduced_costs[j] # 0
      BY <2>1, <2>8 DEF UndoSingleton, SolutionType
    <3>2. AtFiniteBound(z[j], L[cursor][j], U[cursor][j])
      BY <1>3, <3>1
    <3> HIDE DEF m
    <3> QED
      BY <2>2, <2>7, <2>8, <3>2
  <2>9. CASE j = m.col
    <3>1. ~Binds(m) /\ reduced_costs[j] # 0
      BY <2>1, <2>9 DEF UndoSingleton, SolutionType
    <3>2. AtFiniteBound(z[j], L[cursor][j], U[cursor][j])
      BY <1>3, <3>1
    <3>3. AtFiniteBound(z[j], m.new_lower, m.new_upper) /\ ~Binding(m, z[j])
      <4> HIDE DEF m
      <4> QED
        BY <2>2, <2>4, <2>7, <2>9, <3>1, <3>2
    <3> HIDE DEF m
    <3>4. AtFiniteBound(z[j], m.old_lower, m.old_upper)
      BY <2>2, <2>7, <3>3 DEF AtFiniteBound, Binding
    <3> QED
      BY <2>7, <2>9, <3>4
  <2> QED
    BY <2>8, <2>9
<1>7. CASE m.kind = "redundant"
  <2>1. m \in RedundantMove /\ UndoRedundant(m)
    BY <1>1, <1>7, MoveFields DEF Replay
  <2>2. \A i \in Rows : dual'[i] # 0 => AtOwnBound(problem, z, i)
    BY <1>3, <2>1 DEF UndoRedundant, SolutionType, RedundantMove
  <2>3. \A L, U : IsHistory(L, U) => L[cursor - 1] = L[cursor] /\ U[cursor - 1] = U[cursor]
    BY <1>4, <1>7 DEF Follows, RemovesCol
  <2> HIDE DEF m
  <2> QED
    BY <1>3, <2>1, <2>2, <2>3 DEF UndoRedundant
<1> QED
  BY <1>1, <1>5, <1>6, <1>7, MoveFields

\* There is no pair to begin with.
LEMMA SlackInit == Init => SlackInv
BY DEF Init, SlackInv

\* Every step keeps the pair complementary.
LEMMA SlackStep ==
  /\ TrailInv /\ BoundInv /\ SolutionType /\ ReplayInv /\ DualsGrained
  /\ RowsTrack /\ SingletonsBind /\ HasHistory /\ SlackInv /\ [Next]_vars
  => SlackInv'
<1> SUFFICES ASSUME TrailInv, BoundInv, SolutionType, ReplayInv, DualsGrained, RowsTrack,
                    SingletonsBind, HasHistory, SlackInv, [Next]_vars
             PROVE  SlackInv'
  OBVIOUS
<1>1. CASE Solve
  BY <1>1, SlackSolve, TrailStep, SolutionTypeStep
<1>2. CASE Replay
  BY <1>2, SlackReplay
<1>3. CASE EndReplay
  <2>1. /\ UNCHANGED <<problem, active, trail, primal, dual, reduced_costs>>
        /\ pc = "replay" /\ pc' = "solved" /\ cursor = 0
    BY <1>3 DEF EndReplay, reduction, solution
  <2>2. PICK L, U : IsHistory(L, U)
    BY DEF HasHistory
  <2>3. L[0] = problem.col_lower /\ U[0] = problem.col_upper
    BY <2>2 DEF IsHistory
  <2>4. \A z \in [Cols -> Int] : Completes(z)' => Completes(z)
    BY <2>1 DEF Completes, Agrees, RemovesCol, ActiveCols, active
  <2> QED
    BY <2>1, <2>2, <2>3, <2>4 DEF SlackInv, AtOwnBound, AtFiniteBound
<1>4. CASE UNCHANGED vars
  <2>1. UNCHANGED <<problem, active, col_lower, col_upper, trail, solution, pc, cursor>>
    BY <1>4 DEF vars, reduction, bounds
  <2>2. \A L, U : IsHistory(L, U)' <=> IsHistory(L, U)
    BY <2>1 DEF IsHistory, Follows, RemovesCol
  <2>3. \A z \in [Cols -> Int] : Completes(z)' => Completes(z)
    BY <2>1 DEF Completes, Agrees, RemovesCol, ActiveCols, active, solution
  <2> QED
    BY <2>1, <2>2, <2>3 DEF SlackInv, AtOwnBound, AtFiniteBound, solution
<1>5. CASE pc' \notin {"replay", "solved"}
  BY <1>5 DEF SlackInv
<1> QED
  BY <1>1, <1>2, <1>3, <1>4, <1>5, SolutionSteps

-----------------------------------------------------------------------------
(* The theorems *)

\* The trail is well formed, every working bound is a bound that each row that
\* is left may still divide, and no finite bound becomes an infinite one.
THEOREM WorkIsBounded == Spec => [](TrailInv /\ BoundInv)
BY TrailInit, TrailStep, BoundInit, BoundStep, PTL DEF Spec

\* Whatever the problem, no move on the trail uses a row or a column that an
\* earlier one removed, and everything inactive was removed by a move: undoing
\* the moves from the last to the first meets only restored values.
THEOREM TrailReplayable == Spec => []TrailCanBeReplayed
<1>1. TrailInv => TrailCanBeReplayed
  BY DEF TrailInv
<1> QED
  BY <1>1, WorkIsBounded, PTL

\* "Infeasible" is claimed only of problems that no point satisfies, of
\* whatever size and coefficients, among the points of a unit in which the
\* divisions are exact (ScaleAssumption): every reduction keeps the feasible
\* points, and the three claims are made where none is left.
THEOREM InfeasibleProved == Spec => []InfeasibleIsProved
<1>1. Init => InfeasibleInv
  BY DEF Init, InfeasibleInv
<1>2. InfeasibleInv => InfeasibleIsProved
  BY GridAssumption DEF InfeasibleInv, InfeasibleIsProved
<1> QED
  BY <1>1, <1>2, KeepsFeasibleInit, KeepsFeasibleStep, InfeasibleStep, WorkIsBounded, PTL
     DEF Spec

\* Whatever the problem, and whatever optimum of the reduced problem the
\* solver finds, what postsolve restores is feasible and optimal for the
\* problem the caller gave, and costs what was reported, in a unit in which the
\* divisions by the coefficients are exact.
THEOREM OptimumRestored == Spec => []OptimumIsRestored
<1> DEFINE Points == ValidInv /\ SaneInv /\ Lifts
           Values == KeepsFeasible /\ CostInv
           Restored == SolutionType /\ ReplayInv /\ DualsGrained
<1>1. Spec => []Points
  BY LiftsInit, ValidStep, SaneStep, LiftsStep, WorkIsBounded, PTL DEF Spec
<1>2. Spec => []Values
  BY KeepsFeasibleInit, CostInit, KeepsFeasibleStep, CostInvStep, WorkIsBounded, PTL DEF Spec
<1>3. Spec => []Restored
  BY ReplayInit, SolutionTypeStep, ReplayStep, DualsGrainedStep, WorkIsBounded, PTL DEF Spec
<1> QED
  BY <1>1, <1>2, <1>3, SolvedIsOptimal, WorkIsBounded, PTL

\* Unless the rounds run out, the solver is given a problem in which no active
\* column is fixed or empty, and no active row redundant, infeasible or a
\* singleton, however the reductions of one round make room for those of the
\* next.
THEOREM FixpointReached == Spec => []FixpointIsReached
<1>1. TrailInv /\ ControlType /\ ScanInv => FixpointIsReached
  BY ShapeAssumption DEF ScanInv, FixpointIsReached, FixedDone, EmptiesDone, RowsDone, AllCols,
     AllRows, ActiveCols, ActiveRows, Cols, Rows
<1> QED
  BY <1>1, ScanInit, ControlStep, ScanStep, WorkIsBounded, PTL DEF Spec

\* Every variable keeps its type; in particular the arithmetic on the bounds
\* never makes an infinite bound of a finite one.
THEOREM PresolveTypeCorrect == Spec => []TypeOK
<1>1. TrailInv /\ BoundInv /\ ControlType /\ SolutionType => TypeOK
  <2> SUFFICES ASSUME TrailInv, BoundInv, ControlType, SolutionType PROVE TypeOK
    OBVIOUS
  <2>1. problem \in Problem
    BY ProblemsAssumption DEF TrailInv, WorkType
  <2>2. /\ col_lower \in [Cols -> Bound] /\ col_upper \in [Cols -> Bound]
        /\ row_lower \in [Rows -> Bound] /\ row_upper \in [Rows -> Bound]
    BY DEF TrailInv, WorkType, BoundInv, SmallBound
  <2>3. \A p \in DOMAIN trail : trail[p].kind \in MoveKinds
    BY MoveFields DEF MoveKinds
  <2> QED
    BY <2>1, <2>2, <2>3 DEF TypeOK, TrailInv, WorkType, ControlType, SolutionType
<1>2. Spec => []ControlType
  BY ScanInit, ControlStep, WorkIsBounded, PTL DEF Spec
<1>3. Spec => [](SolutionType /\ ReplayInv /\ DualsGrained)
  BY ReplayInit, SolutionTypeStep, ReplayStep, DualsGrainedStep, WorkIsBounded, PTL DEF Spec
<1> QED
  BY <1>1, <1>2, <1>3, WorkIsBounded, PTL

\* Whatever the problem, and whatever optimal pair of the reduced problem the
\* solver finds, postsolve restores complementary slackness: a row with a dual
\* is at one of its own bounds, and a column with a reduced cost at one of its
\* own, not at one that presolve tightened.  The dual of a singleton row is the
\* quotient that the code computes, which the unit leaves exact.
THEOREM SlacknessRestored == Spec => []SlacknessIsRestored
<1> DEFINE Tracks == RowsTrack /\ SingletonsBind /\ HasHistory
<1>1. Spec => []Tracks
  BY TrackInit, RowsTrackStep, SingletonsBindStep, HistoryStep, WorkIsBounded, PTL DEF Spec
<1>2. Spec => [](SolutionType /\ ReplayInv /\ DualsGrained)
  BY ReplayInit, SolutionTypeStep, ReplayStep, DualsGrainedStep, WorkIsBounded, PTL DEF Spec
<1>3. Spec => []SlackInv
  BY <1>1, <1>2, SlackInit, SlackStep, WorkIsBounded, PTL DEF Spec
<1>4. SolutionType /\ ReplayInv /\ SlackInv => SlacknessIsRestored
  <2> SUFFICES ASSUME SolutionType, ReplayInv, SlackInv, pc = "solved"
               PROVE  /\ \A i \in Rows : dual[i] # 0 => AtOwnBound(problem, primal, i)
                      /\ \A j \in Cols : reduced_costs[j] # 0 =>
                           primal[j] \in {problem.col_lower[j], problem.col_upper[j]}
    BY DEF SlacknessIsRestored, AtOwnBound
  <2>1. primal \in [Cols -> Int] /\ Completes(primal)
    BY DEF SolutionType, ReplayInv, Completes
  <2> QED
    BY <2>1 DEF SlackInv, AtFiniteBound
<1> QED
  BY <1>2, <1>3, <1>4, PTL
================================================================================
