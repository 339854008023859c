----------------------------- MODULE LinearProgram -----------------------------
(***************************************************************************)
(* The model every component reads (src/io/problem.cpp): a linear program  *)
(*                                                                         *)
(*     min or max c x   with   row_lower <= A x <= row_upper               *)
(*                             col_lower <=  x  <= col_upper               *)
(*                                                                         *)
(* with integers for the numbers.  An infinite bound is a number larger    *)
(* than any that the arithmetic of a model reaches, and is recognised by   *)
(* is_finite_bound, as in the code; tolerances, far smaller than one, turn *)
(* into exact comparisons.                                                 *)
(***************************************************************************)
EXTENDS Arithmetic

CONSTANTS
  NumRows, NumCols,
  kInfinity    \* stands for the infinite bound

ASSUME ShapeAssumption == NumRows \in Nat /\ NumCols \in Nat
ASSUME InfinityAssumption == kInfinity \in Nat \ {0}

Rows == 1..NumRows
Cols == 1..NumCols

is_finite_bound(v) == -kInfinity < v /\ v < kInfinity

Bound == (-kInfinity)..kInfinity

Magnitude(n) == IF n < 0 THEN -n ELSE n

\* A finite bound shifted by a finite amount stays a bound.
Minus(bound, shift) == IF is_finite_bound(bound) THEN bound - shift ELSE bound

Problem ==
  [A : [Rows -> [Cols -> Int]],
   row_lower : [Rows -> Bound], row_upper : [Rows -> Bound],
   col_lower : [Cols -> Bound], col_upper : [Cols -> Bound],
   objective : [Cols -> Int],
   minimize : BOOLEAN]

\* Bounds that cross are rejected; the other checks of validate() concern
\* values the model has none of.
validate(p) ==
  /\ \A i \in Rows : p.row_lower[i] <= p.row_upper[i]
  /\ \A j \in Cols : p.col_lower[j] <= p.col_upper[j]

BoundsOf(p) ==
  {p.row_lower[i] : i \in Rows} \cup {p.row_upper[i] : i \in Rows}
    \cup {p.col_lower[j] : j \in Cols} \cup {p.col_upper[j] : j \in Cols}

\* The stored entries of row i and of column j.
RowEntries(p, i) == {j \in Cols : p.A[i][j] # 0}
ColEntries(p, j) == {i \in Rows : p.A[i][j] # 0}

\* The activity of row i at x, and the objective, over some of the columns.
Activity(p, x, i, cols) == SumOver([j \in cols |-> p.A[i][j] * x[j]], cols)
Cost(p, x, cols) == SumOver([j \in cols |-> p.objective[j] * x[j]], cols)

\* The transposed product that reduced costs are made of.
ReducedCost(p, y, j, rows) ==
  p.objective[j] - SumOver([i \in rows |-> p.A[i][j] * y[i]], rows)

\* Numbers are compared with an infinite bound as they are in the code: all
\* are above -infinity and below +infinity.
AtLeast(v, lo) == IF is_finite_bound(lo) THEN lo <= v ELSE lo < 0
AtMost(v, hi) == IF is_finite_bound(hi) THEN v <= hi ELSE hi > 0
Within(v, lo, hi) == AtLeast(v, lo) /\ AtMost(v, hi)

Feasible(p, x) ==
  /\ \A j \in Cols : Within(x[j], p.col_lower[j], p.col_upper[j])
  /\ \A i \in Rows : Within(Activity(p, x, i, Cols), p.row_lower[i], p.row_upper[i])

\* A lower bound of +infinity, or an upper one of -infinity, is accepted by
\* validate() but is no bound of a program anybody means.
Sane(p) ==
  /\ \A i \in Rows : p.row_lower[i] < kInfinity /\ -kInfinity < p.row_upper[i]
  /\ \A j \in Cols : p.col_lower[j] < kInfinity /\ -kInfinity < p.col_upper[j]

\* Strictly better, in the problem's own sense.
Better(p, a, b) == IF p.minimize THEN a < b ELSE a > b
================================================================================
