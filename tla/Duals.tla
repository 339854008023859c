--------------------------------- MODULE Duals ---------------------------------
(***************************************************************************)
(* What an engine's multipliers are worth (src/l1/duals.cpp): a Farkas     *)
(* certificate is checked by the two ranges it leaves for the sum of the   *)
(* weighted activities, a primal-dual pair by its complementary slackness, *)
(* and by the duality gap that PDHG reports (src/l1/pdhg.cpp).             *)
(*                                                                         *)
(* Each loop over rows or columns is an action.  Multipliers are integers; *)
(* the sums obey the floating-point rules for infinities and NaN.          *)
(***************************************************************************)
EXTENDS LinearProgram

CONSTANTS
  Problems,      \* valid problems
  Grid,          \* the values of a column
  Multipliers    \* the values of a row's multiplier

ASSUME ProblemsAssumption == Problems \subseteq Problem
ASSUME GridAssumption ==
  Grid \subseteq Int /\ Multipliers \subseteq Int /\ 0 \in Grid \cap Multipliers

VARIABLES
  problem,
  x, y,             \* what the engine reports
  pc,
  row_range, col_range,
  certified,        \* certifies_infeasibility
  worst,            \* complementary_slackness_violation
  dual_obj          \* PDHG's bound, or NaN if there is none

ranges == <<row_range, col_range>>
vars == <<problem, x, y, pc, ranges, certified, worst, dual_obj>>

NaN == 2 * kInfinity

\* A product with a bound: zero times an infinity is no number.
Times(mult, bound) ==
  IF is_finite_bound(bound) THEN mult * bound
  ELSE CASE mult > 0 -> bound [] mult < 0 -> -bound [] OTHER -> NaN

\* Mutants: a negative multiplier does not reverse the order; a multiplier of
\* zero is not set apart.
TermUnreversed(mult, lo, hi) ==
  IF mult = 0 THEN [lo |-> 0, hi |-> 0]
  ELSE [lo |-> Times(mult, lo), hi |-> Times(mult, hi)]
TermOfZero(mult, lo, hi) ==
  IF mult >= 0 THEN [lo |-> Times(mult, lo), hi |-> Times(mult, hi)]
  ELSE [lo |-> Times(mult, hi), hi |-> Times(mult, lo)]
term_range(mult, lo, hi) ==
  CASE mult = 0 -> [lo |-> 0, hi |-> 0]
    [] mult > 0 -> [lo |-> Times(mult, lo), hi |-> Times(mult, hi)]
    [] OTHER -> [lo |-> Times(mult, hi), hi |-> Times(mult, lo)]

\* The infinities, and what is no number, among some terms.
Infinite(term) == {term[k] : k \in {k \in DOMAIN term : ~is_finite_bound(term[k])}}

\* A loop that accumulates one end of the ranges: an infinity absorbs what is
\* finite, and opposite infinities make no number, in whatever order they come.
accumulate(term) ==
  CASE Infinite(term) = {} -> SumOver(term, DOMAIN term)
    [] Infinite(term) = {kInfinity} -> kInfinity
    [] Infinite(term) = {-kInfinity} -> -kInfinity
    [] OTHER -> NaN

Accumulated(range) ==
  [lo |-> accumulate([k \in DOMAIN range |-> range[k].lo]),
   hi |-> accumulate([k \in DOMAIN range |-> range[k].hi])]

\* The transposed product.
MultiplyTranspose(p, u, j) == SumOver([i \in Rows |-> p.A[i][j] * u[i]], Rows)

row_side_range(p, u) ==
  Accumulated([i \in Rows |-> term_range(u[i], p.row_lower[i], p.row_upper[i])])

column_side_range(p, u) ==
  Accumulated([j \in Cols |-> term_range(MultiplyTranspose(p, u, j), p.col_lower[j], p.col_upper[j])])

disjoint_from(r, other) == r.hi < other.lo \/ other.hi < r.lo

IsNumber(r) == r.lo # NaN /\ r.hi # NaN

Disjoint(r, c) == IsNumber(r) /\ IsNumber(c) /\ disjoint_from(r, c)

\* How far a multiple of a number between two bounds may lie from zero, for
\* what the bounds say about it.
Reach(mult, lo, hi) ==
  Magnitude(mult) * ((IF is_finite_bound(lo) THEN Magnitude(lo) ELSE 0)
                      + (IF is_finite_bound(hi) THEN Magnitude(hi) ELSE 0))

\* The infinite bound is beyond all sums of finite bounds.
ASSUME MagnitudeAssumption ==
  \A p \in Problems, u \in [Rows -> Multipliers] :
    /\ SumOver([i \in Rows |-> Reach(u[i], p.row_lower[i], p.row_upper[i])], Rows) < kInfinity
    /\ SumOver([j \in Cols |-> Reach(MultiplyTranspose(p, u, j), p.col_lower[j], p.col_upper[j])], Cols)
         < kInfinity

-----------------------------------------------------------------------------
Zero(S) == [k \in S |-> 0]

Init ==
  /\ problem \in Problems
  /\ x = Zero(Cols) /\ y = Zero(Rows)
  /\ pc = "solve"
  /\ row_range = [lo |-> 0, hi |-> 0] /\ col_range = row_range
  /\ certified = FALSE
  /\ worst = 0
  /\ dual_obj = 0

\* An engine comes back with multipliers.
ReportDual ==
  /\ pc = "solve" /\ pc' = "rows"
  /\ y' \in [Rows -> Multipliers]
  /\ UNCHANGED <<problem, x, ranges, certified, worst, dual_obj>>

RowSide ==
  /\ pc = "rows" /\ pc' = "columns"
  /\ row_range' = row_side_range(problem, y)
  /\ UNCHANGED <<problem, x, y, col_range, certified, worst, dual_obj>>

ColumnSide ==
  /\ pc = "columns" /\ pc' = "certificate"
  /\ col_range' = column_side_range(problem, y)
  /\ UNCHANGED <<problem, x, y, row_range, certified, worst, dual_obj>>

certifies_infeasibility ==
  /\ pc = "certificate" /\ pc' = "certified"
  /\ certified' = Disjoint(row_range, col_range)
  /\ UNCHANGED <<problem, x, y, ranges, worst, dual_obj>>

\* The engine comes back with a point as well.
ReportPrimal ==
  /\ pc = "certified" /\ pc' = "slackness"
  /\ x' \in [Cols -> Grid]
  /\ UNCHANGED <<problem, y, ranges, certified, worst, dual_obj>>

\* Mutant: a value at its upper bound is taken to be between its bounds.
AtLower(v, lo, hi) == is_finite_bound(lo) /\ v = lo
AtBound(v, lo, hi) ==
  \/ is_finite_bound(lo) /\ v = lo
  \/ is_finite_bound(hi) /\ v = hi

\* What is not zero although its row or column is at no bound.
Violations(p, v, u) ==
  {Magnitude(u[i]) : i \in
     {i \in Rows : ~AtBound(Activity(p, v, i, Cols), p.row_lower[i], p.row_upper[i])}}
  \cup
  {Magnitude(ReducedCost(p, u, j, Rows)) : j \in
     {j \in Cols : ~AtBound(v[j], p.col_lower[j], p.col_upper[j])}}

complementary_slackness_violation ==
  /\ pc = "slackness" /\ pc' = "gap"
  /\ worst' = Max({0} \cup Violations(problem, x, y))
  /\ UNCHANGED <<problem, x, y, ranges, certified, dual_obj>>

\* Mutant: the supremum.
SupOverBox(coeff, lo, hi) ==
  IF coeff = 0 THEN 0
  ELSE LET bound == IF coeff > 0 THEN hi ELSE lo
       IN  IF is_finite_bound(bound) THEN coeff * bound ELSE -kInfinity
inf_over_box(coeff, lo, hi) ==
  IF coeff = 0 THEN 0
  ELSE LET bound == IF coeff > 0 THEN lo ELSE hi
       IN  IF is_finite_bound(bound) THEN coeff * bound ELSE -kInfinity

\* The terms are summed up unless one of them is infinite.
DualObjective(p, u) ==
  LET cols == [j \in Cols |-> inf_over_box(ReducedCost(p, u, j, Rows), p.col_lower[j], p.col_upper[j])]
      rows == [i \in Rows |-> inf_over_box(u[i], p.row_lower[i], p.row_upper[i])]
  IN  IF Infinite(cols) \cup Infinite(rows) # {} THEN NaN
      ELSE SumOver(cols, Cols) + SumOver(rows, Rows)

duality_gap ==
  /\ pc = "gap" /\ pc' = "done"
  /\ dual_obj' = DualObjective(problem, y)
  /\ UNCHANGED <<problem, x, y, ranges, certified, worst>>

Next ==
  \/ ReportDual \/ RowSide \/ ColumnSide \/ certifies_infeasibility
  \/ ReportPrimal \/ complementary_slackness_violation \/ duality_gap

Spec == Init /\ [][Next]_vars

-----------------------------------------------------------------------------
(* Properties *)

Points == [Cols -> Grid]

Infeasible(p) == \A v \in Points : ~Feasible(p, v)

\* The extreme of a multiple of a number between two bounds, in the problem's
\* own sense: the least for a minimization, the greatest for a maximization.
Extreme(p, coeff, lo, hi) ==
  IF coeff = 0 THEN 0 ELSE Times(coeff, IF (coeff > 0) = p.minimize THEN lo ELSE hi)

\* No feasible point is better than v, and the duals prove it: the Lagrangian
\* bound in the problem's own sense is the objective at v.
Genuine(p, v, u) ==
  LET rows == [i \in Rows |-> Extreme(p, u[i], p.row_lower[i], p.row_upper[i])]
      cols == [j \in Cols |-> Extreme(p, ReducedCost(p, u, j, Rows), p.col_lower[j], p.col_upper[j])]
  IN  /\ Feasible(p, v)
      /\ Infinite(rows) \cup Infinite(cols) = {}
      /\ SumOver(rows, Rows) + SumOver(cols, Cols) = Cost(p, v, Cols)

\* What the certificate proves is true, whatever the multipliers are.
CertificateIsSound ==
  (pc = "certified" /\ certified) => Infeasible(problem)

\* No infeasible problem lacks a certificate: some multipliers pass the check.
InfeasibleHasCertificate ==
  (pc = "solve" /\ Sane(problem) /\ Infeasible(problem)) =>
    \E u \in [Rows -> Multipliers] :
      Disjoint(row_side_range(problem, u), column_side_range(problem, u))

\* An optimal pair passes the slackness check, at either bound.
GenuinePairsPass ==
  (pc = "done" /\ Genuine(problem, x, y)) => worst = 0

\* For a minimization the bound is honest: it is nowhere above the objective,
\* and meets it at an optimal pair.
MinimumIsBounded ==
  (pc = "done" /\ problem.minimize /\ dual_obj # NaN /\ Feasible(problem, x)) =>
    /\ dual_obj <= Cost(problem, x, Cols)
    /\ Genuine(problem, x, y) => dual_obj = Cost(problem, x, Cols)
================================================================================
