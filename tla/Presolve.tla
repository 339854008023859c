-------------------------------- MODULE Presolve --------------------------------
(***************************************************************************)
(* Dual-preserving presolve and its postsolve (src/l1/presolve.cpp).       *)
(* Rounds of reductions remove fixed columns, empty columns, and empty,    *)
(* redundant or singleton rows, each recorded as a move on a trail.  A     *)
(* solver then solves what is left, and postsolve replays the trail from   *)
(* its end to find a primal and a dual solution of the original problem.   *)
(*                                                                         *)
(* One action is one turn of one of the loops.  The solver is external: it *)
(* reports any optimal primal-dual pair of the reduced problem.            *)
(***************************************************************************)
EXTENDS LinearProgram, Sequences

CONSTANTS
  Problems,    \* the problems presolve is called on
  MaxRounds,   \* options.max_rounds
  Scale,       \* a common multiple of the coefficients
  Grid,        \* the values the solver may report for a column
  DualGrid     \* the values the solver may report for a row's dual

ASSUME ProblemsAssumption == Problems \subseteq Problem
ASSUME RoundsAssumption == MaxRounds \in Nat \ {0}
ASSUME GridAssumption == Grid \subseteq Int /\ DualGrid \subseteq Int

\* Numbers are counted in a unit so small that whatever is divided is a
\* multiple of what divides it.  A rational problem and the solution reported
\* for it always have such a unit: a row can be multiplied by the denominators
\* of its coefficients, and then every bound, cost and dual by a power of
\* Scale for each row that may have its only coefficient divide.
Divides(d, n) == \E k \in (-Magnitude(n))..Magnitude(n) : n = d * k

ASSUME ScaleAssumption ==
  /\ Scale \in Nat \ {0}
  /\ \A p \in Problems :
       /\ \A i \in Rows, j \in Cols : p.A[i][j] # 0 => Divides(p.A[i][j], Scale)
       /\ \A b \in BoundsOf(p) : is_finite_bound(b) => Divides(Power(Scale, NumRows), b)
       /\ \A j \in Cols : Divides(Power(Scale, NumRows), p.objective[j])
  /\ \A y \in DualGrid : Divides(Power(Scale, NumRows), y)

\* Finite numbers stay away from the infinite ones: the removal of a column
\* changes a bound by at most a coefficient times another bound.
ASSUME MagnitudeAssumption ==
  \A p \in Problems : \A b \in BoundsOf(p) :
    is_finite_bound(b) => Magnitude(b) * Power(1 + Scale, NumCols) < kInfinity

VARIABLES
  problem,       \* the caller's problem
  pc,            \* the loop that is running
  round, cursor, changed,
  col_lower, col_upper, row_lower, row_upper,  \* the working bounds
  col_active, row_active,
  trail,         \* the moves, in the order applied
  objective_constant_delta,
  status,        \* result.status
  primal, dual, reduced_costs    \* PostsolveResult

bounds == <<col_lower, col_upper, row_lower, row_upper>>
active == <<col_active, row_active>>
reduction == <<problem, round, changed, bounds, active, trail,
               objective_constant_delta, status>>
solution == <<primal, dual, reduced_costs>>
vars == <<reduction, pc, cursor, solution>>

ActiveCols == {j \in Cols : col_active[j]}
ActiveRows == {i \in Rows : row_active[i]}

Init ==
  /\ problem \in Problems
  /\ pc = "columns"
  /\ round = 1
  /\ cursor = 1
  /\ changed = FALSE
  /\ col_lower = problem.col_lower
  /\ col_upper = problem.col_upper
  /\ row_lower = problem.row_lower
  /\ row_upper = problem.row_upper
  /\ col_active = [j \in Cols |-> TRUE]
  /\ row_active = [i \in Rows |-> TRUE]
  /\ trail = << >>
  /\ objective_constant_delta = 0
  /\ status = "none"
  /\ primal = [j \in Cols |-> 0]
  /\ dual = [i \in Rows |-> 0]
  /\ reduced_costs = [j \in Cols |-> 0]

-----------------------------------------------------------------------------
(* Reductions *)

\* validate() refused the problem.
RejectProblem ==
  /\ pc = "columns" /\ round = 1 /\ cursor = 1
  /\ ~validate(problem)
  /\ status' = "Error"
  /\ pc' = "done"
  /\ UNCHANGED <<problem, round, changed, bounds, active, trail,
                 objective_constant_delta, cursor, solution>>

Validated == validate(problem)

FoundInfeasible ==
  /\ status' = "Infeasible"
  /\ pc' = "done"
  /\ UNCHANGED <<problem, round, changed, bounds, active, trail,
                 objective_constant_delta, cursor, solution>>

NextTurn == cursor' = cursor + 1 /\ UNCHANGED pc

crossed(lo, hi) == lo > hi

\* The move of a column removed with a value: with its entries in the rows
\* that are still active, or with none.
ColumnMove(kind, j, value, rows) ==
  [kind |-> kind, col |-> j, value |-> value,
   obj_coeff |-> problem.objective[j], rows |-> rows]

RemoveColumn(kind, j, value, rows) ==
  /\ objective_constant_delta' = objective_constant_delta + problem.objective[j] * value
  /\ col_active' = [col_active EXCEPT ![j] = FALSE]
  /\ trail' = Append(trail, ColumnMove(kind, j, value, rows))
  /\ changed' = TRUE

ColumnFixed(j) ==
  /\ is_finite_bound(col_lower[j]) /\ is_finite_bound(col_upper[j])
  /\ col_lower[j] = col_upper[j]

\* Mutant: the rows already removed are recorded with the move.
FixRecordsAll(j, value) ==
  LET touched == ColEntries(problem, j)
      folded(b) == [i \in Rows |->
        IF i \in touched THEN Minus(b[i], problem.A[i][j] * value) ELSE b[i]]
  IN  /\ row_lower' = folded(row_lower)
      /\ row_upper' = folded(row_upper)
      /\ RemoveColumn("fixed", j, value, touched)

fix_column(j, value) ==
  LET touched == ColEntries(problem, j) \cap ActiveRows
      folded(b) == [i \in Rows |->
        IF i \in touched THEN Minus(b[i], problem.A[i][j] * value) ELSE b[i]]
  IN  /\ row_lower' = folded(row_lower)
      /\ row_upper' = folded(row_upper)
      /\ RemoveColumn("fixed", j, value, touched)

\* A turn of the first loop.
ScanColumn ==
  LET j == cursor
  IN  /\ pc = "columns" /\ j \in Cols /\ Validated
      /\ IF col_active[j] /\ crossed(col_lower[j], col_upper[j])
         THEN FoundInfeasible
         ELSE /\ NextTurn
              /\ IF col_active[j] /\ ColumnFixed(j)
                 THEN /\ fix_column(j, col_lower[j])
                      /\ UNCHANGED <<problem, round, col_lower, col_upper, row_active,
                                     status, solution>>
                 ELSE UNCHANGED <<reduction, solution>>

\* The value of a column that no active row touches: the bound its cost
\* favours, or with no cost any value within its bounds.
Favours(j, upper) ==
  LET c == problem.objective[j]
  IN  IF problem.minimize = upper THEN c < 0 ELSE c > 0

Resolvable(j) ==
  \/ problem.objective[j] = 0
  \/ Favours(j, FALSE) /\ is_finite_bound(col_lower[j])
  \/ Favours(j, TRUE) /\ is_finite_bound(col_upper[j])

EmptyValue(j) ==
  LET lo == col_lower[j]
      hi == col_upper[j]
  IN  IF problem.objective[j] = 0
      THEN IF is_finite_bound(lo) THEN lo ELSE IF is_finite_bound(hi) THEN hi ELSE 0
      ELSE IF Favours(j, FALSE) THEN lo ELSE hi

Emptied(j) == ColEntries(problem, j) \cap ActiveRows = {}

\* A turn of the second loop.
ScanEmptyColumn ==
  LET j == cursor
  IN  /\ pc = "empties" /\ j \in Cols
      /\ NextTurn
      /\ IF col_active[j] /\ Emptied(j) /\ Resolvable(j)
         THEN /\ RemoveColumn("empty", j, EmptyValue(j), {})
              /\ UNCHANGED <<problem, round, bounds, row_active, status, solution>>
         ELSE UNCHANGED <<reduction, solution>>

-----------------------------------------------------------------------------
(* The third loop: rows *)

\* The active columns of row i, and the least and the greatest value of its
\* activity under the working column bounds.
ActiveEntries(i) == RowEntries(problem, i) \cap ActiveCols

Extreme(i, least) ==
  LET side(j) == IF (problem.A[i][j] > 0) = least THEN col_lower[j] ELSE col_upper[j]
  IN  IF \E j \in ActiveEntries(i) : ~is_finite_bound(side(j))
      THEN IF least THEN -kInfinity ELSE kInfinity
      ELSE SumOver([j \in ActiveEntries(i) |-> problem.A[i][j] * side(j)], ActiveEntries(i))

min_activity(i) == Extreme(i, TRUE)
max_activity(i) == Extreme(i, FALSE)

\* An empty row that zero satisfies, or one that cannot bind.
Redundant(i) ==
  /\ is_finite_bound(row_lower[i]) => min_activity(i) >= row_lower[i]
  /\ is_finite_bound(row_upper[i]) => max_activity(i) <= row_upper[i]

\* Mutant: a row that may hold from below is taken for one that cannot.
TooHigh(i) ==
  \/ is_finite_bound(row_lower[i]) /\ min_activity(i) < row_lower[i]
  \/ is_finite_bound(row_upper[i]) /\ min_activity(i) > row_upper[i]

ProvenInfeasible(i) ==
  \/ is_finite_bound(row_lower[i]) /\ max_activity(i) < row_lower[i]
  \/ is_finite_bound(row_upper[i]) /\ min_activity(i) > row_upper[i]

Singleton(i) == \E j \in Cols : ActiveEntries(i) = {j}
OnlyCol(i) == CHOOSE j \in ActiveEntries(i) : TRUE

\* The number whose multiple by a is b.
Quotient(b, a) == CHOOSE q \in (-Magnitude(b))..Magnitude(b) : a * q = b

\* Row i's bounds, divided by its only coefficient: a negative one swaps them.
ImpliedLower(i, a) ==
  LET b == IF a > 0 THEN row_lower[i] ELSE row_upper[i]
  IN  IF is_finite_bound(b) THEN Quotient(b, a) ELSE -kInfinity
ImpliedUpper(i, a) ==
  LET b == IF a > 0 THEN row_upper[i] ELSE row_lower[i]
  IN  IF is_finite_bound(b) THEN Quotient(b, a) ELSE kInfinity

SingletonMove(i) ==
  LET j == OnlyCol(i)
      a == problem.A[i][j]
  IN  [kind |-> "singleton", row |-> i, col |-> j, coeff |-> a,
       old_lower |-> col_lower[j], old_upper |-> col_upper[j],
       new_lower |-> Max({col_lower[j], ImpliedLower(i, a)}),
       new_upper |-> Min({col_upper[j], ImpliedUpper(i, a)})]

\* Mutant: the removal of a row does not ask for another round.
RemoveRowQuietly(i, move) ==
  /\ trail' = Append(trail, move)
  /\ row_active' = [row_active EXCEPT ![i] = FALSE]
  /\ NextTurn
  /\ UNCHANGED <<problem, round, changed, row_lower, row_upper, col_active,
                 objective_constant_delta, status, solution>>

RemoveRow(i, move) ==
  /\ trail' = Append(trail, move)
  /\ row_active' = [row_active EXCEPT ![i] = FALSE]
  /\ changed' = TRUE
  /\ NextTurn
  /\ UNCHANGED <<problem, round, row_lower, row_upper, col_active,
                 objective_constant_delta, status, solution>>

Turn(i) == pc = "rows" /\ cursor = i /\ i \in Rows

SkipRow(i) ==
  /\ Turn(i)
  /\ \/ ~row_active[i]
     \/ ~Redundant(i) /\ ~ProvenInfeasible(i) /\ ~Singleton(i)
  /\ NextTurn
  /\ UNCHANGED <<reduction, solution>>

RemoveRedundantRow(i) ==
  /\ Turn(i) /\ row_active[i] /\ Redundant(i)
  /\ RemoveRow(i, [kind |-> "redundant", row |-> i])
  /\ UNCHANGED <<col_lower, col_upper>>

RowCannotHold(i) ==
  /\ Turn(i) /\ row_active[i] /\ ~Redundant(i) /\ ProvenInfeasible(i)
  /\ FoundInfeasible

\* Mutant: the old bound on the other side is forgotten.
TightenOverwrites(i) ==
  /\ Turn(i) /\ row_active[i]
  /\ ~Redundant(i) /\ ~ProvenInfeasible(i) /\ Singleton(i)
  /\ LET move == [SingletonMove(i) EXCEPT
                    !.new_lower = ImpliedLower(i, SingletonMove(i).coeff)]
     IN  /\ col_lower' = [col_lower EXCEPT ![move.col] = move.new_lower]
         /\ col_upper' = [col_upper EXCEPT ![move.col] = move.new_upper]
         /\ RemoveRow(i, move)

\* A row with one active column becomes a bound of that column.
TightenSingleton(i) ==
  /\ Turn(i) /\ row_active[i]
  /\ ~Redundant(i) /\ ~ProvenInfeasible(i) /\ Singleton(i)
  /\ LET move == SingletonMove(i)
     IN  IF crossed(move.new_lower, move.new_upper)
         THEN FoundInfeasible
         ELSE /\ col_lower' = [col_lower EXCEPT ![move.col] = move.new_lower]
              /\ col_upper' = [col_upper EXCEPT ![move.col] = move.new_upper]
              /\ RemoveRow(i, move)

ScanRow == \E i \in Rows :
  SkipRow(i) \/ RemoveRedundantRow(i) \/ RowCannotHold(i) \/ TightenSingleton(i)

-----------------------------------------------------------------------------
(* Rounds *)

EndColumns ==
  /\ pc = "columns" /\ cursor > NumCols /\ Validated
  /\ pc' = "empties" /\ cursor' = 1
  /\ UNCHANGED <<reduction, solution>>

EndEmpties ==
  /\ pc = "empties" /\ cursor > NumCols
  /\ pc' = "rows" /\ cursor' = 1
  /\ UNCHANGED <<reduction, solution>>

AnotherRound == changed /\ round < MaxRounds

\* Another round if something changed, or else the reduced problem.
EndRound ==
  /\ pc = "rows" /\ cursor > NumRows
  /\ cursor' = 1
  /\ changed' = FALSE
  /\ IF AnotherRound
     THEN /\ pc' = "columns" /\ round' = round + 1
          /\ UNCHANGED status
     ELSE /\ pc' = "solve" /\ status' = "Reduced"
          /\ UNCHANGED round
  /\ UNCHANGED <<problem, bounds, active, trail, objective_constant_delta, solution>>

-----------------------------------------------------------------------------
(* The solver *)

\* The reduced problem is over the active rows and columns only.
ReducedFeasible(x) ==
  /\ \A j \in ActiveCols : Within(x[j], col_lower[j], col_upper[j])
  /\ \A i \in ActiveRows :
       Within(Activity(problem, x, i, ActiveCols), row_lower[i], row_upper[i])

\* The sign a multiplier may have at a value between two bounds.
SignsAgree(multiplier, value, lo, hi) ==
  LET m == IF problem.minimize THEN multiplier ELSE -multiplier
  IN  /\ m > 0 => is_finite_bound(lo) /\ value = lo
      /\ m < 0 => is_finite_bound(hi) /\ value = hi

ReducedOptimal(x, y) ==
  /\ \A i \in ActiveRows :
       SignsAgree(y[i], Activity(problem, x, i, ActiveCols), row_lower[i], row_upper[i])
  /\ \A j \in ActiveCols :
       SignsAgree(ReducedCost(problem, y, j, ActiveRows), x[j], col_lower[j], col_upper[j])

\* What the solver reports of the columns and rows it was given; the rest of
\* the result starts as zero.
Solve ==
  /\ pc = "solve"
  /\ \E x \in {x \in [ActiveCols -> Grid] : ReducedFeasible(x)} :
     \E y \in [ActiveRows -> DualGrid] :
       /\ ReducedOptimal(x, y)
       /\ primal' = [j \in Cols |-> IF col_active[j] THEN x[j] ELSE 0]
       /\ dual' = [i \in Rows |-> IF row_active[i] THEN y[i] ELSE 0]
       /\ reduced_costs' = [j \in Cols |->
            IF col_active[j] THEN ReducedCost(problem, y, j, ActiveRows) ELSE 0]
  /\ pc' = "replay"
  /\ cursor' = Len(trail)
  /\ UNCHANGED reduction

\* It reports no optimum, and there is nothing to postsolve.
GiveUp ==
  /\ pc = "solve"
  /\ pc' = "done"
  /\ UNCHANGED <<reduction, cursor, solution>>

-----------------------------------------------------------------------------
(* Postsolve *)

UndoColumn(move) ==
  /\ primal' = [primal EXCEPT ![move.col] = move.value]
  /\ reduced_costs' = [reduced_costs EXCEPT ![move.col] =
       move.obj_coeff
         - SumOver([i \in move.rows |-> problem.A[i][move.col] * dual[i]], move.rows)]
  /\ UNCHANGED dual

\* The final point sits at the bound the row produced.
AtTightenedLower(move) ==
  /\ is_finite_bound(move.new_lower)
  /\ primal[move.col] = move.new_lower
  /\ move.new_lower > move.old_lower
AtTightenedUpper(move) ==
  /\ is_finite_bound(move.new_upper)
  /\ primal[move.col] = move.new_upper
  /\ move.new_upper < move.old_upper

\* Mutant: the row is charged wherever the point sits.
AlwaysBinds(move) == TRUE
Binds(move) == AtTightenedLower(move) \/ AtTightenedUpper(move)

UndoSingleton(move) ==
  /\ UNCHANGED primal
  /\ IF Binds(move)
     THEN /\ dual' = [dual EXCEPT ![move.row] = Quotient(reduced_costs[move.col], move.coeff)]
          /\ reduced_costs' = [reduced_costs EXCEPT ![move.col] = 0]
     ELSE /\ dual' = [dual EXCEPT ![move.row] = 0]
          /\ UNCHANGED reduced_costs

UndoRedundant(move) ==
  /\ dual' = [dual EXCEPT ![move.row] = 0]
  /\ UNCHANGED <<primal, reduced_costs>>

Replay ==
  /\ pc = "replay" /\ cursor > 0
  /\ LET move == trail[cursor]
     IN  \/ move.kind \in {"fixed", "empty"} /\ UndoColumn(move)
         \/ move.kind = "singleton" /\ UndoSingleton(move)
         \/ move.kind = "redundant" /\ UndoRedundant(move)
  /\ cursor' = cursor - 1
  /\ UNCHANGED <<reduction, pc>>

EndReplay ==
  /\ pc = "replay" /\ cursor = 0
  /\ pc' = "solved"
  /\ UNCHANGED <<reduction, cursor, solution>>

Finished ==
  /\ pc \in {"done", "solved"}
  /\ UNCHANGED vars

Next ==
  \/ RejectProblem
  \/ ScanColumn \/ EndColumns
  \/ ScanEmptyColumn \/ EndEmpties
  \/ ScanRow \/ EndRound
  \/ Solve \/ GiveUp
  \/ Replay \/ EndReplay
  \/ Finished

Spec == Init /\ [][Next]_vars

-----------------------------------------------------------------------------
(* Properties *)

MoveKinds == {"fixed", "empty", "redundant", "singleton"}
RemovesRow(move) == move.kind \in {"redundant", "singleton"}
RemovesCol(move) == move.kind \in {"fixed", "empty"}

\* What the undo of a move reads or writes.
UsesRow(move, i) ==
  \/ RemovesRow(move) /\ move.row = i
  \/ RemovesCol(move) /\ i \in move.rows
UsesCol(move, j) == move.kind # "redundant" /\ move.col = j

TypeOK ==
  /\ problem \in Problem
  /\ pc \in {"columns", "empties", "rows", "solve", "replay", "solved", "done"}
  /\ round \in 1..MaxRounds
  /\ cursor \in Nat
  /\ changed \in BOOLEAN
  /\ col_lower \in [Cols -> Bound] /\ col_upper \in [Cols -> Bound]
  /\ row_lower \in [Rows -> Bound] /\ row_upper \in [Rows -> Bound]
  /\ col_active \in [Cols -> BOOLEAN] /\ row_active \in [Rows -> BOOLEAN]
  /\ \A p \in DOMAIN trail : trail[p].kind \in MoveKinds
  /\ objective_constant_delta \in Int
  /\ status \in {"none", "Reduced", "Infeasible", "Error"}
  /\ primal \in [Cols -> Int] /\ dual \in [Rows -> Int]
  /\ reduced_costs \in [Cols -> Int]

\* The trail can be undone from its end one move at a time: a move never uses
\* a row or a column that an earlier move removed, so by the time its undo
\* runs, every value it reads is a solver's or has been restored already; and
\* what is not active was removed by a move (presolve.hpp, "POSTSOLVE
\* ARCHITECTURE").
TrailCanBeReplayed ==
  /\ \A p \in DOMAIN trail, q \in DOMAIN trail : q < p =>
       /\ RemovesRow(trail[q]) => ~UsesRow(trail[p], trail[q].row)
       /\ RemovesCol(trail[q]) => ~UsesCol(trail[p], trail[q].col)
  /\ \A i \in Rows : ~row_active[i] =>
       \E p \in DOMAIN trail : RemovesRow(trail[p]) /\ trail[p].row = i
  /\ \A j \in Cols : ~col_active[j] =>
       \E p \in DOMAIN trail : RemovesCol(trail[p]) /\ trail[p].col = j

\* "Infeasible" is claimed only of problems no point satisfies.
InfeasibleIsProved ==
  status = "Infeasible" => \A x \in [Cols -> Grid] : ~Feasible(problem, x)

\* Unless the rounds run out, presolve stops where nothing is left to do: no
\* active column is fixed or free of rows, no active row is redundant,
\* infeasible or a singleton.
FixpointIsReached ==
  pc = "solve" /\ round < MaxRounds =>
    /\ \A j \in ActiveCols : ~ColumnFixed(j) /\ ~(Emptied(j) /\ Resolvable(j))
    /\ \A i \in ActiveRows : ~Redundant(i) /\ ~ProvenInfeasible(i) /\ ~Singleton(i)

\* A solution of the reduced problem is restored to an optimal solution of the
\* original one, and its objective is the reduced one plus the constant.  A
\* row with a bound that is infinite on the wrong side holds nowhere, and yet
\* is dropped as one that cannot bind: no such problem is meant.
OptimumIsRestored ==
  pc = "solved" /\ Sane(problem) =>
    /\ Feasible(problem, primal)
    /\ Cost(problem, primal, Cols)
         = Cost(problem, primal, ActiveCols) + objective_constant_delta
    /\ \A x \in [Cols -> Grid] :
         Feasible(problem, x) =>
           ~Better(problem, Cost(problem, x, Cols), Cost(problem, primal, Cols))

\* What the solver's user is told to check: a dual is zero unless its row is
\* at a bound, a reduced cost unless its column is (duals.cpp).
SlacknessIsRestored ==
  pc = "solved" =>
    /\ \A i \in Rows : dual[i] # 0 =>
         Activity(problem, primal, i, Cols) \in {problem.row_lower[i], problem.row_upper[i]}
    /\ \A j \in Cols : reduced_costs[j] # 0 =>
         primal[j] \in {problem.col_lower[j], problem.col_upper[j]}

\* The restored multipliers have the signs that optimality asks for: every
\* move's "postsolve rule is provably correct against the ORIGINAL problem's
\* KKT conditions" (presolve.hpp).
DualSignsAreRestored ==
  pc = "solved" =>
    /\ \A i \in Rows : SignsAgree(dual[i], Activity(problem, primal, i, Cols),
                                  problem.row_lower[i], problem.row_upper[i])
    /\ \A j \in Cols : SignsAgree(reduced_costs[j], primal[j],
                                  problem.col_lower[j], problem.col_upper[j])
================================================================================
