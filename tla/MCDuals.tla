-------------------------------- MODULE MCDuals --------------------------------
(***************************************************************************)
(* Problems of two columns and two rows, feasible, infeasible or with a    *)
(* bound that is infinite on the wrong side.  All finite numbers are even  *)
(* and the determinants at most two, so that the grid decides which of     *)
(* them have a feasible point.                                             *)
(***************************************************************************)
EXTENDS Duals

FirstShapes == {<<1, 0>>, <<1, 1>>}
SecondShapes == {<<1, 1>>, <<1, -1>>, <<0, -1>>}
RowBounds == {<<2, kInfinity>>, <<-kInfinity, -2>>, <<2, 2>>}
FirstBounds == {<<0, 2>>, <<-kInfinity, kInfinity>>}
SecondBounds == {<<0, kInfinity>>, <<-kInfinity, 2>>}
Costs == {<<2, 0>>, <<-1, 1>>}

MCProblem(a, b, r, s, c, d, cost, sense) ==
  [A |-> <<a, b>>,
   row_lower |-> <<r[1], s[1]>>, row_upper |-> <<r[2], s[2]>>,
   col_lower |-> <<c[1], d[1]>>, col_upper |-> <<c[2], d[2]>>,
   objective |-> cost, minimize |-> sense]

\* A row of no activity at all.
Boundless ==
  MCProblem(<<1, 1>>, <<1, -1>>, <<kInfinity, kInfinity>>, <<-kInfinity, kInfinity>>,
            <<0, 2>>, <<-kInfinity, 2>>, <<2, 0>>, TRUE)

MCProblems ==
  {MCProblem(a, b, r, s, c, d, cost, sense) :
     a \in FirstShapes, b \in SecondShapes, r \in RowBounds, s \in RowBounds,
     c \in FirstBounds, d \in SecondBounds, cost \in Costs, sense \in BOOLEAN}
  \cup {Boundless}

MCGrid == {-4, -2, 0, 2, 4}
MCMultipliers == -1..1
================================================================================
