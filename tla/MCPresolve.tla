------------------------------- MODULE MCPresolve -------------------------------
(***************************************************************************)
(* Every problem of two columns and two rows over a few row shapes and     *)
(* bounds.  All determinants divide four, the finite bounds are multiples  *)
(* of four and the costs of sixteen, so that vertices and their duals are  *)
(* integers, and the grid of points decides what holds of the real         *)
(* problem.                                                                *)
(***************************************************************************)
EXTENDS Presolve

Shapes == {<<2, 0>>, <<-1, 0>>, <<0, -2>>, <<1, 1>>, <<2, -2>>}
RowBounds == {<<4, kInfinity>>, <<-kInfinity, 4>>, <<4, 4>>}
FirstBounds == {<<0, kInfinity>>, <<-kInfinity, kInfinity>>, <<4, 4>>, <<-4, 4>>}
SecondBounds == {<<0, 4>>, <<0, kInfinity>>, <<-kInfinity, 4>>}
Costs == {<<16, 0>>, <<16, 16>>, <<-16, 16>>, <<0, -16>>}

MCProblem(a, b, r, s, c, d, cost, sense) ==
  [A |-> <<a, b>>,
   row_lower |-> <<r[1], s[1]>>, row_upper |-> <<r[2], s[2]>>,
   col_lower |-> <<c[1], d[1]>>, col_upper |-> <<c[2], d[2]>>,
   objective |-> cost, minimize |-> sense]

\* One problem that validation refuses.
Crossed == MCProblem(<<1, 1>>, <<2, 0>>, <<4, 4>>, <<4, 4>>, <<4, 0>>, <<0, 4>>, <<16, 16>>, TRUE)

\* One with a row that holds nowhere.
Boundless == MCProblem(<<1, 1>>, <<2, -2>>, <<kInfinity, kInfinity>>, <<4, kInfinity>>,
                       <<0, kInfinity>>, <<0, 4>>, <<16, 16>>, TRUE)

MCProblems ==
  {MCProblem(a, b, r, s, c, d, cost, sense) :
     a \in Shapes, b \in Shapes, r \in RowBounds, s \in RowBounds,
     c \in FirstBounds, d \in SecondBounds, cost \in Costs, sense \in BOOLEAN}
  \cup {Crossed, Boundless}

MCGrid == -8..8
MCDualGrid == {-16, -8, -4, 0, 4, 8, 16}
================================================================================
