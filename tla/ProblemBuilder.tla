----------------------------- MODULE ProblemBuilder -----------------------------
(***************************************************************************)
(* Problem::Builder (src/io/problem.cpp), which both readers fill.  Rows,  *)
(* columns and entries are in the order they were added; an index is zero  *)
(* if a name is unknown.  The builder's members are fields of the reader   *)
(* that owns it.                                                           *)
(***************************************************************************)
EXTENDS SparseMatrix

CONSTANT kInfinity

NewBuilder ==
  [sense |-> "Minimize", objective_constant |-> 0, rows |-> <<>>, cols |-> <<>>, entries |-> <<>>]

is_finite_bound(v) == -kInfinity < v /\ v < kInfinity

find_row(r, name) == SelectInSeq(r.rows, LAMBDA row : row.name = name)
find_column(r, name) == SelectInSeq(r.cols, LAMBDA col : col.name = name)

\* A name that is there already is an error; the callers look first.
add_row(r, name, b) ==
  [r EXCEPT !.rows = Append(@, [name |-> name, lower |-> b[1], upper |-> b[2]])]

\* column_for(): a column that is not there yet is continuous, from zero up.
column_for(r, name) ==
  IF find_column(r, name) # 0 THEN r
  ELSE [r EXCEPT !.cols = Append(@, [name |-> name, lower |-> 0, upper |-> kInfinity,
                                     integer |-> FALSE, cost |-> 0])]

set_row_bounds(r, i, b) == [r EXCEPT !.rows[i].lower = b[1], !.rows[i].upper = b[2]]
set_column_bounds(r, j, b) == [r EXCEPT !.cols[j].lower = b[1], !.cols[j].upper = b[2]]

set_objective_coefficient(r, j, v) == [r EXCEPT !.cols[j].cost = v]
add_coefficient(r, i, j, v) == [r EXCEPT !.entries = Append(@, [at |-> <<i, j>>, value |-> v])]

\* The matrix of the problem that finish() makes.
finish(r) == from_triplets(Len(r.rows), Len(r.cols), r.entries)

validate(r, matrix) ==
  /\ \A row \in ToSet(r.rows) : row.lower <= row.upper
  /\ \A col \in ToSet(r.cols) : col.lower <= col.upper
  /\ WellFormed(matrix)
===============================================================================
