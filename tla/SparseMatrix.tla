------------------------------ MODULE SparseMatrix ------------------------------
(***************************************************************************)
(* The compressed matrices of src/l0/sparse.cpp, as operators.  One record *)
(* stands for both layouts: a CsrMatrix has a line for each of its rows, a *)
(* CscMatrix one for each of its columns.  ptr counts the entries before a *)
(* line, index is what an entry has across the lines.  Indices start at    *)
(* one, coefficients are integers.                                         *)
(***************************************************************************)
EXTENDS Arithmetic, SequencesExt

Compressed(lines, across, ptr, index, values) ==
  [lines |-> lines, across |-> across, ptr |-> ptr, index |-> index, values |-> values]

nnz(a) == Len(a.values)

\* Where the entries of a line are, and the line an entry is in.
Positions(a, line) == (a.ptr[line] + 1)..a.ptr[line + 1]
LineOf(a, k) == CHOOSE line \in 1..a.lines : k \in Positions(a, line)

\* Mutant: the last of repeated entries is taken.
SummedLast(entries) ==
  FoldLeft(LAMBDA acc, e : [acc EXCEPT ![e.at] = e.value],
           [p \in {e.at : e \in ToSet(entries)} |-> 0], entries)

\* Repeated entries add up.
Summed(entries) ==
  FoldLeft(LAMBDA acc, e : [acc EXCEPT ![e.at] = @ + e.value],
           [p \in {e.at : e \in ToSet(entries)} |-> 0], entries)

\* A sum of zero is not stored, and what is stored is in the order of the
\* lines and, in a line, of what lies across.
from_triplets(lines, across, entries) ==
  LET acc == Summed(entries)
      Stored(i) == SelectSeq([j \in 1..across |-> j],
                             LAMBDA j : <<i, j>> \in DOMAIN acc /\ acc[i, j] # 0)
      Values(i) == [k \in DOMAIN Stored(i) |-> acc[i, Stored(i)[k]]]
  IN  Compressed(lines, across,
        [i \in 1..(lines + 1) |-> MapThenSumSet(LAMBDA l : Len(Stored(l)), 1..(i - 1))],
        FlattenSeq([i \in 1..lines |-> Stored(i)]), FlattenSeq([i \in 1..lines |-> Values(i)]))

\* The checks of CsrMatrix::validate and of CscMatrix::validate.
WellFormed(a) ==
  /\ a.lines \in Nat /\ a.across \in Nat
  /\ a.ptr \in Seq(Int) /\ a.index \in Seq(Int) /\ a.values \in Seq(Int)
  /\ Len(a.ptr) = a.lines + 1 /\ Len(a.index) = nnz(a)
  /\ a.ptr[1] = 0 /\ a.ptr[a.lines + 1] = nnz(a)
  /\ \A line \in 1..a.lines :
       /\ a.ptr[line] <= a.ptr[line + 1]
       /\ \A k \in Positions(a, line) :
            /\ a.index[k] \in 1..a.across
            /\ k - 1 \in Positions(a, line) => a.index[k - 1] < a.index[k]

\* Mutant: the lines are swept from the last to the first.
SweepBackwards(a) == Reverse([k \in 1..nnz(a) |-> k])

\* The entries of all lines, one line after the other.
Sweep(a) == [k \in 1..nnz(a) |-> k]

\* How many entries lie before each line across.
Counted(a) == [j \in 1..(a.across + 1) |-> Cardinality({k \in 1..nnz(a) : a.index[k] < j})]

\* Each entry takes the next free place of its new line, which is where cursor
\* points.
Placed(a) ==
  LET Place(s, k) ==
        LET dest == s.cursor[a.index[k]] + 1
        IN  [s EXCEPT !.cursor[a.index[k]] = dest,
                      !.index[dest] = LineOf(a, k), !.values[dest] = a.values[k]]
  IN  FoldLeft(Place, [cursor |-> Counted(a), index |-> a.index, values |-> a.values], Sweep(a))

\* to_csc() and to_csr(): a counting sort by what lies across.
Reordered(a) ==
  LET placed == Placed(a)
  IN  Compressed(a.across, a.lines, Counted(a), placed.index, placed.values)

\* CsrMatrix::multiply: the value of each line.
multiply(a, x) ==
  [line \in 1..a.lines |->
     SumOver([k \in Positions(a, line) |-> a.values[k] * x[a.index[k]]], Positions(a, line))]

\* CsrMatrix::multiply_transpose and CscMatrix::multiply: every entry is added
\* to what lies across, line after line.
multiply_transpose(a, x) ==
  FoldLeft(LAMBDA y, k : [y EXCEPT ![a.index[k]] = @ + a.values[k] * x[LineOf(a, k)]],
           [j \in 1..a.across |-> 0], Sweep(a))
===============================================================================
