-------------------------------- MODULE Structure --------------------------------
(***************************************************************************)
(* Structure detection (src/l1/structure.cpp): the columns that the sparse *)
(* rows connect, by union-find, and what the rows are with respect to the  *)
(* blocks that come of it.  Blocks count from zero as in the code, columns *)
(* and rows from one.                                                      *)
(***************************************************************************)
EXTENDS SparseMatrix

CONSTANTS
  degree_threshold_factor, min_degree_threshold,
  min_blocks,
  max_linking_row_fraction       \* a pair: numerator and denominator

VARIABLES
  matrix,                        \* of the problem
  next_row,                      \* the row whose columns are united next
  parent, size,                  \* the members of the DisjointSet
  result                         \* the StructureResult

m == matrix.lines
n == matrix.across
None == -1
Blank == [kind |-> "none", num_blocks |-> 0, col_block |-> <<>>, row_block |-> <<>>,
          linking_rows |-> {}]

-------------------------------------------------------------------------------
Columns(i) == {matrix.index[k] : k \in Positions(matrix, i)}
degree(i) == matrix.ptr[i + 1] - matrix.ptr[i]

\* The element at size() / 2 of the sorted degrees.
Median ==
  CHOOSE d \in {degree(i) : i \in 1..m} :
    /\ Cardinality({i \in 1..m : degree(i) < d}) <= m \div 2
    /\ Cardinality({i \in 1..m : degree(i) <= d}) > m \div 2
Greater(a, b) == IF a >= b THEN a ELSE b
threshold == Greater(min_degree_threshold, degree_threshold_factor * Median)
IsLocalCandidate(i) == degree(i) <= threshold

\* The nodes find() stops at on its way up, each the grandparent of the one
\* before; the last of them is the root.  Path halving hangs each below the
\* next.
Visited(p, x) ==
  LET from[v \in DOMAIN p] == IF p[v] = v THEN {v} ELSE {v} \cup from[p[p[v]]]
  IN  from[x]
Root(p, x) == CHOOSE v \in Visited(p, x) : p[v] = v
Halved(p, x) == [v \in DOMAIN p |-> IF v \in Visited(p, x) THEN p[p[v]] ELSE p[v]]

\* Mutant: the second column is hung up where it is, not its tree.
UniteUnrooted(s, a, b) ==
  [s EXCEPT !.parent[b] = Root(s.parent, a), !.size[Root(s.parent, a)] = @ + s.size[b]]

\* The smaller tree goes below the root of the larger.
unite(s, a, b) ==
  LET p == Halved(Halved(s.parent, a), b)
      ra == Root(p, a)
      rb == Root(p, b)
      top == IF s.size[ra] < s.size[rb] THEN rb ELSE ra
      low == IF top = ra THEN rb ELSE ra
  IN  IF ra = rb THEN [s EXCEPT !.parent = p]
      ELSE [parent |-> [p EXCEPT ![low] = top], size |-> [s.size EXCEPT ![top] = @ + s.size[low]]]

\* Each column after the first of a row is united with the first.
United(i) ==
  LET first == matrix.index[matrix.ptr[i] + 1]
      rest == SubSeq(matrix.index, matrix.ptr[i] + 2, matrix.ptr[i + 1])
  IN  FoldLeft(LAMBDA s, j : unite(s, first, j), [parent |-> parent, size |-> size], rest)

\* Blocks are numbered as their first column comes; a column without entries
\* is in none.  A column is looked up by find(), which goes on halving.
Numbered ==
  LET csc == Reordered(matrix)
      Assign(s, j) ==
        LET root == Root(s.parent, j)
            block == IF s.block_of[root] = None THEN s.next ELSE s.block_of[root]
        IN  IF csc.ptr[j + 1] <= csc.ptr[j] THEN s
            ELSE [s EXCEPT !.parent = Halved(@, j), !.block_of[root] = block,
                           !.next = IF s.block_of[root] = None THEN @ + 1 ELSE @,
                           !.col_block[j] = block]
  IN  FoldLeft(Assign, [parent |-> parent, next |-> 0, block_of |-> [j \in 1..n |-> None],
                        col_block |-> [j \in 1..n |-> None]], [j \in 1..n |-> j])

Touched(col_block, i) == {col_block[j] : j \in Columns(i)} \ {None}

Verdict(blocks, linking) ==
  IF \/ blocks < min_blocks
     \/ linking * max_linking_row_fraction[2] > max_linking_row_fraction[1] * m
  THEN "Monolithic" ELSE "BlockAngular"
-------------------------------------------------------------------------------
\* A problem without rows or columns has no blocks.
Refuse ==
  /\ result.kind = "none" /\ next_row = 0 /\ (m = 0 \/ n = 0)
  /\ result' = [Blank EXCEPT !.kind = "Monolithic", !.col_block = [j \in 1..n |-> None],
                             !.row_block = [i \in 1..m |-> None]]
  /\ UNCHANGED <<matrix, next_row, parent, size>>

Begin ==
  /\ result.kind = "none" /\ next_row = 0 /\ m # 0 /\ n # 0
  /\ next_row' = 1
  /\ parent' = [j \in 1..n |-> j]
  /\ size' = [j \in 1..n |-> 1]
  /\ UNCHANGED <<matrix, result>>

UniteRow ==
  /\ result.kind = "none" /\ next_row \in 1..m
  /\ IF IsLocalCandidate(next_row) /\ degree(next_row) > 0
     THEN parent' = United(next_row).parent /\ size' = United(next_row).size
     ELSE UNCHANGED <<parent, size>>
  /\ next_row' = next_row + 1
  /\ UNCHANGED <<matrix, result>>

Classify ==
  /\ result.kind = "none" /\ next_row = m + 1
  /\ LET numbered == Numbered
         touched == [i \in 1..m |-> Touched(numbered.col_block, i)]
         linking == {i \in 1..m : Cardinality(touched[i]) > 1}
     IN  /\ parent' = numbered.parent
         /\ result' = [kind |-> Verdict(numbered.next, Cardinality(linking)),
                       num_blocks |-> numbered.next, col_block |-> numbered.col_block,
                       row_block |-> [i \in 1..m |-> IF Cardinality(touched[i]) = 1
                                        THEN CHOOSE b \in touched[i] : TRUE ELSE None],
                       linking_rows |-> linking]
  /\ UNCHANGED <<matrix, next_row, size>>

Next == Refuse \/ Begin \/ UniteRow \/ Classify
-------------------------------------------------------------------------------
(* Properties.                                                             *)

\* Wherever a set of columns is cut in two, one of the rows is cut as well.
IsConnected(columns, rows) ==
  \A part \in (SUBSET columns) \ {{}, columns} :
    \E i \in rows : Columns(i) \cap part # {} /\ Columns(i) \cap (columns \ part) # {}

\* What is claimed can be checked on the matrix alone: the blocks are not
\* empty and hold the columns that have entries, two columns share one only
\* if sparse rows connect them, and without the linking rows each row has the
\* columns of one block; a row is called linking only if it touches two.
\* Block-angular means at least min_blocks of them, and few linking rows.
ClaimIsCheckable ==
  result.kind # "none" =>
    LET block(b) == {j \in 1..n : result.col_block[j] = b}
        sparse == {i \in 1..m : IsLocalCandidate(i)}
    IN  /\ \A j \in 1..n : result.col_block[j] = None <=> \A i \in 1..m : j \notin Columns(i)
        /\ \A b \in 0..(result.num_blocks - 1) :
             block(b) # {} /\ IsConnected(block(b), sparse)
        /\ \A i \in 1..m :
             IF i \in result.linking_rows
             THEN /\ i \notin sparse
                  /\ \A b \in 0..(result.num_blocks - 1) : ~(Columns(i) \subseteq block(b))
             ELSE Columns(i) \subseteq block(result.row_block[i])
        /\ result.kind = "BlockAngular" =>
             /\ Cardinality({result.col_block[j] : j \in 1..n} \ {None}) >= min_blocks
             /\ Cardinality(result.linking_rows) * max_linking_row_fraction[2]
                  <= max_linking_row_fraction[1] * m
===============================================================================
