------------------------------- MODULE ReaderProofs ------------------------------
(***************************************************************************)
(* What is proved of reading a model, for every file: the matrix of what   *)
(* is read is the same in both layouts, the columns, rows and objective of *)
(* an MPS file are what its cards say, and what the reader changes or      *)
(* leaves out it warns of.                                                 *)
(*                                                                         *)
(* The layouts are a matter of the matrix alone (ArithmeticProofs); here   *)
(* it is shown that a problem which was read has such a matrix.            *)
(*                                                                         *)
(* For the columns, what the cards before a line say is a function of the  *)
(* line, and one handler after the other is shown to take the reader's     *)
(* columns from its value at a line to its value at the next.  For the     *)
(* rows and the objective it is a function of the pairs that are done, and *)
(* the handlers are folds over the pairs of one card.  The lines that are  *)
(* warned of follow from both: a handler says which lines it hears, and    *)
(* what it hears is compared with what the cards before the line explain.  *)
(***************************************************************************)
EXTENDS ReadModel, ArithmeticProofs

(***************************************************************************)
(* What is returned                                                        *)
(***************************************************************************)

\* What the constructor of a matrix makes.
IsCompressed(a) == a = Compressed(a.lines, a.across, a.ptr, a.index, a.values)

LEMMA TripletsAreCompressed ==
  ASSUME NEW lines, NEW across, NEW entries
  PROVE  /\ IsCompressed(M!from_triplets(lines, across, entries))
         /\ IsCompressed(L!from_triplets(lines, across, entries))
<1>1. ASSUME NEW ptr, NEW index, NEW values, NEW a, a = Compressed(lines, across, ptr, index, values)
      PROVE  IsCompressed(a)
  BY <1>1 DEF IsCompressed, Compressed
<1>2. \E ptr, index, values :
        M!from_triplets(lines, across, entries) = Compressed(lines, across, ptr, index, values)
  BY DEF M!from_triplets, M!Compressed, Compressed
<1>3. \E ptr, index, values :
        L!from_triplets(lines, across, entries) = Compressed(lines, across, ptr, index, values)
  BY DEF L!from_triplets, L!Compressed, Compressed
<1> QED
  BY <1>1, <1>2, <1>3

\* The MPS reader reads on until it is done, and what it returns is valid.
LEMMA MpsStep ==
  ASSUME M!Next
  PROVE  outcome = "reading" /\ (outcome' = "read" => WellFormed(matrix)' /\ IsCompressed(matrix'))
<1>1. ASSUME NEW r, M!Continue(r) PROVE outcome' = outcome \/ outcome' = "failed"
  BY <1>1 DEF M!Continue, M!Throw
<1>2. CASE M!Finish
  <2>1. outcome = "reading" /\ (M!Throw \/ (M!WellFormed(M!finish(reader)) /\ matrix' = M!finish(reader)))
    BY <1>2 DEF M!Finish, M!validate
  <2>2. M!Throw => outcome' = outcome \/ outcome' = "failed"
    BY DEF M!Throw
  <2>3. \A a : M!WellFormed(a) <=> WellFormed(a)
    BY DEF M!WellFormed, WellFormed, M!nnz, nnz, M!Positions, Positions
  <2>4. CASE M!Throw
    BY <2>1, <2>2, <2>4
  <2>5. CASE M!WellFormed(M!finish(reader)) /\ matrix' = M!finish(reader)
    <3>1. WellFormed(M!finish(reader))
      BY <2>3, <2>5
    <3>2. WellFormed(matrix)'
      BY <2>5, <3>1 DEF WellFormed, nnz, Positions
    <3>3. IsCompressed(matrix')
      BY <2>5, TripletsAreCompressed DEF M!finish
    <3> QED
      BY <2>1, <3>2, <3>3
  <2> QED
    BY <2>1, <2>4, <2>5
<1>3. CASE M!Header
  BY <1>1, <1>3 DEF M!Header, M!Reading
<1>4. CASE M!ObjSenseCard \/ M!RowsCard \/ M!ColumnsCard \/ M!RhsCard \/ M!RangesCard \/ M!BoundsCard
  BY <1>1, <1>4 DEF M!ObjSenseCard, M!RowsCard, M!ColumnsCard, M!RhsCard, M!RangesCard,
     M!BoundsCard, M!Card, M!Reading
<1>5. CASE M!StrayCard
  BY <1>5 DEF M!StrayCard, M!Card, M!Reading, M!Throw
<1>6. CASE M!SkippedCard
  BY <1>1, <1>6 DEF M!SkippedCard, M!Card, M!Reading
<1> QED
  BY <1>2, <1>3, <1>4, <1>5, <1>6 DEF M!Next

\* So does the LP reader.
LEMMA LpStep ==
  ASSUME L!Next
  PROVE  outcome = "reading" /\ (outcome' = "read" => WellFormed(matrix)' /\ IsCompressed(matrix'))
<1>1. ASSUME NEW r, L!Continue(r) PROVE outcome' = outcome \/ outcome' = "failed"
  BY <1>1 DEF L!Continue
<1>2. CASE L!Finish
  <2>1. \A a : L!WellFormed(a) <=> WellFormed(a)
    BY DEF L!WellFormed, WellFormed, L!nnz, nnz, L!Positions, Positions
  <2>2. outcome = "reading" /\ (outcome' = "failed" \/
          (L!WellFormed(L!finish(L!Declared(reader))) /\ matrix' = L!finish(L!Declared(reader))))
    BY <1>2 DEF L!Finish, L!validate
  <2>3. CASE L!WellFormed(L!finish(L!Declared(reader))) /\ matrix' = L!finish(L!Declared(reader))
    <3>1. WellFormed(L!finish(L!Declared(reader)))
      BY <2>1, <2>3
    <3>2. WellFormed(matrix)'
      BY <2>3, <3>1 DEF WellFormed, nnz, Positions
    <3>3. IsCompressed(matrix')
      BY <2>3, TripletsAreCompressed DEF L!finish
    <3> QED
      BY <2>2, <3>2, <3>3
  <2> QED
    BY <2>2, <2>3
<1>3. CASE \E section \in DOMAIN L!Headers \ {"End"} : L!HeaderLine(section)
  BY <1>1, <1>3 DEF L!HeaderLine, L!Reading
<1>4. CASE L!TextLine \/ L!RefusedLine
  BY <1>1, <1>4 DEF L!TextLine, L!RefusedLine, L!Reading
<1>5. CASE L!FinishObjective \/ L!Constraint \/ L!Bound
  BY <1>1, <1>5 DEF L!FinishObjective, L!Constraint, L!Bound
<1> QED
  BY <1>2, <1>3, <1>4, <1>5 DEF L!Next

\* A step of either reader, and the choice of one.
LEMMA ReadStep ==
  ASSUME Reads
  PROVE  outcome = "reading" /\ (outcome' = "read" => WellFormed(matrix)' /\ IsCompressed(matrix'))
<1>1. CASE Choose
  BY <1>1 DEF Choose
<1>2. CASE ReadMps
  BY <1>2, MpsStep DEF ReadMps
<1>3. CASE ReadLp
  BY <1>3, LpStep DEF ReadLp
<1> QED
  BY <1>1, <1>2, <1>3 DEF Reads

\* The matrix of a problem is one that its constructor made, and valid.
LayoutInv == outcome = "read" => WellFormed(matrix) /\ IsCompressed(matrix)

LEMMA LayoutInvHolds == ReadSpec => []LayoutInv
<1>1. Init => LayoutInv
  BY DEF Init, LayoutInv
<1>2. ASSUME LayoutInv, [Reads]_vars PROVE LayoutInv'
  <2>1. CASE Reads
    BY <2>1, ReadStep DEF LayoutInv, IsCompressed, Compressed
  <2>2. CASE UNCHANGED vars
    <3>1. outcome' = outcome /\ matrix' = matrix
      BY <2>2 DEF vars
    <3> QED
      BY <1>2, <3>1 DEF LayoutInv, IsCompressed, Compressed, WellFormed, nnz, Positions
  <2> QED
    BY <1>2, <2>1, <2>2
<1> QED
  BY <1>1, <1>2, PTL DEF ReadSpec

\* Whatever is read, from either format, its matrix is the same in both layouts:
\* the counting sort of to_csc() and to_csr() puts every entry in its place and
\* in the order validate() asks for, going there and back changes nothing, and
\* the product of each layout is the transposed one of the other.
THEOREM MatrixHasTwoLayouts == ReadSpec => []LayoutsAgree
<1>1. LayoutInv => LayoutsAgree
  BY BothLayoutsAgree DEF LayoutInv, LayoutsAgree, IsCompressed, Agree
<1> QED
  BY <1>1, LayoutInvHolds, PTL

(***************************************************************************)
(* The members of an MPS reader                                            *)
(***************************************************************************)

\* An objective that is not known has no name.
Names == STRING \cup {""}
SectionNames == M!Sections \cup {"OBJSENSE", "Ignored", "None"}
RowTypes == {"L", "G", "E", "N"}
ColumnFields == [name : STRING, lower : Int, upper : Int, integer : BOOLEAN, cost : Int]
RowFields == [name : STRING, lower : Int, upper : Int]
EntryFields == [at : Int \X Int, value : Int]

\* The members of an MPS reader and its builder, of which three are indexed
\* alike.
MpsMembers ==
  [sense : {"Minimize", "Maximize"}, objective_constant : Int, rows : Seq(RowFields),
   cols : Seq(ColumnFields), entries : Seq(EntryFields), section : SectionNames,
   objective_name : Names, row_sense : Seq(RowTypes), row_rhs : Seq(Int),
   dropped_rows : SUBSET STRING, in_integer_block : BOOLEAN, warnings : Seq(Int), error : BOOLEAN]
MpsReaders == {r \in MpsMembers : Len(r.row_sense) = Len(r.rows) /\ Len(r.row_rhs) = Len(r.rows)}

\* A new reader is one.
LEMMA NewIsReader ==
  /\ M!NewReader \in MpsReaders
  /\ M!NewReader.cols = <<>> /\ M!NewReader.section = "None" /\ ~M!NewReader.in_integer_block
  /\ ~M!NewReader.error
<1> DEFINE e == <<>>
           minimize == "Minimize"
           none == "None"
           unnamed == ""
           c == [sense |-> minimize, objective_constant |-> 0, rows |-> e, cols |-> e,
                 entries |-> e, section |-> none, objective_name |-> unnamed, row_sense |-> e,
                 row_rhs |-> e, dropped_rows |-> {}, in_integer_block |-> FALSE,
                 warnings |-> e, error |-> FALSE]
<1>1. M!NewReader = c
  BY DEF M!NewReader, M!NewBuilder
<1>2. \A T : e \in Seq(T)
  OBVIOUS
<1>3. minimize \in {"Minimize", "Maximize"} /\ none \in SectionNames /\ unnamed \in Names
  BY DEF SectionNames, Names
<1>4. c \in MpsMembers
  <2> HIDE DEF e, minimize, none, unnamed
  <2>1. /\ e \in Seq(RowFields) /\ e \in Seq(ColumnFields) /\ e \in Seq(EntryFields)
        /\ e \in Seq(RowTypes) /\ e \in Seq(Int)
    BY <1>2
  <2> QED
    BY <1>3, <2>1 DEF MpsMembers
<1>5. c \in MpsReaders
  BY <1>4 DEF MpsReaders
<1> QED
  BY <1>1, <1>5

\* A nonempty set of naturals up to K has a smallest element.
LEMMA MinIsElement ==
  ASSUME NEW K \in Nat, NEW T \in SUBSET (1..K), T # {}
  PROVE  M!Min(T) \in T /\ \A j \in T : M!Min(T) <= j
<1> DEFINE U == {K + 1 - k : k \in T}
<1>1. U \in SUBSET (1..K) /\ U # {} /\ \A j \in T : j \in Int /\ K + 1 - j \in U
  <2>1. \A k \in T : k \in Int /\ K + 1 - k \in 1..K
    OBVIOUS
  <2>2. U \in SUBSET (1..K)
    BY <2>1
  <2>3. \A j \in T : K + 1 - j \in U
    OBVIOUS
  <2>4. U # {}
    BY <2>3
  <2> HIDE DEF U
  <2> QED
    BY <2>1, <2>2, <2>3, <2>4
<1>2. Max(U) \in U /\ \A b \in U : Max(U) >= b
  BY <1>1, MaxIsElement
<1>4. PICK k \in T : Max(U) = K + 1 - k
  BY <1>2
<1>5. \A j \in T : k <= j
  <2> SUFFICES ASSUME NEW j \in T PROVE k <= j
    OBVIOUS
  <2>1. K + 1 - k >= K + 1 - j
    BY <1>1, <1>2, <1>4
  <2> QED
    BY <1>1, <2>1
<1> QED
  BY <1>5 DEF M!Min

\* The row and the column of a name, and zero if there is none.
LEMMA RowFound ==
  ASSUME NEW r \in MpsReaders, NEW name
  PROVE  /\ M!find_row(r, name) \in 0..Len(r.rows)
         /\ M!find_row(r, name) # 0 => r.rows[M!find_row(r, name)].name = name
         /\ M!find_row(r, name) = 0 => \A i \in 1..Len(r.rows) : r.rows[i].name # name
<1> DEFINE I == {i \in 1..Len(r.rows) : r.rows[i].name = name}
<1>1. M!find_row(r, name) = IF I # {} THEN M!Min(I) ELSE 0
  BY DEF M!find_row, M!SelectInSeq
<1>2. Len(r.rows) \in Nat /\ I \in SUBSET (1..Len(r.rows))
  BY DEF MpsReaders, MpsMembers
<1>3. I # {} => M!Min(I) \in I
  BY <1>2, MinIsElement
<1> QED
  BY <1>1, <1>2, <1>3

LEMMA ColumnFound ==
  ASSUME NEW r \in MpsReaders, NEW name
  PROVE  /\ M!find_column(r, name) \in 0..Len(r.cols)
         /\ M!find_column(r, name) # 0 => r.cols[M!find_column(r, name)].name = name
         /\ M!find_column(r, name) = 0 => \A j \in 1..Len(r.cols) : r.cols[j].name # name
<1> DEFINE I == {j \in 1..Len(r.cols) : r.cols[j].name = name}
<1>1. M!find_column(r, name) = IF I # {} THEN M!Min(I) ELSE 0
  BY DEF M!find_column, M!SelectInSeq
<1>2. Len(r.cols) \in Nat /\ I \in SUBSET (1..Len(r.cols))
  BY DEF MpsReaders, MpsMembers
<1>3. I # {} => M!Min(I) \in I
  BY <1>2, MinIsElement
<1> QED
  BY <1>1, <1>2, <1>3

\* Members may be replaced by others of their type.
LEMMA MembersReplaced ==
  ASSUME NEW r \in MpsReaders
  PROVE  /\ M!Failed(r) \in MpsReaders
         /\ \A q \in Seq(ColumnFields) : [r EXCEPT !.cols = q] \in MpsReaders
         /\ \A q \in Seq(EntryFields) : [r EXCEPT !.entries = q] \in MpsReaders
         /\ \A q \in Seq(Int) : [r EXCEPT !.warnings = q] \in MpsReaders
         /\ \A q \in Seq(RowFields) : Len(q) = Len(r.rows) => [r EXCEPT !.rows = q] \in MpsReaders
         /\ \A q \in Seq(Int) : Len(q) = Len(r.rows) => [r EXCEPT !.row_rhs = q] \in MpsReaders
         /\ \A q \in SUBSET STRING : [r EXCEPT !.dropped_rows = q] \in MpsReaders
         /\ \A q \in Int : [r EXCEPT !.objective_constant = q] \in MpsReaders
         /\ \A q \in Names : [r EXCEPT !.objective_name = q] \in MpsReaders
         /\ \A q \in BOOLEAN : [r EXCEPT !.in_integer_block = q] \in MpsReaders
         /\ \A q \in SectionNames : [r EXCEPT !.section = q] \in MpsReaders
         /\ \A q \in {"Minimize", "Maximize"} : [r EXCEPT !.sense = q] \in MpsReaders
<1>1. r \in MpsMembers
  BY DEF MpsReaders
<1>2. M!Failed(r) \in MpsReaders
  <2>1. M!Failed(r) \in MpsMembers
    BY <1>1 DEF MpsMembers, M!Failed
  <2> QED
    BY <1>1, <2>1 DEF MpsReaders, M!Failed, MpsMembers
<1>3. \A q \in Seq(ColumnFields) : [r EXCEPT !.cols = q] \in MpsReaders
  BY <1>1 DEF MpsMembers, MpsReaders
<1>4. \A q \in Seq(EntryFields) : [r EXCEPT !.entries = q] \in MpsReaders
  BY <1>1 DEF MpsMembers, MpsReaders
<1>5. \A q \in Seq(Int) : [r EXCEPT !.warnings = q] \in MpsReaders
  BY <1>1 DEF MpsMembers, MpsReaders
<1>6. \A q \in Seq(RowFields) : Len(q) = Len(r.rows) => [r EXCEPT !.rows = q] \in MpsReaders
  BY <1>1 DEF MpsMembers, MpsReaders
<1>7. \A q \in Seq(Int) : Len(q) = Len(r.rows) => [r EXCEPT !.row_rhs = q] \in MpsReaders
  BY <1>1 DEF MpsMembers, MpsReaders
<1>8. \A q \in SUBSET STRING : [r EXCEPT !.dropped_rows = q] \in MpsReaders
  BY <1>1 DEF MpsMembers, MpsReaders
<1>9. \A q \in Int : [r EXCEPT !.objective_constant = q] \in MpsReaders
  BY <1>1 DEF MpsMembers, MpsReaders
<1>10. \A q \in Names : [r EXCEPT !.objective_name = q] \in MpsReaders
  BY <1>1 DEF MpsMembers, MpsReaders
<1>11. \A q \in BOOLEAN : [r EXCEPT !.in_integer_block = q] \in MpsReaders
  BY <1>1 DEF MpsMembers, MpsReaders
<1>12. \A q \in SectionNames : [r EXCEPT !.section = q] \in MpsReaders
  BY <1>1 DEF MpsMembers, MpsReaders
<1>13. \A q \in {"Minimize", "Maximize"} : [r EXCEPT !.sense = q] \in MpsReaders
  BY <1>1 DEF MpsMembers, MpsReaders
<1> QED
  BY <1>2, <1>3, <1>4, <1>5, <1>6, <1>7, <1>8, <1>9, <1>10, <1>11, <1>12, <1>13

\* The same columns, but for their costs.
SameColumns(p, q) ==
  /\ Len(q) = Len(p)
  /\ \A j \in 1..Len(p) : /\ q[j].name = p[j].name /\ q[j].lower = p[j].lower
                          /\ q[j].upper = p[j].upper /\ q[j].integer = p[j].integer

\* What a handler leaves that is not about columns, and what one leaves that
\* declares no rows either.
KeepsColumns(r, s) ==
  /\ s \in MpsReaders
  /\ s.section = r.section /\ s.in_integer_block = r.in_integer_block
  /\ SameColumns(r.cols, s.cols)
Keeps(r, s) == KeepsColumns(r, s) /\ s.objective_name = r.objective_name

\* A handler that leaves the columns alone.
LEMMA KeepsIfSame ==
  ASSUME NEW r \in MpsReaders, NEW s \in MpsReaders, s.cols = r.cols, s.section = r.section,
         s.in_integer_block = r.in_integer_block, s.objective_name = r.objective_name
  PROVE  Keeps(r, s)
BY DEF Keeps, KeepsColumns, SameColumns

LEMMA KeepsThrough ==
  ASSUME NEW r, NEW s, NEW u, Keeps(r, s), Keeps(s, u) PROVE Keeps(r, u)
BY DEF Keeps, KeepsColumns, SameColumns

\* A reader that has failed or warned.
LEMMA FailedKeeps == ASSUME NEW r \in MpsReaders PROVE Keeps(r, M!Failed(r))
<1>1. r \in MpsMembers
  BY DEF MpsReaders
<1>2. /\ M!Failed(r).cols = r.cols /\ M!Failed(r).section = r.section
      /\ M!Failed(r).in_integer_block = r.in_integer_block /\ M!Failed(r).objective_name = r.objective_name
  BY <1>1 DEF M!Failed, MpsMembers
<1> QED
  BY <1>2, MembersReplaced, KeepsIfSame

LEMMA WarnKeeps == ASSUME NEW r \in MpsReaders, at \in Int PROVE Keeps(r, M!warn(r))
<1>1. r \in MpsMembers
  BY DEF MpsReaders
<1>2. /\ M!warn(r).cols = r.cols /\ M!warn(r).section = r.section
      /\ M!warn(r).in_integer_block = r.in_integer_block /\ M!warn(r).objective_name = r.objective_name
  BY <1>1 DEF M!warn, MpsMembers
<1>3. M!warn(r) = [r EXCEPT !.warnings = Append(r.warnings, at)]
  BY DEF M!warn
<1>4. Append(r.warnings, at) \in Seq(Int)
  BY <1>1 DEF MpsMembers
<1> QED
  BY <1>2, <1>3, <1>4, MembersReplaced, KeepsIfSame

\* One element of a sequence is replaced.
LEMMA Replaced ==
  ASSUME NEW X, NEW q \in Seq(X), NEW i \in 1..Len(q), NEW e \in X
  PROVE  /\ [q EXCEPT ![i] = e] \in Seq(X) /\ Len([q EXCEPT ![i] = e]) = Len(q)
         /\ \A k \in 1..Len(q) : [q EXCEPT ![i] = e][k] = IF k = i THEN e ELSE q[k]
OBVIOUS

\* New bounds for a row.
LEMMA RowBoundsKeep ==
  ASSUME NEW r \in MpsReaders, NEW i \in 1..Len(r.rows), NEW b \in Int \X Int
  PROVE  Keeps(r, M!set_row_bounds(r, i, b))
<1>1. r \in MpsMembers
  BY DEF MpsReaders
<1> DEFINE e == [r.rows[i] EXCEPT !.lower = b[1], !.upper = b[2]]
           q == [r.rows EXCEPT ![i] = e]
<1>2. M!set_row_bounds(r, i, b) = [r EXCEPT !.rows = q]
  BY <1>1 DEF M!set_row_bounds, MpsMembers
<1>3. r.rows \in Seq(RowFields)
  BY <1>1 DEF MpsMembers
<1>4. q \in Seq(RowFields) /\ Len(q) = Len(r.rows)
  <2>1. r.rows[i] \in RowFields
    BY <1>3
  <2>2. e \in RowFields
    BY <2>1 DEF RowFields
  <2> HIDE DEF e
  <2> QED
    BY <1>3, <2>2, Replaced
<1>5. [r EXCEPT !.rows = q] \in MpsReaders
  BY <1>4, MembersReplaced
<1> HIDE DEF q
<1>6. LET s == [r EXCEPT !.rows = q] IN
        /\ s.cols = r.cols /\ s.section = r.section /\ s.in_integer_block = r.in_integer_block
        /\ s.objective_name = r.objective_name
  BY <1>1 DEF MpsMembers
<1> QED
  BY <1>2, <1>5, <1>6, KeepsIfSame

\* A coefficient of the objective, of a row, or of one that is not there.
LEMMA CoefficientKeeps ==
  ASSUME NEW r \in MpsReaders, NEW j \in 1..Len(r.cols), NEW pair
  PROVE  Keeps(r, M!Coefficient(r, j, pair))
<1> DEFINE i == M!find_row(r, pair[1])
           v == Number[pair[2]]
<1>1. r \in MpsMembers
  BY DEF MpsReaders
<1>2. i \in 0..Len(r.rows) /\ Len(r.rows) \in Nat
  BY <1>1, RowFound DEF MpsMembers
<1>3. CASE ~M!IsNumber(pair[2])
  BY <1>3, FailedKeeps DEF M!Coefficient
<1>4. CASE M!IsNumber(pair[2]) /\ pair[1] = r.objective_name
  <2>1. v \in Int
    BY <1>4, NumberAssumption DEF M!IsNumber
  <2> DEFINE e == [r.cols[j] EXCEPT !.cost = v]
             q == [r.cols EXCEPT ![j] = e]
  <2>2. M!Coefficient(r, j, pair) = [r EXCEPT !.cols = q]
    BY <1>1, <1>4 DEF M!Coefficient, M!set_objective_coefficient, MpsMembers
  <2> HIDE DEF v
  <2>3. r.cols \in Seq(ColumnFields)
    BY <1>1 DEF MpsMembers
  <2>4. q \in Seq(ColumnFields) /\ SameColumns(r.cols, q)
    <3>1. r.cols[j] \in ColumnFields
      BY <2>3
    <3>2. /\ e \in ColumnFields /\ e.name = r.cols[j].name /\ e.lower = r.cols[j].lower
          /\ e.upper = r.cols[j].upper /\ e.integer = r.cols[j].integer
      BY <2>1, <3>1 DEF ColumnFields
    <3> HIDE DEF e
    <3> QED
      BY <2>3, <3>2, Replaced DEF SameColumns
  <2> HIDE DEF q
  <2>5. LET s == [r EXCEPT !.cols = q] IN
          /\ s.cols = q /\ s.section = r.section /\ s.in_integer_block = r.in_integer_block
          /\ s.objective_name = r.objective_name
    BY <1>1 DEF MpsMembers
  <2> QED
    BY <2>2, <2>4, <2>5, MembersReplaced DEF Keeps, KeepsColumns
<1>5. CASE M!IsNumber(pair[2]) /\ pair[1] # r.objective_name /\ i = 0
  <2>1. M!Coefficient(r, j, pair) \in {r, M!Failed(r)}
    BY <1>5 DEF M!Coefficient, M!Unfound
  <2> QED
    BY <2>1, FailedKeeps, KeepsIfSame
<1>6. CASE M!IsNumber(pair[2]) /\ pair[1] # r.objective_name /\ i # 0
  <2>1. v \in Int
    BY <1>6, NumberAssumption DEF M!IsNumber
  <2> DEFINE q == Append(r.entries, [at |-> <<i, j>>, value |-> v])
  <2>2. M!Coefficient(r, j, pair) = [r EXCEPT !.entries = q]
    BY <1>1, <1>6 DEF M!Coefficient, M!add_coefficient, MpsMembers
  <2> HIDE DEF v, i
  <2>3. r.entries \in Seq(EntryFields) /\ i \in Int /\ j \in Int
    BY <1>1, <1>2 DEF MpsMembers
  <2>4. q \in Seq(EntryFields)
    BY <2>1, <2>3 DEF EntryFields
  <2> HIDE DEF q
  <2>5. LET s == [r EXCEPT !.entries = q] IN
          /\ s.cols = r.cols /\ s.section = r.section /\ s.in_integer_block = r.in_integer_block
          /\ s.objective_name = r.objective_name
    BY <1>1 DEF MpsMembers
  <2> QED
    BY <2>2, <2>4, <2>5, MembersReplaced, KeepsIfSame
<1> QED
  BY <1>3, <1>4, <1>5, <1>6

\* The sides of a row by its type.
LEMMA SidesOfRow ==
  ASSUME NEW v \in Int
  PROVE  /\ \A type \in RowTypes : M!Sides(type, v) \in Int \X Int
         /\ \A type \in RowTypes \ {"N"}, rhs \in Int : M!Ranged(type, rhs, v) \in Int \X Int
<1>1. kInfinity \in Int /\ M!Abs(v) \in Int
  BY NumberAssumption DEF M!Abs
<1>2. \A type \in RowTypes : M!Sides(type, v) \in Int \X Int
  BY <1>1 DEF M!Sides, RowTypes
<1>3. ASSUME NEW type \in RowTypes \ {"N"}, NEW rhs \in Int PROVE M!Ranged(type, rhs, v) \in Int \X Int
  BY <1>1 DEF M!Ranged, RowTypes
<1> QED
  BY <1>2, <1>3

\* A right-hand side of the objective, of a row, or of one that is not there.
LEMMA RightHandSideKeeps ==
  ASSUME NEW r \in MpsReaders, at \in Int, NEW pair
  PROVE  Keeps(r, M!RightHandSide(r, pair))
<1> DEFINE i == M!find_row(r, pair[1])
           v == Number[pair[2]]
           told == [r EXCEPT !.row_rhs[i] = v]
<1>1. r \in MpsMembers /\ Len(r.row_sense) = Len(r.rows) /\ Len(r.row_rhs) = Len(r.rows)
  BY DEF MpsReaders
<1>2. i \in 0..Len(r.rows) /\ Len(r.rows) \in Nat
  BY <1>1, RowFound DEF MpsMembers
<1>3. CASE ~M!IsNumber(pair[2])
  BY <1>3, FailedKeeps DEF M!RightHandSide
<1>4. CASE M!IsNumber(pair[2]) /\ pair[1] = r.objective_name
  <2>1. v \in Int
    BY <1>4, NumberAssumption DEF M!IsNumber
  <2> DEFINE w == -v
             s == [r EXCEPT !.objective_constant = w]
  <2>2. M!RightHandSide(r, pair) = s /\ w \in Int
    BY <1>4, <2>1 DEF M!RightHandSide
  <2> HIDE DEF w
  <2>3. /\ s.cols = r.cols /\ s.section = r.section /\ s.in_integer_block = r.in_integer_block
        /\ s.objective_name = r.objective_name
    BY <1>1 DEF MpsMembers
  <2>4. s \in MpsReaders
    BY <2>2, MembersReplaced
  <2> QED
    BY <2>2, <2>3, <2>4, KeepsIfSame
<1>5. CASE M!IsNumber(pair[2]) /\ pair[1] # r.objective_name /\ i = 0
  <2>1. M!RightHandSide(r, pair) \in {r, M!Failed(r)}
    BY <1>5 DEF M!RightHandSide, M!Unfound
  <2> QED
    BY <2>1, FailedKeeps, KeepsIfSame
<1>6. CASE M!IsNumber(pair[2]) /\ pair[1] # r.objective_name /\ i # 0
  <2>1. v \in Int
    BY <1>6, NumberAssumption DEF M!IsNumber
  <2>2. M!RightHandSide(r, pair) = IF r.row_sense[i] = "N" THEN M!warn(told)
                                   ELSE M!set_row_bounds(told, i, M!Sides(r.row_sense[i], v))
    BY <1>6 DEF M!RightHandSide
  <2> HIDE DEF v, i
  <2>3. i \in 1..Len(r.rows) /\ r.row_sense[i] \in RowTypes
    BY <1>1, <1>2, <1>6 DEF MpsMembers
  <2> DEFINE q == [r.row_rhs EXCEPT ![i] = v]
  <2>4. told = [r EXCEPT !.row_rhs = q]
    BY <1>1 DEF MpsMembers
  <2>5. q \in Seq(Int) /\ Len(q) = Len(r.rows)
    <3>1. r.row_rhs \in Seq(Int)
      BY <1>1 DEF MpsMembers
    <3> QED
      BY <1>1, <2>1, <2>3, <3>1, Replaced
  <2> HIDE DEF q
  <2>6. told.cols = r.cols /\ told.section = r.section /\ told.rows = r.rows
        /\ told.in_integer_block = r.in_integer_block /\ told.objective_name = r.objective_name
    BY <1>1 DEF MpsMembers
  <2>7. told \in MpsReaders
    BY <2>4, <2>5, MembersReplaced
  <2>8. Keeps(r, told)
    BY <2>6, <2>7, KeepsIfSame
  <2>9. M!Sides(r.row_sense[i], v) \in Int \X Int
    BY <2>1, <2>3, SidesOfRow
  <2> HIDE DEF told
  <2>10. Keeps(told, M!warn(told))
    BY <2>7, WarnKeeps
  <2>11. Keeps(told, M!set_row_bounds(told, i, M!Sides(r.row_sense[i], v)))
    BY <2>3, <2>6, <2>7, <2>9, RowBoundsKeep
  <2> QED
    BY <2>2, <2>8, <2>10, <2>11, KeepsThrough
<1> QED
  BY <1>3, <1>4, <1>5, <1>6

\* A range of a row, or of one that is not there.
LEMMA RangeKeeps ==
  ASSUME NEW r \in MpsReaders, at \in Int, NEW pair
  PROVE  Keeps(r, M!apply_range(r, pair))
<1> DEFINE i == M!find_row(r, pair[1])
           v == Number[pair[2]]
<1>1. r \in MpsMembers /\ Len(r.row_sense) = Len(r.rows) /\ Len(r.row_rhs) = Len(r.rows)
  BY DEF MpsReaders
<1>2. i \in 0..Len(r.rows) /\ Len(r.rows) \in Nat
  BY <1>1, RowFound DEF MpsMembers
<1>3. CASE i = 0 \/ ~M!IsNumber(pair[2])
  <2>1. M!apply_range(r, pair) \in {r, M!Failed(r)}
    BY <1>3 DEF M!apply_range, M!Unfound
  <2> QED
    BY <2>1, FailedKeeps, KeepsIfSame
<1>4. CASE i # 0 /\ M!IsNumber(pair[2])
  <2>1. v \in Int
    BY <1>4, NumberAssumption DEF M!IsNumber
  <2>2. M!apply_range(r, pair) = IF r.row_sense[i] = "N" THEN M!warn(r)
                                 ELSE M!set_row_bounds(r, i, M!Ranged(r.row_sense[i], r.row_rhs[i], v))
    BY <1>4 DEF M!apply_range
  <2> HIDE DEF v, i
  <2>3. i \in 1..Len(r.rows) /\ r.row_sense[i] \in RowTypes /\ r.row_rhs[i] \in Int
    BY <1>1, <1>2, <1>4 DEF MpsMembers
  <2>4. CASE r.row_sense[i] = "N"
    BY <2>2, <2>4, WarnKeeps
  <2>5. CASE r.row_sense[i] # "N"
    <3>1. M!Ranged(r.row_sense[i], r.row_rhs[i], v) \in Int \X Int
      BY <2>1, <2>3, <2>5, SidesOfRow
    <3> QED
      BY <2>2, <2>3, <2>5, <3>1, RowBoundsKeep
  <2> QED
    BY <2>4, <2>5
<1> QED
  BY <1>3, <1>4

(***************************************************************************)
(* The folds over the pairs of a card                                      *)
(***************************************************************************)

\* What the loops over the pairs of a card make of a reader, as the library
\* defines it, and step by step.
IsFoldOfCoefficients(base, j, seq, h) ==
  h = [T \in SUBSET (DOMAIN seq) |->
         IF T = {} THEN base ELSE M!Coefficient(h[T \ {M!Max(T)}], j, seq[M!Max(T)])]
FoldOfCoefficients(base, j, seq) == CHOOSE h : IsFoldOfCoefficients(base, j, seq, h)

CoefficientsInTurn(base, j, seq, K, h) ==
  h[{}] = base /\ \A k \in 1..K : h[1..k] = M!Coefficient(h[(1..k) \ {k}], j, seq[k])

LEMMA CoefficientsAreFolded ==
  ASSUME NEW base \in MpsReaders, NEW j \in 1..Len(base.cols), NEW seq, NEW K \in Nat, DOMAIN seq = 1..K
  PROVE  /\ Keeps(base, FoldOfCoefficients(base, j, seq)[DOMAIN seq])
         /\ CoefficientsInTurn(base, j, seq, K, FoldOfCoefficients(base, j, seq))
<1> DEFINE X == {s \in MpsReaders : Keeps(base, s)}
           F == [t \in X \X (1..K) |-> M!Coefficient(t[1], j, seq[t[2]])]
           h == FoldOfCoefficients(base, j, seq)
<1>1. base \in X
  BY KeepsIfSame
<1>2. \A s \in X, k \in 1..K : M!Coefficient(s, j, seq[k]) \in X
  <2> SUFFICES ASSUME NEW s \in X, NEW k \in 1..K PROVE M!Coefficient(s, j, seq[k]) \in X
    OBVIOUS
  <2>1. s \in MpsReaders /\ Keeps(base, s)
    OBVIOUS
  <2>2. Keeps(s, M!Coefficient(s, j, seq[k]))
    BY <2>1, CoefficientKeeps DEF Keeps, KeepsColumns, SameColumns
  <2> QED
    BY <2>1, <2>2, KeepsThrough DEF Keeps, KeepsColumns
<1>3. \A T : M!Max(T) = Max(T)
  BY DEF M!Max, Max
<1>4. \E g : IsFoldOfCoefficients(base, j, seq, g)
  <2>1. F \in [X \X (1..K) -> X]
    BY <1>2
  <2>2. PICK g \in [SUBSET (1..K) -> X] : IsFold(F, base, K, g)
    <3> HIDE DEF F, X
    <3> QED
      BY <1>1, <2>1, FoldExists
  <2>3. ASSUME NEW T \in SUBSET (1..K), T # {}
        PROVE  g[T] = M!Coefficient(g[T \ {M!Max(T)}], j, seq[M!Max(T)])
    <3>1. Max(T) \in 1..K /\ T \ {Max(T)} \in SUBSET (1..K)
      BY <2>3, MaxIsElement
    <3>2. g[T] = F[<<g[T \ {Max(T)}], Max(T)>>]
      BY <2>2, <2>3 DEF IsFold
    <3>3. g[T \ {Max(T)}] \in X
      BY <3>1
    <3> QED
      BY <1>3, <3>1, <3>2, <3>3
  <2>4. g[{}] = base
    BY <2>2 DEF IsFold
  <2>5. IsFoldOfCoefficients(base, j, seq, g)
    BY <2>3, <2>4 DEF IsFoldOfCoefficients
  <2> QED
    BY <2>5
<1>5. IsFoldOfCoefficients(base, j, seq, h)
  BY <1>4 DEF FoldOfCoefficients
<1> HIDE DEF h
<1>6. h[{}] = base /\ \A T \in SUBSET (1..K) : T # {} =>
        h[T] = M!Coefficient(h[T \ {Max(T)}], j, seq[Max(T)])
  BY <1>3, <1>5 DEF IsFoldOfCoefficients
<1>7. \A T \in SUBSET (1..K) : T # {} /\ h[T \ {Max(T)}] \in X => h[T] \in X
  <2> HIDE DEF X
  <2> QED
    BY <1>2, <1>6, MaxIsElement
<1>8. h[1..K] \in X
  <2> HIDE DEF X
  <2> QED
    BY <1>1, <1>6, <1>7, FoldStays
<1>9. CoefficientsInTurn(base, j, seq, K, h)
  BY <1>6, MaxOfSegment DEF CoefficientsInTurn
<1> QED
  BY <1>8, <1>9 DEF h

IsFoldOfRightHandSides(base, seq, h) ==
  h = [T \in SUBSET (DOMAIN seq) |->
         IF T = {} THEN base ELSE M!RightHandSide(h[T \ {M!Max(T)}], seq[M!Max(T)])]
FoldOfRightHandSides(base, seq) == CHOOSE h : IsFoldOfRightHandSides(base, seq, h)

RightHandSidesInTurn(base, seq, K, h) ==
  h[{}] = base /\ \A k \in 1..K : h[1..k] = M!RightHandSide(h[(1..k) \ {k}], seq[k])

LEMMA RightHandSidesAreFolded ==
  ASSUME NEW base \in MpsReaders, at \in Int, NEW seq, NEW K \in Nat, DOMAIN seq = 1..K
  PROVE  /\ Keeps(base, FoldOfRightHandSides(base, seq)[DOMAIN seq])
         /\ RightHandSidesInTurn(base, seq, K, FoldOfRightHandSides(base, seq))
<1> DEFINE X == {s \in MpsReaders : Keeps(base, s)}
           F == [t \in X \X (1..K) |-> M!RightHandSide(t[1], seq[t[2]])]
           h == FoldOfRightHandSides(base, seq)
<1>1. base \in X
  BY KeepsIfSame
<1>2. \A s \in X, k \in 1..K : M!RightHandSide(s, seq[k]) \in X
  <2> SUFFICES ASSUME NEW s \in X, NEW k \in 1..K PROVE M!RightHandSide(s, seq[k]) \in X
    OBVIOUS
  <2>1. s \in MpsReaders /\ Keeps(base, s)
    OBVIOUS
  <2>2. Keeps(s, M!RightHandSide(s, seq[k]))
    BY <2>1, RightHandSideKeeps
  <2> QED
    BY <2>1, <2>2, KeepsThrough DEF Keeps, KeepsColumns
<1>3. \A T : M!Max(T) = Max(T)
  BY DEF M!Max, Max
<1>4. \E g : IsFoldOfRightHandSides(base, seq, g)
  <2>1. F \in [X \X (1..K) -> X]
    BY <1>2
  <2>2. PICK g \in [SUBSET (1..K) -> X] : IsFold(F, base, K, g)
    <3> HIDE DEF F, X
    <3> QED
      BY <1>1, <2>1, FoldExists
  <2>3. ASSUME NEW T \in SUBSET (1..K), T # {}
        PROVE  g[T] = M!RightHandSide(g[T \ {M!Max(T)}], seq[M!Max(T)])
    <3>1. Max(T) \in 1..K /\ T \ {Max(T)} \in SUBSET (1..K)
      BY <2>3, MaxIsElement
    <3>2. g[T] = F[<<g[T \ {Max(T)}], Max(T)>>]
      BY <2>2, <2>3 DEF IsFold
    <3>3. g[T \ {Max(T)}] \in X
      BY <3>1
    <3> QED
      BY <1>3, <3>1, <3>2, <3>3
  <2>4. g[{}] = base
    BY <2>2 DEF IsFold
  <2>5. IsFoldOfRightHandSides(base, seq, g)
    BY <2>3, <2>4 DEF IsFoldOfRightHandSides
  <2> QED
    BY <2>5
<1>5. IsFoldOfRightHandSides(base, seq, h)
  BY <1>4 DEF FoldOfRightHandSides
<1> HIDE DEF h
<1>6. h[{}] = base /\ \A T \in SUBSET (1..K) : T # {} =>
        h[T] = M!RightHandSide(h[T \ {Max(T)}], seq[Max(T)])
  BY <1>3, <1>5 DEF IsFoldOfRightHandSides
<1>7. \A T \in SUBSET (1..K) : T # {} /\ h[T \ {Max(T)}] \in X => h[T] \in X
  <2> HIDE DEF X
  <2> QED
    BY <1>2, <1>6, MaxIsElement
<1>8. h[1..K] \in X
  <2> HIDE DEF X
  <2> QED
    BY <1>1, <1>6, <1>7, FoldStays
<1>9. RightHandSidesInTurn(base, seq, K, h)
  BY <1>6, MaxOfSegment DEF RightHandSidesInTurn
<1> QED
  BY <1>8, <1>9 DEF h

IsFoldOfRanges(base, seq, h) ==
  h = [T \in SUBSET (DOMAIN seq) |->
         IF T = {} THEN base ELSE M!apply_range(h[T \ {M!Max(T)}], seq[M!Max(T)])]
FoldOfRanges(base, seq) == CHOOSE h : IsFoldOfRanges(base, seq, h)

RangesInTurn(base, seq, K, h) ==
  h[{}] = base /\ \A k \in 1..K : h[1..k] = M!apply_range(h[(1..k) \ {k}], seq[k])

LEMMA RangesAreFolded ==
  ASSUME NEW base \in MpsReaders, at \in Int, NEW seq, NEW K \in Nat, DOMAIN seq = 1..K
  PROVE  /\ Keeps(base, FoldOfRanges(base, seq)[DOMAIN seq])
         /\ RangesInTurn(base, seq, K, FoldOfRanges(base, seq))
<1> DEFINE X == {s \in MpsReaders : Keeps(base, s)}
           F == [t \in X \X (1..K) |-> M!apply_range(t[1], seq[t[2]])]
           h == FoldOfRanges(base, seq)
<1>1. base \in X
  BY KeepsIfSame
<1>2. \A s \in X, k \in 1..K : M!apply_range(s, seq[k]) \in X
  <2> SUFFICES ASSUME NEW s \in X, NEW k \in 1..K PROVE M!apply_range(s, seq[k]) \in X
    OBVIOUS
  <2>1. s \in MpsReaders /\ Keeps(base, s)
    OBVIOUS
  <2>2. Keeps(s, M!apply_range(s, seq[k]))
    BY <2>1, RangeKeeps
  <2> QED
    BY <2>1, <2>2, KeepsThrough DEF Keeps, KeepsColumns
<1>3. \A T : M!Max(T) = Max(T)
  BY DEF M!Max, Max
<1>4. \E g : IsFoldOfRanges(base, seq, g)
  <2>1. F \in [X \X (1..K) -> X]
    BY <1>2
  <2>2. PICK g \in [SUBSET (1..K) -> X] : IsFold(F, base, K, g)
    <3> HIDE DEF F, X
    <3> QED
      BY <1>1, <2>1, FoldExists
  <2>3. ASSUME NEW T \in SUBSET (1..K), T # {}
        PROVE  g[T] = M!apply_range(g[T \ {M!Max(T)}], seq[M!Max(T)])
    <3>1. Max(T) \in 1..K /\ T \ {Max(T)} \in SUBSET (1..K)
      BY <2>3, MaxIsElement
    <3>2. g[T] = F[<<g[T \ {Max(T)}], Max(T)>>]
      BY <2>2, <2>3 DEF IsFold
    <3>3. g[T \ {Max(T)}] \in X
      BY <3>1
    <3> QED
      BY <1>3, <3>1, <3>2, <3>3
  <2>4. g[{}] = base
    BY <2>2 DEF IsFold
  <2>5. IsFoldOfRanges(base, seq, g)
    BY <2>3, <2>4 DEF IsFoldOfRanges
  <2> QED
    BY <2>5
<1>5. IsFoldOfRanges(base, seq, h)
  BY <1>4 DEF FoldOfRanges
<1> HIDE DEF h
<1>6. h[{}] = base /\ \A T \in SUBSET (1..K) : T # {} =>
        h[T] = M!apply_range(h[T \ {Max(T)}], seq[Max(T)])
  BY <1>3, <1>5 DEF IsFoldOfRanges
<1>7. \A T \in SUBSET (1..K) : T # {} /\ h[T \ {Max(T)}] \in X => h[T] \in X
  <2> HIDE DEF X
  <2> QED
    BY <1>2, <1>6, MaxIsElement
<1>8. h[1..K] \in X
  <2> HIDE DEF X
  <2> QED
    BY <1>1, <1>6, <1>7, FoldStays
<1>9. RangesInTurn(base, seq, K, h)
  BY <1>6, MaxOfSegment DEF RangesInTurn
<1> QED
  BY <1>8, <1>9 DEF h

(***************************************************************************)
(* What each card does to the columns                                      *)
(***************************************************************************)

\* A card has as many pairs as fit.
LEMMA PairsOfCard ==
  ASSUME NEW t \in Seq(STRING), NEW k \in 1..2, Len(t) >= k
  PROVE  \E K \in Nat : DOMAIN M!Pairs(t, k) = 1..K
<1>1. DOMAIN M!Pairs(t, k) = 1..((Len(t) - k + 1) \div 2)
  BY DEF M!Pairs
<1>2. (Len(t) - k + 1) \div 2 \in Nat
  <2>1. Len(t) - k + 1 \in Nat
    OBVIOUS
  <2> QED
    BY <2>1
<1> QED
  BY <1>1, <1>2

\* A row card.
LEMMA RowsKeep ==
  ASSUME NEW r \in MpsReaders, at \in Int, NEW t \in Seq(STRING)
  PROVE  KeepsColumns(r, M!handle_rows(r, t))
<1>1. r \in MpsMembers /\ Len(r.row_sense) = Len(r.rows) /\ Len(r.row_rhs) = Len(r.rows)
  BY DEF MpsReaders
<1>2. KeepsColumns(r, M!Failed(r))
  BY FailedKeeps DEF Keeps
<1>a. ~(Len(t) < 2) => t[1] \in STRING /\ t[2] \in STRING
  <2>1. Len(t) \in Nat /\ \A k \in 1..Len(t) : t[k] \in STRING
    OBVIOUS
  <2>2. ~(Len(t) < 2) => 1 \in 1..Len(t) /\ 2 \in 1..Len(t)
    BY <2>1
  <2> QED
    BY <2>1, <2>2
<1>3. CASE Len(t) < 2 \/ t[1] \notin RowTypes
  BY <1>2, <1>3 DEF M!handle_rows, RowTypes
<1>4. CASE /\ ~(Len(t) < 2 \/ t[1] \notin RowTypes)
           /\ t[1] # "N" \/ (r.objective_name # "" /\ opt.keep_free_rows)
  <2>1. M!handle_rows(r, t) = M!record(r, t[1], t[2])
    BY <1>4 DEF M!handle_rows, RowTypes
  <2>2. t[1] \in RowTypes /\ t[2] \in STRING
    BY <1>4, <1>a
  <2> DEFINE type == t[1]
             name == t[2]
             b == M!Sides(type, 0)
             e == [name |-> name, lower |-> b[1], upper |-> b[2]]
             rows == Append(r.rows, e)
             senses == Append(r.row_sense, type)
             rhss == Append(r.row_rhs, 0)
             s == [r EXCEPT !.rows = rows, !.row_sense = senses, !.row_rhs = rhss]
  <2>3. M!record(r, type, name) \in {M!Failed(r), s}
    <3>1. M!record(r, type, name) = IF M!find_row(r, name) # 0 THEN M!Failed(r)
            ELSE [M!add_row(r, name, b) EXCEPT !.row_sense = Append(@, type), !.row_rhs = Append(@, 0)]
      BY DEF M!record
    <3>2. M!add_row(r, name, b) = [r EXCEPT !.rows = rows]
      BY DEF M!add_row
    <3> HIDE DEF rows, b
    <3>3. [[r EXCEPT !.rows = rows] EXCEPT !.row_sense = Append(@, type), !.row_rhs = Append(@, 0)] = s
      BY <1>1 DEF MpsMembers
    <3> QED
      BY <3>1, <3>2, <3>3
  <2>4. b \in Int \X Int
    <3>1. 0 \in Int
      OBVIOUS
    <3> QED
      BY <2>2, <3>1, SidesOfRow
  <2>5. e \in RowFields
    <3> HIDE DEF b
    <3> QED
      BY <2>2, <2>4 DEF RowFields
  <2> HIDE DEF e, type
  <2>6. /\ rows \in Seq(RowFields) /\ Len(rows) = Len(r.rows) + 1
        /\ senses \in Seq(RowTypes) /\ Len(senses) = Len(r.rows) + 1
        /\ rhss \in Seq(Int) /\ Len(rhss) = Len(r.rows) + 1
    <3>1. r.rows \in Seq(RowFields) /\ r.row_sense \in Seq(RowTypes) /\ r.row_rhs \in Seq(Int)
      BY <1>1 DEF MpsMembers
    <3>2. type \in RowTypes
      BY <2>2 DEF type
    <3> HIDE DEF s, b
    <3>3. rows \in Seq(RowFields) /\ Len(rows) = Len(r.rows) + 1
      BY <2>5, <3>1
    <3>4. senses \in Seq(RowTypes) /\ Len(senses) = Len(r.row_sense) + 1
      BY <3>1, <3>2
    <3>5. rhss \in Seq(Int) /\ Len(rhss) = Len(r.row_rhs) + 1
      BY <3>1
    <3> QED
      BY <1>1, <3>3, <3>4, <3>5
  <2> HIDE DEF rows, senses, rhss
  <2>7. s \in MpsMembers /\ s.rows = rows /\ s.row_sense = senses /\ s.row_rhs = rhss
        /\ s.cols = r.cols /\ s.section = r.section /\ s.in_integer_block = r.in_integer_block
    BY <1>1, <2>6 DEF MpsMembers
  <2>8. s \in MpsReaders
    BY <2>6, <2>7 DEF MpsReaders
  <2>9. KeepsColumns(r, s)
    BY <2>7, <2>8 DEF KeepsColumns, SameColumns
  <2> QED
    BY <1>2, <2>1, <2>3, <2>9 DEF type
<1>5. CASE /\ ~(Len(t) < 2 \/ t[1] \notin RowTypes)
           /\ ~(t[1] # "N" \/ (r.objective_name # "" /\ opt.keep_free_rows))
  <2>1. t[2] \in STRING
    BY <1>5, <1>a
  <2>2. CASE r.objective_name = ""
    <3> DEFINE s == [r EXCEPT !.objective_name = t[2]]
    <3>1. M!handle_rows(r, t) = s
      BY <1>5, <2>2 DEF M!handle_rows, RowTypes
    <3>2. s \in MpsReaders
      BY <2>1, MembersReplaced DEF Names
    <3>3. s.cols = r.cols /\ s.section = r.section /\ s.in_integer_block = r.in_integer_block
      BY <1>1 DEF MpsMembers
    <3> QED
      BY <3>1, <3>2, <3>3 DEF KeepsColumns, SameColumns
  <2>3. CASE r.objective_name # ""
    <3> DEFINE w == M!warn(r)
               d == w.dropped_rows \cup {t[2]}
               s == [w EXCEPT !.dropped_rows = d]
    <3>1. M!handle_rows(r, t) = s
      BY <1>5, <2>3 DEF M!handle_rows, RowTypes
    <3>2. Keeps(r, w)
      BY WarnKeeps
    <3>3. w \in MpsReaders /\ w \in MpsMembers
      BY <3>2 DEF Keeps, KeepsColumns, MpsReaders
    <3> HIDE DEF w
    <3>4. d \in SUBSET STRING
      BY <2>1, <3>3 DEF MpsMembers
    <3> HIDE DEF d
    <3>5. s \in MpsReaders
      BY <3>3, <3>4, MembersReplaced
    <3>6. s.cols = w.cols /\ s.section = w.section /\ s.in_integer_block = w.in_integer_block
      BY <3>3 DEF MpsMembers
    <3> QED
      BY <3>1, <3>2, <3>3, <3>5, <3>6 DEF Keeps, KeepsColumns, SameColumns
  <2> QED
    BY <2>2, <2>3
<1> QED
  BY <1>3, <1>4, <1>5

\* A card of right-hand sides or ranges.
LEMMA SidesKeep ==
  ASSUME NEW r \in MpsReaders, at \in Int, NEW t \in Seq(STRING)
  PROVE  Keeps(r, M!handle_rhs(r, t)) /\ Keeps(r, M!handle_ranges(r, t))
<1>1. Keeps(r, M!Failed(r))
  BY FailedKeeps
<1>2. CASE Len(t) < 2
  BY <1>1, <1>2 DEF M!handle_rhs, M!handle_ranges
<1>3. CASE Len(t) >= 2
  <2> DEFINE k == IF Len(t) % 2 = 1 THEN 2 ELSE 1
             pairs == M!PairsAfterSetName(t)
  <2>1. k \in 1..2 /\ Len(t) >= k /\ ~(Len(t) < 2)
    BY <1>3
  <2>2. pairs = M!Pairs(t, k)
    BY DEF M!PairsAfterSetName
  <2> HIDE DEF k, pairs
  <2>3. PICK K \in Nat : DOMAIN pairs = 1..K
    BY <2>1, <2>2, PairsOfCard
  <2>4. M!handle_rhs(r, t) = FoldOfRightHandSides(r, pairs)[DOMAIN pairs]
    BY <2>1 DEF M!handle_rhs, M!FoldLeft, M!MapThenFoldSet, FoldOfRightHandSides,
       IsFoldOfRightHandSides, pairs
  <2>5. M!handle_ranges(r, t) = FoldOfRanges(r, pairs)[DOMAIN pairs]
    BY <2>1 DEF M!handle_ranges, M!FoldLeft, M!MapThenFoldSet, FoldOfRanges, IsFoldOfRanges, pairs
  <2> QED
    BY <2>3, <2>4, <2>5, RightHandSidesAreFolded, RangesAreFolded
<1> QED
  BY <1>2, <1>3

Fresh(name) == [name |-> name, lower |-> 0, upper |-> kInfinity, integer |-> FALSE, cost |-> 0]
Has(p, name) == \E j \in 1..Len(p) : p[j].name = name
Distinct(p) == \A j, k \in 1..Len(p) : p[j].name = p[k].name => j = k

\* The columns p and one of the name, unless there is one.
With(p, name) == IF Has(p, name) THEN p ELSE Append(p, Fresh(name))

\* What is known of them.
LEMMA WithHas ==
  ASSUME NEW p \in Seq(ColumnFields), NEW name \in STRING, Distinct(p)
  PROVE  /\ With(p, name) \in Seq(ColumnFields) /\ Distinct(With(p, name)) /\ Has(With(p, name), name)
         /\ Len(p) <= Len(With(p, name))
         /\ \A j \in 1..Len(p) : With(p, name)[j] = p[j]
         /\ \A j \in 1..Len(With(p, name)) : j \notin 1..Len(p) =>
              With(p, name)[j] = Fresh(name) /\ ~Has(p, name)
<1> DEFINE e == Fresh(name)
           q == Append(p, e)
<1>1. e \in ColumnFields /\ e.name = name
  BY NumberAssumption DEF ColumnFields, Fresh
<1>2. CASE Has(p, name)
  BY <1>2 DEF With
<1>3. CASE ~Has(p, name)
  <2>1. With(p, name) = q
    BY <1>3 DEF With
  <2> HIDE DEF e
  <2>2. /\ q \in Seq(ColumnFields) /\ Len(q) = Len(p) + 1 /\ Len(p) \in Nat /\ q[Len(p) + 1] = e
        /\ \A j \in 1..Len(p) : q[j] = p[j]
    BY <1>1
  <2> HIDE DEF q
  <2>3. Distinct(q)
    <3> SUFFICES ASSUME NEW j \in 1..Len(q), NEW k \in 1..Len(q), q[j].name = q[k].name PROVE j = k
      BY DEF Distinct
    <3>1. CASE j \in 1..Len(p) /\ k \in 1..Len(p)
      BY <2>2, <3>1 DEF Distinct
    <3>2. CASE j = Len(p) + 1 /\ k \in 1..Len(p)
      BY <1>1, <1>3, <2>2, <3>2 DEF Has
    <3>3. CASE k = Len(p) + 1 /\ j \in 1..Len(p)
      BY <1>1, <1>3, <2>2, <3>3 DEF Has
    <3> QED
      BY <2>2, <3>1, <3>2, <3>3
  <2>4. Has(q, name)
    BY <1>1, <2>2 DEF Has
  <2>5. Len(p) <= Len(q) /\ \A j \in 1..Len(q) : j \notin 1..Len(p) => q[j] = Fresh(name)
    <3>1. \A j \in 1..Len(q) : j \notin 1..Len(p) => j = Len(p) + 1
      BY <2>2
    <3>2. Len(p) <= Len(q)
      BY <2>2
    <3>3. e = Fresh(name)
      BY DEF e
    <3> QED
      BY <2>2, <3>1, <3>2, <3>3
  <2> QED
    BY <1>3, <2>1, <2>2, <2>3, <2>4, <2>5
<1> QED
  BY <1>2, <1>3

\* A column is looked up, and made if it is not there.
LEMMA ColumnIsThere ==
  ASSUME NEW r \in MpsReaders, NEW name \in STRING, Distinct(r.cols)
  PROVE  /\ M!column_for(r, name) = [r EXCEPT !.cols = With(r.cols, name)]
         /\ M!column_for(r, name) \in MpsReaders
         /\ M!find_column(M!column_for(r, name), name) \in 1..Len(With(r.cols, name))
         /\ With(r.cols, name)[M!find_column(M!column_for(r, name), name)].name = name
<1> DEFINE q == With(r.cols, name)
           s == [r EXCEPT !.cols = q]
<1>1. r \in MpsMembers /\ r.cols \in Seq(ColumnFields)
  BY DEF MpsReaders, MpsMembers
<1>2. q \in Seq(ColumnFields) /\ Has(q, name)
  BY <1>1, WithHas
<1>3. s \in MpsReaders
  <2> HIDE DEF q
  <2> QED
    BY <1>2, MembersReplaced
<1>4. M!column_for(r, name) = s
  <2>1. CASE M!find_column(r, name) # 0
    <3>1. Has(r.cols, name)
      BY <2>1, ColumnFound DEF Has
    <3>2. s = r
      BY <1>1, <3>1 DEF With, MpsMembers
    <3> QED
      BY <2>1, <3>2 DEF M!column_for
  <2>2. CASE M!find_column(r, name) = 0
    <3>1. ~Has(r.cols, name)
      BY <2>2, ColumnFound DEF Has
    <3> QED
      BY <2>2, <3>1 DEF With, M!column_for, Fresh
  <2> QED
    BY <2>1, <2>2
<1>5. s.cols = q
  BY <1>1 DEF MpsMembers
<1> HIDE DEF s, q
<1>6. M!find_column(s, name) \in 0..Len(q) /\ M!find_column(s, name) # 0
  BY <1>2, <1>3, <1>5, ColumnFound DEF Has
<1>7. q[M!find_column(s, name)].name = name
  BY <1>3, <1>5, <1>6, ColumnFound
<1>8. Len(q) \in Nat
  BY <1>2
<1> QED
  BY <1>3, <1>4, <1>6, <1>7, <1>8 DEF s, q

\* What a reader knows of rows and of the objective's constant.
SameTable(r, s) ==
  /\ s.rows = r.rows /\ s.row_sense = r.row_sense /\ s.row_rhs = r.row_rhs
  /\ s.objective_name = r.objective_name /\ s.dropped_rows = r.dropped_rows
  /\ s.objective_constant = r.objective_constant

\* What a card of coefficients makes of a reader before its pairs are read: its
\* column is there, the j-th, and is integral between the markers.
HasColumn(r, name, b, j) ==
  LET q == With(r.cols, name)
  IN  /\ b \in MpsReaders /\ b.section = r.section /\ b.in_integer_block = r.in_integer_block
      /\ SameTable(r, b) /\ b.warnings = r.warnings /\ name \in STRING /\ Distinct(q)
      /\ j \in 1..Len(q) /\ q[j].name = name /\ Len(b.cols) = Len(q)
      /\ \A k \in 1..Len(q) :
           /\ b.cols[k].name = q[k].name /\ b.cols[k].lower = q[k].lower
           /\ b.cols[k].upper = q[k].upper /\ b.cols[k].cost = q[k].cost
           /\ b.cols[k].integer <=> q[k].integer \/ (k = j /\ r.in_integer_block)

LEMMA ColumnIsPrepared ==
  ASSUME NEW r \in MpsReaders, NEW t \in Seq(STRING), Distinct(r.cols),
         ~M!IsMarker(t), ~M!handle_columns(r, t).error
  PROVE  \E b, j : \E K \in Nat :
           /\ HasColumn(r, t[1], b, j) /\ DOMAIN M!Pairs(t, 2) = 1..K
           /\ M!handle_columns(r, t) = FoldOfCoefficients(b, j, M!Pairs(t, 2))[1..K]
<1> DEFINE name == t[1]
           q == With(r.cols, name)
           added == M!column_for(r, name)
           j == M!find_column(added, name)
           kind == q[j].integer \/ r.in_integer_block
           e == [q[j] EXCEPT !.integer = kind]
           p == [q EXCEPT ![j] = e]
           kinded == [r EXCEPT !.cols = p]
           pairs == M!Pairs(t, 2)
<1>1. r \in MpsMembers /\ r.cols \in Seq(ColumnFields) /\ r.in_integer_block \in BOOLEAN
  BY DEF MpsReaders, MpsMembers
<1>2. ~(Len(t) < 3)
  <2>1. M!Failed(r).error
    BY <1>1 DEF M!Failed, MpsMembers
  <2> QED
    BY <2>1 DEF M!handle_columns
<1>3. name \in STRING /\ Len(t) >= 2
  <2>1. Len(t) \in Nat /\ \A k \in 1..Len(t) : t[k] \in STRING
    OBVIOUS
  <2> QED
    BY <1>2, <2>1
<1>4. q \in Seq(ColumnFields) /\ Distinct(q)
  BY <1>1, <1>3, WithHas
<1>5. added = [r EXCEPT !.cols = q] /\ added \in MpsReaders /\ j \in 1..Len(q) /\ q[j].name = name
  BY <1>3, ColumnIsThere
<1>6. M!handle_columns(r, t) = FoldOfCoefficients(kinded, j, pairs)[DOMAIN pairs]
  <2>1. [added EXCEPT !.cols[j].integer = @ \/ r.in_integer_block] = kinded
    <3> HIDE DEF q, j, name
    <3>1. added.cols = q
      BY <1>1, <1>5 DEF MpsMembers
    <3>2. [added EXCEPT !.cols[j].integer = @ \/ r.in_integer_block] = [added EXCEPT !.cols = p]
      BY <1>1, <1>5, <3>1 DEF MpsMembers
    <3> HIDE DEF p, added
    <3> QED
      BY <1>1, <1>5, <3>2 DEF MpsMembers
  <2>2. M!handle_columns(r, t) =
          FoldOfCoefficients([added EXCEPT !.cols[j].integer = @ \/ r.in_integer_block], j, pairs)
            [DOMAIN pairs]
    BY <1>2 DEF M!handle_columns, M!FoldLeft, M!MapThenFoldSet, FoldOfCoefficients,
       IsFoldOfCoefficients
  <2> QED
    BY <2>1, <2>2
<1>7. PICK K \in Nat : DOMAIN pairs = 1..K
  BY <1>3, PairsOfCard
<1> HIDE DEF pairs, j, q, added, name
<1>8. /\ p \in Seq(ColumnFields) /\ Len(p) = Len(q)
      /\ \A k \in 1..Len(q) : p[k] = IF k = j THEN e ELSE q[k]
  <2>1. q[j] \in ColumnFields
    BY <1>4, <1>5
  <2>2. kind \in BOOLEAN
    BY <1>1, <2>1 DEF ColumnFields
  <2> HIDE DEF kind
  <2>3. e \in ColumnFields
    BY <2>1, <2>2 DEF ColumnFields
  <2> HIDE DEF e
  <2> QED
    BY <1>4, <1>5, <2>3, Replaced
<1>9. /\ e.name = q[j].name /\ e.lower = q[j].lower /\ e.upper = q[j].upper /\ e.cost = q[j].cost
      /\ e.integer <=> q[j].integer \/ r.in_integer_block
  <2>1. q[j] \in ColumnFields
    BY <1>4, <1>5
  <2> QED
    BY <2>1 DEF ColumnFields
<1> HIDE DEF e, p
<1>10. /\ kinded \in MpsReaders /\ kinded.cols = p /\ kinded.section = r.section
       /\ kinded.in_integer_block = r.in_integer_block /\ SameTable(r, kinded)
       /\ kinded.warnings = r.warnings
  BY <1>1, <1>8, MembersReplaced DEF MpsMembers, SameTable
<1> HIDE DEF kinded
<1>11. HasColumn(r, name, kinded, j)
  BY <1>3, <1>4, <1>5, <1>8, <1>9, <1>10 DEF HasColumn, q
<1>12. M!handle_columns(r, t) = FoldOfCoefficients(kinded, j, pairs)[1..K]
  BY <1>6, <1>7
<1> QED
  BY <1>7, <1>11, <1>12 DEF name, pairs

\* A card of coefficients: its column is there, and is integral between the
\* markers.
LEMMA ColumnsCardDoes ==
  ASSUME NEW r \in MpsReaders, NEW t \in Seq(STRING), Distinct(r.cols),
         ~M!IsMarker(t), ~M!handle_columns(r, t).error
  PROVE  LET s == M!handle_columns(r, t)
             q == With(r.cols, t[1])
         IN  /\ s \in MpsReaders /\ s.section = r.section /\ s.in_integer_block = r.in_integer_block
             /\ s.objective_name = r.objective_name
             /\ t[1] \in STRING /\ Len(s.cols) = Len(q)
             /\ \A j \in 1..Len(q) :
                  /\ s.cols[j].name = q[j].name /\ s.cols[j].lower = q[j].lower
                  /\ s.cols[j].upper = q[j].upper
                  /\ s.cols[j].integer <=> q[j].integer \/ (q[j].name = t[1] /\ r.in_integer_block)
<1> DEFINE name == t[1]
           q == With(r.cols, name)
           pairs == M!Pairs(t, 2)
           s == M!handle_columns(r, t)
<1>1. PICK b, j : \E K \in Nat : /\ HasColumn(r, name, b, j) /\ DOMAIN pairs = 1..K
                                 /\ s = FoldOfCoefficients(b, j, pairs)[1..K]
  BY ColumnIsPrepared
<1>2. PICK K \in Nat : /\ HasColumn(r, name, b, j) /\ DOMAIN pairs = 1..K
                       /\ s = FoldOfCoefficients(b, j, pairs)[1..K]
  BY <1>1
<1> HIDE DEF pairs, s, name, q
<1>3. /\ b \in MpsReaders /\ b.section = r.section /\ b.in_integer_block = r.in_integer_block
      /\ b.objective_name = r.objective_name
      /\ name \in STRING /\ Distinct(q) /\ j \in 1..Len(q) /\ q[j].name = name /\ Len(b.cols) = Len(q)
      /\ \A k \in 1..Len(q) :
           /\ b.cols[k].name = q[k].name /\ b.cols[k].lower = q[k].lower
           /\ b.cols[k].upper = q[k].upper
           /\ b.cols[k].integer <=> q[k].integer \/ (k = j /\ r.in_integer_block)
  BY <1>2 DEF HasColumn, SameTable, q
<1>4. j \in 1..Len(b.cols)
  BY <1>3
<1>5. Keeps(b, FoldOfCoefficients(b, j, pairs)[DOMAIN pairs])
  BY <1>2, <1>3, <1>4, CoefficientsAreFolded
<1>6. Keeps(b, s)
  BY <1>2, <1>5
<1>7. /\ s \in MpsReaders /\ s.section = r.section /\ s.in_integer_block = r.in_integer_block
      /\ SameColumns(b.cols, s.cols) /\ s.objective_name = r.objective_name
  BY <1>3, <1>6 DEF Keeps, KeepsColumns
<1>8. ASSUME NEW k \in 1..Len(q)
      PROVE  /\ s.cols[k].name = q[k].name /\ s.cols[k].lower = q[k].lower
             /\ s.cols[k].upper = q[k].upper
             /\ s.cols[k].integer <=> q[k].integer \/ (q[k].name = name /\ r.in_integer_block)
  <2>1. q[k].name = name <=> k = j
    BY <1>3 DEF Distinct
  <2> QED
    BY <1>3, <1>7, <2>1 DEF SameColumns
<1> QED
  BY <1>3, <1>7, <1>8 DEF s, q, name, SameColumns

\* The values that a bound card leaves behind; a negative upper bound may
\* free the column.
LowerAfter(o, t, lower) ==
  IF M!GivesLower(t) THEN M!LowerGiven(t)
  ELSE IF t[1] = "UP" /\ M!ValueOf(t) < 0 /\ lower = 0 /\ o THEN -kInfinity ELSE lower
Frees == opt.lower_becomes_minus_infinity
UpperAfter(t, upper) == IF M!GivesUpper(t) THEN M!UpperGiven(t) ELSE upper
MakesIntegral(t) == t[1] \in {"BV", "LI", "UI"}

\* A bounds card sets both bounds and perhaps the kind of one column.
Kinded(b, j, f) == [b EXCEPT !.cols[j].integer = @ \/ f]
ColumnWith(col, x, y, f) == [col EXCEPT !.lower = x, !.upper = y, !.integer = @ \/ f]
BoundsOnly(r, j, c, s) ==
  /\ s \in MpsReaders /\ s.section = r.section /\ SameTable(r, s)
  /\ s.in_integer_block = r.in_integer_block
  /\ c \in ColumnFields /\ s.cols = [r.cols EXCEPT ![j] = c]

\* New bounds for a column, with a warning or without.
LEMMA ColumnIsBounded ==
  ASSUME NEW r \in MpsReaders, at \in Int, NEW j \in 1..Len(r.cols), NEW x \in Int, NEW y \in Int,
         NEW f \in BOOLEAN, NEW b,
         b \in {M!set_column_bounds(r, j, <<x, y>>), M!warn(M!set_column_bounds(r, j, <<x, y>>))}
  PROVE  BoundsOnly(r, j, ColumnWith(r.cols[j], x, y, f), Kinded(b, j, f))
<1> DEFINE a == [r.cols[j] EXCEPT !.lower = x, !.upper = y]
           p == [r.cols EXCEPT ![j] = a]
           set == [r EXCEPT !.cols = p]
           c == [r.cols[j] EXCEPT !.lower = x, !.upper = y, !.integer = @ \/ f]
           q == [r.cols EXCEPT ![j] = c]
           s == [b EXCEPT !.cols[j].integer = @ \/ f]
<1>1. r \in MpsMembers /\ r.cols \in Seq(ColumnFields) /\ r.cols[j] \in ColumnFields
  BY DEF MpsReaders, MpsMembers
<1>2. /\ a \in ColumnFields /\ c \in ColumnFields /\ c = [a EXCEPT !.integer = a.integer \/ f]
  BY <1>1 DEF ColumnFields
<1>3. M!set_column_bounds(r, j, <<x, y>>) = set
  BY <1>1 DEF M!set_column_bounds, MpsMembers
<1> HIDE DEF a, c
<1>4. /\ p \in Seq(ColumnFields) /\ q \in Seq(ColumnFields) /\ Len(p) = Len(r.cols) /\ p[j] = a
      /\ [p EXCEPT ![j] = c] = q
  BY <1>1, <1>2
<1> HIDE DEF p, q
<1>5. set \in MpsReaders
  BY <1>4, MembersReplaced
<1>6. /\ set.cols = p /\ set.section = r.section /\ set.in_integer_block = r.in_integer_block
      /\ SameTable(r, set)
  BY <1>1 DEF MpsMembers, SameTable
<1> HIDE DEF set
<1>7. /\ b \in MpsReaders /\ b.cols = p /\ b.section = r.section
      /\ b.in_integer_block = r.in_integer_block /\ SameTable(r, b)
  <2>1. CASE b = set
    BY <1>5, <1>6, <2>1
  <2>2. CASE b = M!warn(set)
    <3>1. b \in MpsReaders
      BY <1>5, <2>2, WarnKeeps DEF Keeps, KeepsColumns
    <3>2. set \in MpsMembers
      BY <1>5 DEF MpsReaders
    <3>3. /\ b.cols = set.cols /\ b.section = set.section
          /\ b.in_integer_block = set.in_integer_block /\ SameTable(set, b)
      BY <2>2, <3>2 DEF M!warn, MpsMembers, SameTable
    <3>4. SameTable(r, b)
      BY <1>6, <3>3 DEF SameTable
    <3> QED
      BY <1>6, <3>1, <3>3, <3>4
  <2> QED
    BY <1>3, <2>1, <2>2
<1>8. b \in MpsMembers
  BY <1>7 DEF MpsReaders
<1>9. s = [b EXCEPT !.cols = [p EXCEPT ![j] = [a EXCEPT !.integer = a.integer \/ f]]]
  BY <1>4, <1>7, <1>8 DEF MpsMembers
<1>10. s = [b EXCEPT !.cols = q]
  BY <1>2, <1>4, <1>9
<1> HIDE DEF s
<1>11. s \in MpsReaders
  BY <1>4, <1>7, <1>10, MembersReplaced
<1>12. /\ s.cols = q /\ s.section = b.section /\ s.in_integer_block = b.in_integer_block
       /\ SameTable(b, s)
  BY <1>8, <1>10 DEF MpsMembers, SameTable
<1>13. SameTable(r, s)
  BY <1>7, <1>12 DEF SameTable
<1> QED
  BY <1>2, <1>7, <1>11, <1>12, <1>13 DEF s, c, q, BoundsOnly, ColumnWith, Kinded

\* A card of a bound: its column is there, and has the bounds of the table.
LEMMA BoundsCardDoes ==
  ASSUME NEW r \in MpsReaders, at \in Int, NEW t \in Seq(STRING), Distinct(r.cols),
         ~M!handle_bounds(r, t).error
  PROVE  LET s == M!handle_bounds(r, t)
             q == With(r.cols, M!BoundedColumn(t))
         IN  /\ s \in MpsReaders /\ s.section = r.section /\ s.in_integer_block = r.in_integer_block
             /\ SameTable(r, s) /\ M!BoundedColumn(t) \in STRING /\ Len(s.cols) = Len(q)
             /\ \A j \in 1..Len(q) :
                  IF q[j].name = M!BoundedColumn(t)
                  THEN /\ s.cols[j].name = q[j].name /\ s.cols[j].lower = LowerAfter(Frees, t, q[j].lower)
                       /\ s.cols[j].upper = UpperAfter(t, q[j].upper) /\ s.cols[j].cost = q[j].cost
                       /\ s.cols[j].integer <=> q[j].integer \/ MakesIntegral(t)
                  ELSE s.cols[j] = q[j]
<1> DEFINE name == M!BoundedColumn(t)
           type == t[1]
           v == M!ValueOf(t)
           q == With(r.cols, name)
           known == IF M!find_column(r, name) = 0 THEN M!column_for(M!warn(r), name) ELSE r
           j == M!find_column(known, name)
           lower == q[j].lower
           upper == q[j].upper
           s == M!handle_bounds(r, t)
<1>1. r \in MpsMembers /\ r.cols \in Seq(ColumnFields) /\ kInfinity \in Nat \ {0}
  BY NumberAssumption DEF MpsReaders, MpsMembers
<1>2. /\ ~(Len(t) < 2) /\ type \in M!Valueless \cup M!Valued
      /\ type \in M!Valued => ~(Len(t) < 3) /\ M!IsNumber(t[Len(t)])
  <2>1. M!Failed(r).error
    BY <1>1 DEF M!Failed, MpsMembers
  <2> QED
    BY <2>1 DEF M!handle_bounds
<1>3. name \in STRING
  <2>1. Len(t) \in Nat /\ \A k \in 1..Len(t) : t[k] \in STRING
    OBVIOUS
  <2>2. Len(t) \in 1..Len(t) /\ Len(t) - 1 \in 1..Len(t)
    BY <1>2, <2>1
  <2> QED
    BY <2>1, <2>2 DEF M!BoundedColumn
<1>4. v \in Int
  BY <1>2, NumberAssumption DEF M!ValueOf, M!IsNumber
<1>5. q \in Seq(ColumnFields) /\ Distinct(q)
  BY <1>1, <1>3, WithHas
<1>6. s = M!apply_bound(known, j, type, v)
  BY <1>2 DEF M!handle_bounds
<1>7. /\ known \in MpsReaders /\ known.cols = q /\ known.section = r.section
      /\ known.in_integer_block = r.in_integer_block /\ SameTable(r, known)
      /\ j \in 1..Len(q) /\ q[j].name = name
  <2>1. CASE M!find_column(r, name) # 0
    <3>1. Has(r.cols, name)
      BY <2>1, ColumnFound DEF Has
    <3>2. q = r.cols /\ known = r /\ Len(q) \in Nat /\ SameTable(r, r)
      BY <1>1, <2>1, <3>1 DEF With, SameTable
    <3> HIDE DEF known, q, name
    <3> QED
      BY <2>1, <3>2, ColumnFound
  <2>2. CASE M!find_column(r, name) = 0
    <3> DEFINE w == M!warn(r)
    <3>1. w \in MpsReaders /\ w \in MpsMembers /\ w.cols = r.cols /\ w.section = r.section
          /\ w.in_integer_block = r.in_integer_block /\ SameTable(r, w)
      BY <1>1, WarnKeeps DEF Keeps, KeepsColumns, M!warn, MpsMembers, MpsReaders, SameTable
    <3>2. known = M!column_for(w, name)
      BY <2>2
    <3> HIDE DEF known, w, name
    <3>3. known = [w EXCEPT !.cols = q] /\ known \in MpsReaders /\ j \in 1..Len(q)
          /\ q[j].name = name
      BY <1>3, <3>1, <3>2, ColumnIsThere
    <3> HIDE DEF q, j
    <3>4. SameTable(r, known)
      BY <3>1, <3>3 DEF MpsMembers, SameTable
    <3> QED
      BY <3>1, <3>3, <3>4 DEF MpsMembers
  <2> QED
    BY <2>1, <2>2
<1> HIDE DEF known, j, q, name, s
<1>8. q[j] \in ColumnFields
  BY <1>5, <1>7
<1>9. lower \in Int /\ upper \in Int
  BY <1>8 DEF ColumnFields
<1> DEFINE x == LowerAfter(Frees, t, lower)
           y == UpperAfter(t, upper)
           f == MakesIntegral(t)
           b == IF type = "UP" THEN M!UpperBound(known, j, lower, v)
                ELSE M!set_column_bounds(known, j,
                       [LO |-> <<v, upper>>, FX |-> <<v, v>>, FR |-> <<-kInfinity, kInfinity>>,
                        MI |-> <<-kInfinity, upper>>, PL |-> <<lower, kInfinity>>, BV |-> <<0, 1>>,
                        LI |-> <<v, upper>>, UI |-> <<lower, v>>][type])
<1>10. s = [b EXCEPT !.cols[j].integer = @ \/ f]
  BY <1>6, <1>7 DEF M!apply_bound, MakesIntegral
<1> DEFINE set == M!set_column_bounds(known, j, <<x, y>>)
<1>11. b \in {set, M!warn(set)}
  <2>1. CASE type = "UP"
    <3>1. y = v
      BY <2>1 DEF UpperAfter, M!GivesUpper, M!UpperGiven
    <3>2. x = IF v < 0 /\ lower = 0 /\ opt.lower_becomes_minus_infinity THEN -kInfinity ELSE lower
      BY <2>1 DEF LowerAfter, Frees, M!GivesLower
    <3> HIDE DEF x, y, lower, v
    <3>3. b = M!UpperBound(known, j, lower, v)
      BY <2>1
    <3>4. CASE v >= 0 \/ lower # 0
      <4>1. x = lower
        BY <1>4, <3>2, <3>4
      <4> QED
        BY <3>1, <3>3, <3>4, <4>1 DEF M!UpperBound
    <3>5. CASE ~(v >= 0 \/ lower # 0)
      <4>1. x = IF opt.lower_becomes_minus_infinity THEN -kInfinity ELSE lower
        BY <1>4, <3>2, <3>5
      <4> QED
        BY <3>1, <3>3, <3>5, <4>1 DEF M!UpperBound
    <3> QED
      BY <3>4, <3>5
  <2>2. CASE type # "UP"
    <3>1. type \in {"LO", "FX", "FR", "MI", "PL", "BV", "LI", "UI"}
      BY <1>2, <2>2 DEF M!Valueless, M!Valued
    <3>2. x = [LO |-> v, FX |-> v, FR |-> -kInfinity, MI |-> -kInfinity, PL |-> lower, BV |-> 0,
               LI |-> v, UI |-> lower][type]
      BY <3>1 DEF LowerAfter, Frees, M!GivesLower, M!LowerGiven, M!ValueOf, M!Valueless
    <3>3. y = [LO |-> upper, FX |-> v, FR |-> kInfinity, MI |-> upper, PL |-> kInfinity, BV |-> 1,
               LI |-> upper, UI |-> v][type]
      BY <3>1 DEF UpperAfter, M!GivesUpper, M!UpperGiven
    <3> HIDE DEF x, y, lower, upper, v, type
    <3>4. b = M!set_column_bounds(known, j, <<x, y>>)
      BY <2>2, <3>1, <3>2, <3>3
    <3> QED
      BY <3>4
  <2> QED
    BY <2>1, <2>2
<1>12. x \in Int /\ y \in Int /\ f \in BOOLEAN
  <2>1. -kInfinity \in Int /\ kInfinity \in Int
    BY <1>1
  <2> QED
    BY <1>4, <1>9, <2>1 DEF LowerAfter, Frees, UpperAfter, M!LowerGiven, M!UpperGiven, MakesIntegral
<1> HIDE DEF b, set, x, y, f
<1> DEFINE c == [q[j] EXCEPT !.lower = x, !.upper = y, !.integer = @ \/ f]
<1>13. /\ s \in MpsReaders /\ s.section = known.section /\ SameTable(known, s)
       /\ s.in_integer_block = known.in_integer_block
       /\ c \in ColumnFields /\ s.cols = [q EXCEPT ![j] = c]
  <2>1. known \in MpsReaders /\ j \in 1..Len(known.cols) /\ known.cols = q
    BY <1>7
  <2>2. BoundsOnly(known, j, ColumnWith(known.cols[j], x, y, f), Kinded(b, j, f))
    BY <2>1, <1>11, <1>12, ColumnIsBounded DEF set
  <2>3. s = Kinded(b, j, f)
    BY <1>10 DEF Kinded
  <2>4. c = ColumnWith(known.cols[j], x, y, f)
    BY <2>1 DEF ColumnWith
  <2> HIDE DEF c
  <2> QED
    BY <2>1, <2>2, <2>3, <2>4 DEF BoundsOnly
<1>14. /\ c.name = q[j].name /\ c.lower = x /\ c.upper = y /\ c.integer = (q[j].integer \/ f)
       /\ c.cost = q[j].cost
  BY <1>8 DEF ColumnFields
<1> HIDE DEF c, s
<1>15. /\ Len(s.cols) = Len(q)
       /\ \A k \in 1..Len(q) : s.cols[k] = IF k = j THEN c ELSE q[k]
  BY <1>5, <1>7, <1>13, Replaced
<1>16. ASSUME NEW k \in 1..Len(q)
       PROVE  IF q[k].name = name
              THEN /\ s.cols[k].name = q[k].name /\ s.cols[k].lower = LowerAfter(Frees, t, q[k].lower)
                   /\ s.cols[k].upper = UpperAfter(t, q[k].upper) /\ s.cols[k].cost = q[k].cost
                   /\ s.cols[k].integer <=> q[k].integer \/ MakesIntegral(t)
              ELSE s.cols[k] = q[k]
  <2>1. q[k].name = name <=> k = j
    BY <1>5, <1>7 DEF Distinct
  <2>2. CASE k = j
    BY <1>7, <1>14, <1>15, <2>1, <2>2 DEF x, y, f, lower, upper
  <2>3. CASE k # j
    BY <1>15, <2>1, <2>3
  <2> QED
    BY <2>2, <2>3
<1>17. SameTable(r, s)
  BY <1>7, <1>13 DEF SameTable
<1> QED
  BY <1>3, <1>7, <1>13, <1>15, <1>16, <1>17 DEF s, q, name

(***************************************************************************)
(* What the cards before a line say                                        *)
(***************************************************************************)

\* The cards about a column among the lines B, whose tokens are F, before the
\* line i.
About(B, F, name, i) == {c \in B : c < i /\ M!BoundedColumn(F[c]) = name}

Lower(B, F, o, name, i) ==
  LET givers == {c \in About(B, F, name, i) : M!GivesLower(F[c])}
      given == IF givers = {} THEN 0 ELSE M!LowerGiven(F[M!Max(givers)])
      freed == \E c \in About(B, F, name, i) :
                 /\ \A g \in givers : g < c
                 /\ F[c][1] = "UP" /\ M!ValueOf(F[c]) < 0
  IN  IF given = 0 /\ freed /\ o THEN -kInfinity ELSE given

Upper(B, F, name, i) ==
  LET givers == {c \in About(B, F, name, i) : M!GivesUpper(F[c])}
  IN  IF givers = {} THEN kInfinity ELSE M!UpperGiven(F[M!Max(givers)])

\* The last marker before the line opens a block of integral columns.
Marked(C, F, i) ==
  \E m \in C : /\ m < i /\ M!IsMarker(F[m]) /\ M!Contains(F[m], "INTORG")
              /\ \A n \in C : M!IsMarker(F[n]) => n <= m \/ n >= i

Integral(B, C, F, name, i) ==
  \/ \E c \in About(B, F, name, i) : MakesIntegral(F[c])
  \/ \E c \in C : c < i /\ ~M!IsMarker(F[c]) /\ F[c][1] = name /\ Marked(C, F, c)

\* The columns p are those that the cards before the line i name, with their
\* bounds and kinds.
Tells(p, B, C, F, o, i) ==
  \A j \in 1..Len(p) :
    /\ p[j].lower = Lower(B, F, o, p[j].name, i)
    /\ p[j].upper = Upper(B, F, p[j].name, i)
    /\ p[j].integer <=> Integral(B, C, F, p[j].name, i)
Known(p, B, C, F, o, i) ==
  /\ p \in Seq(ColumnFields) /\ Distinct(p) /\ Tells(p, B, C, F, o, i)
  /\ \A c \in B : c < i => Has(p, M!BoundedColumn(F[c]))
  /\ \A c \in C : c < i /\ ~M!IsMarker(F[c]) => Has(p, F[c][1])

\* A line that says nothing about the bounds of a column.
LEMMA BoundsStay ==
  ASSUME NEW B \in SUBSET Nat, NEW F, NEW o, NEW name, NEW i \in Nat,
         i \notin B \/ M!BoundedColumn(F[i]) # name
  PROVE  /\ About(B, F, name, i + 1) = About(B, F, name, i)
         /\ Lower(B, F, o, name, i + 1) = Lower(B, F, o, name, i)
         /\ Upper(B, F, name, i + 1) = Upper(B, F, name, i)
<1>1. About(B, F, name, i + 1) = About(B, F, name, i)
  <2>1. \A c \in B : c < i + 1 <=> c < i \/ c = i
    OBVIOUS
  <2> QED
    BY <2>1 DEF About
<1> QED
  BY <1>1 DEF Lower, Upper

\* The largest of a set is the one that is added last.
LEMMA LastIsMax ==
  ASSUME NEW T \in SUBSET Nat, NEW i \in Nat, \A c \in T : c < i
  PROVE  M!Max(T \cup {i}) = i
<1>1. \A y \in T \cup {i} : i >= y
  OBVIOUS
<1>2. \A x \in T \cup {i} : (\A y \in T \cup {i} : x >= y) => x = i
  <2> SUFFICES ASSUME NEW x \in T \cup {i}, \A y \in T \cup {i} : x >= y PROVE x = i
    OBVIOUS
  <2>1. x >= i /\ i >= x /\ x \in Nat
    BY <1>1
  <2> QED
    BY <2>1
<1> QED
  BY <1>1, <1>2 DEF M!Max

\* A line that gives a column bounds.
LEMMA AboutStep ==
  ASSUME NEW B \in SUBSET Nat, NEW F, NEW i \in Nat, i \in B
  PROVE  LET name == M!BoundedColumn(F[i]) IN
         /\ i \in About(B, F, name, i + 1)
         /\ \A c \in About(B, F, name, i) : c \in Nat /\ c < i /\ c \in About(B, F, name, i + 1)
         /\ \A c \in About(B, F, name, i + 1) : c = i \/ c \in About(B, F, name, i)
<1>1. \A c \in B : c < i + 1 <=> c < i \/ c = i
  OBVIOUS
<1> QED
  BY <1>1 DEF About

LEMMA LowerStep ==
  ASSUME NEW B \in SUBSET Nat, NEW F, NEW o, NEW i \in Nat, i \in B
  PROVE  Lower(B, F, o, M!BoundedColumn(F[i]), i + 1)
           = LowerAfter(o, F[i], Lower(B, F, o, M!BoundedColumn(F[i]), i))
<1> DEFINE name == M!BoundedColumn(F[i])
           A == About(B, F, name, i)
           G == {c \in A : M!GivesLower(F[c])}
           given == IF G = {} THEN 0 ELSE M!LowerGiven(F[M!Max(G)])
           Freeing(c) == F[c][1] = "UP" /\ M!ValueOf(F[c]) < 0
           freed == \E c \in A : (\A g \in G : g < c) /\ Freeing(c)
           A2 == About(B, F, name, i + 1)
           G2 == {c \in A2 : M!GivesLower(F[c])}
           given2 == IF G2 = {} THEN 0 ELSE M!LowerGiven(F[M!Max(G2)])
           freed2 == \E c \in A2 : (\A g \in G2 : g < c) /\ Freeing(c)
<1>1. A2 = A \cup {i} /\ \A c \in A : c \in Nat /\ c < i
  BY AboutStep
<1>2. /\ Lower(B, F, o, name, i) = IF given = 0 /\ freed /\ o THEN -kInfinity ELSE given
      /\ Lower(B, F, o, name, i + 1) = IF given2 = 0 /\ freed2 /\ o THEN -kInfinity ELSE given2
  BY DEF Lower
<1> HIDE DEF A, A2, Freeing
<1>3. CASE M!GivesLower(F[i])
  <2>1. G2 = G \cup {i}
    BY <1>1, <1>3
  <2>2. M!Max(G2) = i /\ G2 # {}
    <3> HIDE DEF G2
    <3>1. G \in SUBSET Nat /\ \A c \in G : c < i
      BY <1>1
    <3> HIDE DEF G
    <3> QED
      BY <2>1, <3>1, LastIsMax
  <2>3. ~freed2
    BY <1>1, <2>1
  <2> HIDE DEF G, G2, freed, freed2
  <2> QED
    BY <1>2, <1>3, <2>2, <2>3 DEF LowerAfter
<1>4. CASE ~M!GivesLower(F[i])
  <2>1. G2 = G
    BY <1>1, <1>4
  <2>2. freed2 <=> freed \/ Freeing(i)
    BY <1>1, <2>1
  <2>3. -kInfinity # 0
    BY NumberAssumption
  <2> HIDE DEF G, G2, freed, freed2
  <2>4. given2 = given
    BY <2>1
  <2> HIDE DEF given, given2
  <2> QED
    BY <1>2, <1>4, <2>2, <2>3, <2>4 DEF LowerAfter, Freeing
<1> QED
  BY <1>3, <1>4

LEMMA UpperStep ==
  ASSUME NEW B \in SUBSET Nat, NEW F, NEW i \in Nat, i \in B
  PROVE  Upper(B, F, M!BoundedColumn(F[i]), i + 1)
           = UpperAfter(F[i], Upper(B, F, M!BoundedColumn(F[i]), i))
<1> DEFINE name == M!BoundedColumn(F[i])
           A == About(B, F, name, i)
           U == {c \in A : M!GivesUpper(F[c])}
           A2 == About(B, F, name, i + 1)
           U2 == {c \in A2 : M!GivesUpper(F[c])}
<1>1. A2 = A \cup {i} /\ \A c \in A : c \in Nat /\ c < i
  BY AboutStep
<1>2. /\ Upper(B, F, name, i) = IF U = {} THEN kInfinity ELSE M!UpperGiven(F[M!Max(U)])
      /\ Upper(B, F, name, i + 1) = IF U2 = {} THEN kInfinity ELSE M!UpperGiven(F[M!Max(U2)])
  BY DEF Upper
<1> HIDE DEF A, A2
<1>3. CASE M!GivesUpper(F[i])
  <2>1. U2 = U \cup {i}
    BY <1>1, <1>3
  <2>2. M!Max(U2) = i /\ U2 # {}
    <3> HIDE DEF U2
    <3>1. U \in SUBSET Nat /\ \A c \in U : c < i
      BY <1>1
    <3> HIDE DEF U
    <3> QED
      BY <2>1, <3>1, LastIsMax
  <2> HIDE DEF U, U2
  <2> QED
    BY <1>2, <1>3, <2>2 DEF UpperAfter
<1>4. CASE ~M!GivesUpper(F[i])
  <2>1. U2 = U
    BY <1>1, <1>4
  <2> HIDE DEF U, U2
  <2> QED
    BY <1>2, <1>4, <2>1 DEF UpperAfter
<1> QED
  BY <1>3, <1>4

\* A column that no card names has the bounds of a new one.
LEMMA NothingSaid ==
  ASSUME NEW B \in SUBSET Nat, NEW C \in SUBSET Nat, NEW F, NEW o, NEW i, NEW p, NEW name,
         Known(p, B, C, F, o, i), ~Has(p, name)
  PROVE  /\ Lower(B, F, o, name, i) = 0 /\ Upper(B, F, name, i) = kInfinity
         /\ ~Integral(B, C, F, name, i)
<1>1. About(B, F, name, i) = {}
  BY DEF About, Known
<1>2. \A c \in C : ~(c < i /\ ~M!IsMarker(F[c]) /\ F[c][1] = name)
  BY DEF Known
<1> QED
  BY <1>1, <1>2 DEF Lower, Upper, Integral

LEMMA WithIsKnown ==
  ASSUME NEW B \in SUBSET Nat, NEW C \in SUBSET Nat, NEW F, NEW o, NEW i, NEW p,
         NEW name \in STRING, Known(p, B, C, F, o, i)
  PROVE  Known(With(p, name), B, C, F, o, i)
<1> DEFINE q == With(p, name)
<1>1. /\ q \in Seq(ColumnFields) /\ Distinct(q) /\ Has(q, name)
      /\ Len(p) <= Len(q)
      /\ \A j \in 1..Len(p) : q[j] = p[j]
      /\ \A j \in 1..Len(q) : j \notin 1..Len(p) => q[j] = Fresh(name) /\ ~Has(p, name)
  BY WithHas DEF Known
<1> HIDE DEF q
<1>2. ASSUME NEW j \in 1..Len(q)
      PROVE  /\ q[j].lower = Lower(B, F, o, q[j].name, i)
             /\ q[j].upper = Upper(B, F, q[j].name, i)
             /\ q[j].integer <=> Integral(B, C, F, q[j].name, i)
  <2>1. CASE j \in 1..Len(p)
    BY <1>1, <2>1 DEF Known, Tells
  <2>2. CASE j \notin 1..Len(p)
    <3>1. /\ q[j].name = name /\ q[j].lower = 0 /\ q[j].upper = kInfinity
          /\ q[j].integer = FALSE /\ ~Has(p, name)
      BY <1>1, <2>2 DEF Fresh
    <3> QED
      BY <3>1, NothingSaid
  <2> QED
    BY <2>1, <2>2
<1>3. \A n : Has(p, n) => Has(q, n)
  <2>1. Len(p) \in Nat /\ Len(q) \in Nat
    BY <1>1 DEF Known
  <2>2. \A j \in 1..Len(p) : j \in 1..Len(q)
    BY <1>1, <2>1
  <2> QED
    BY <1>1, <2>2 DEF Has
<1> QED
  BY <1>1, <1>2, <1>3 DEF Known, Tells, q

\* A line that no column is about.
LEMMA IntegralStays ==
  ASSUME NEW B \in SUBSET Nat, NEW C \in SUBSET Nat, NEW F, NEW name, NEW i \in Nat,
         i \notin B \/ M!BoundedColumn(F[i]) # name,
         i \notin C \/ M!IsMarker(F[i]) \/ F[i][1] # name
  PROVE  Integral(B, C, F, name, i + 1) <=> Integral(B, C, F, name, i)
<1>1. About(B, F, name, i + 1) = About(B, F, name, i)
  <2>1. \A c \in B : c < i + 1 <=> c < i \/ c = i
    OBVIOUS
  <2> QED
    BY <2>1 DEF About
<1>2. \A c \in C : c < i + 1 <=> c < i \/ c = i
  OBVIOUS
<1> QED
  BY <1>1, <1>2 DEF Integral

LEMMA QuietIsKnown ==
  ASSUME NEW B \in SUBSET Nat, NEW C \in SUBSET Nat, NEW F, NEW o, NEW i \in Nat, NEW p,
         NEW q \in Seq(ColumnFields), SameColumns(p, q), Known(p, B, C, F, o, i),
         i \notin B, i \notin C \/ M!IsMarker(F[i])
  PROVE  Known(q, B, C, F, o, i + 1)
<1>1. Len(q) = Len(p) /\ \A j \in 1..Len(p) : q[j].name = p[j].name
  BY DEF SameColumns
<1>2. Distinct(q) /\ \A n : Has(p, n) => Has(q, n)
  BY <1>1 DEF Known, Distinct, Has
<1>3. ASSUME NEW j \in 1..Len(q)
      PROVE  /\ q[j].lower = Lower(B, F, o, q[j].name, i + 1)
             /\ q[j].upper = Upper(B, F, q[j].name, i + 1)
             /\ q[j].integer <=> Integral(B, C, F, q[j].name, i + 1)
  <2>1. /\ Lower(B, F, o, q[j].name, i + 1) = Lower(B, F, o, q[j].name, i)
        /\ Upper(B, F, q[j].name, i + 1) = Upper(B, F, q[j].name, i)
    BY BoundsStay
  <2>2. Integral(B, C, F, q[j].name, i + 1) <=> Integral(B, C, F, q[j].name, i)
    BY IntegralStays
  <2> QED
    BY <2>1, <2>2 DEF SameColumns, Known, Tells
<1>4. \A c \in B \cup C : c < i + 1 <=> c < i \/ c = i
  OBVIOUS
<1>5. /\ \A c \in B : c < i + 1 => Has(q, M!BoundedColumn(F[c]))
      /\ \A c \in C : c < i + 1 /\ ~M!IsMarker(F[c]) => Has(q, F[c][1])
  BY <1>2, <1>4 DEF Known
<1> QED
  BY <1>2, <1>3, <1>5 DEF Known, Tells

LEMMA ColumnsCardIsKnown ==
  ASSUME NEW B \in SUBSET Nat, NEW C \in SUBSET Nat, NEW F, NEW o, NEW i \in C, NEW p,
         NEW name \in STRING, name = F[i][1], NEW q \in Seq(ColumnFields), Known(p, B, C, F, o, i),
         i \notin B, ~M!IsMarker(F[i]), Len(q) = Len(With(p, name)),
         \A j \in 1..Len(q) :
           LET w == With(p, name)[j]
           IN  /\ q[j].name = w.name /\ q[j].lower = w.lower /\ q[j].upper = w.upper
               /\ q[j].integer <=> w.integer \/ (w.name = name /\ Marked(C, F, i))
  PROVE  Known(q, B, C, F, o, i + 1)
<1> DEFINE w == With(p, name)
<1>1. Known(w, B, C, F, o, i) /\ Has(w, name)
  <2>1. p \in Seq(ColumnFields) /\ Distinct(p)
    BY DEF Known
  <2>2. Has(w, name)
    BY <2>1, WithHas
  <2> QED
    BY <2>2, WithIsKnown
<1>2. \A n : Has(p, n) => Has(w, n)
  <2> HIDE DEF w
  <2>1. p \in Seq(ColumnFields) /\ Distinct(p) /\ w \in Seq(ColumnFields)
    BY <1>1 DEF Known
  <2>2. Len(p) \in Nat /\ Len(w) \in Nat
    BY <2>1
  <2>3. Len(p) <= Len(w) /\ \A j \in 1..Len(p) : w[j] = p[j]
    BY <2>1, WithHas DEF w
  <2>4. \A j \in 1..Len(p) : j \in 1..Len(w)
    BY <2>2, <2>3
  <2> QED
    BY <2>3, <2>4 DEF Has
<1> HIDE DEF w
<1>3. Len(q) = Len(w) /\ \A j \in 1..Len(w) : q[j].name = w[j].name
  BY DEF w
<1>4. Distinct(q) /\ \A n : Has(w, n) => Has(q, n)
  <2>1. Distinct(w)
    BY <1>1 DEF Known
  <2>2. Distinct(q)
    BY <1>3, <2>1 DEF Distinct
  <2>3. \A n : Has(w, n) => Has(q, n)
    BY <1>3 DEF Has
  <2> QED
    BY <2>2, <2>3
<1>5. ASSUME NEW j \in 1..Len(q)
      PROVE  /\ q[j].lower = Lower(B, F, o, q[j].name, i + 1)
             /\ q[j].upper = Upper(B, F, q[j].name, i + 1)
             /\ q[j].integer <=> Integral(B, C, F, q[j].name, i + 1)
  <2>1. /\ q[j].name = w[j].name /\ q[j].lower = w[j].lower /\ q[j].upper = w[j].upper
        /\ q[j].integer <=> w[j].integer \/ (w[j].name = name /\ Marked(C, F, i))
    BY DEF w
  <2>2. /\ w[j].lower = Lower(B, F, o, w[j].name, i) /\ w[j].upper = Upper(B, F, w[j].name, i)
        /\ w[j].integer <=> Integral(B, C, F, w[j].name, i)
    BY <1>1, <1>3 DEF Known, Tells
  <2>3. /\ Lower(B, F, o, q[j].name, i + 1) = Lower(B, F, o, q[j].name, i)
        /\ Upper(B, F, q[j].name, i + 1) = Upper(B, F, q[j].name, i)
    BY BoundsStay
  <2>4. Integral(B, C, F, q[j].name, i + 1)
          <=> Integral(B, C, F, q[j].name, i) \/ (q[j].name = name /\ Marked(C, F, i))
    <3>1. CASE q[j].name # name
      BY <3>1, IntegralStays
    <3>2. CASE q[j].name = name
      <4>1. About(B, F, name, i + 1) = About(B, F, name, i)
        BY BoundsStay
      <4>2. \A c \in C : c < i + 1 <=> c < i \/ c = i
        OBVIOUS
      <4> QED
        BY <3>2, <4>1, <4>2 DEF Integral
    <3> QED
      BY <3>1, <3>2
  <2> QED
    BY <2>1, <2>2, <2>3, <2>4
<1>6. \A c \in B \cup C : c < i + 1 <=> c < i \/ c = i
  OBVIOUS
<1>7. /\ \A c \in B : c < i + 1 => Has(q, M!BoundedColumn(F[c]))
      /\ \A c \in C : c < i + 1 /\ ~M!IsMarker(F[c]) => Has(q, F[c][1])
  BY <1>1, <1>2, <1>4, <1>6 DEF Known
<1> QED
  BY <1>4, <1>5, <1>7 DEF Known, Tells

LEMMA BoundsCardIsKnown ==
  ASSUME NEW B \in SUBSET Nat, NEW C \in SUBSET Nat, NEW F, NEW o, NEW i \in B, NEW p,
         NEW name \in STRING, name = M!BoundedColumn(F[i]), NEW q \in Seq(ColumnFields),
         Known(p, B, C, F, o, i), i \notin C, Len(q) = Len(With(p, name)),
         \A j \in 1..Len(q) :
           LET w == With(p, name)[j]
           IN  IF w.name = name
               THEN /\ q[j].name = w.name /\ q[j].lower = LowerAfter(o, F[i], w.lower)
                    /\ q[j].upper = UpperAfter(F[i], w.upper)
                    /\ q[j].integer <=> w.integer \/ MakesIntegral(F[i])
               ELSE q[j] = w
  PROVE  Known(q, B, C, F, o, i + 1)
<1> DEFINE w == With(p, name)
<1>1. Known(w, B, C, F, o, i) /\ Has(w, name)
  <2>1. p \in Seq(ColumnFields) /\ Distinct(p)
    BY DEF Known
  <2>2. Has(w, name)
    BY <2>1, WithHas
  <2> QED
    BY <2>2, WithIsKnown
<1>2. \A n : Has(p, n) => Has(w, n)
  <2> HIDE DEF w
  <2>1. p \in Seq(ColumnFields) /\ Distinct(p) /\ w \in Seq(ColumnFields)
    BY <1>1 DEF Known
  <2>2. Len(p) \in Nat /\ Len(w) \in Nat
    BY <2>1
  <2>3. Len(p) <= Len(w) /\ \A j \in 1..Len(p) : w[j] = p[j]
    BY <2>1, WithHas DEF w
  <2>4. \A j \in 1..Len(p) : j \in 1..Len(w)
    BY <2>2, <2>3
  <2> QED
    BY <2>3, <2>4 DEF Has
<1> HIDE DEF w
<1>3. Len(q) = Len(w) /\ \A j \in 1..Len(w) : q[j].name = w[j].name
  BY DEF w
<1>4. Distinct(q) /\ \A n : Has(w, n) => Has(q, n)
  <2>1. Distinct(w)
    BY <1>1 DEF Known
  <2>2. Distinct(q)
    BY <1>3, <2>1 DEF Distinct
  <2>3. \A n : Has(w, n) => Has(q, n)
    BY <1>3 DEF Has
  <2> QED
    BY <2>2, <2>3
<1>5. ASSUME NEW j \in 1..Len(q)
      PROVE  /\ q[j].lower = Lower(B, F, o, q[j].name, i + 1)
             /\ q[j].upper = Upper(B, F, q[j].name, i + 1)
             /\ q[j].integer <=> Integral(B, C, F, q[j].name, i + 1)
  <2>1. /\ w[j].lower = Lower(B, F, o, w[j].name, i) /\ w[j].upper = Upper(B, F, w[j].name, i)
        /\ w[j].integer <=> Integral(B, C, F, w[j].name, i)
    BY <1>1, <1>3 DEF Known, Tells
  <2>2. CASE w[j].name = name
    <3>1. /\ q[j].name = name /\ q[j].lower = LowerAfter(o, F[i], w[j].lower)
          /\ q[j].upper = UpperAfter(F[i], w[j].upper)
          /\ q[j].integer <=> w[j].integer \/ MakesIntegral(F[i])
      BY <2>2 DEF w
    <3> DEFINE n == M!BoundedColumn(F[i])
    <3>a. n = name /\ i \in Nat
      OBVIOUS
    <3>b. Lower(B, F, o, n, i + 1) = LowerAfter(o, F[i], Lower(B, F, o, n, i))
      BY <3>a, LowerStep
    <3>c. Upper(B, F, n, i + 1) = UpperAfter(F[i], Upper(B, F, n, i))
      BY <3>a, UpperStep
    <3>d. /\ i \in About(B, F, n, i + 1)
          /\ \A c \in About(B, F, n, i) : c \in About(B, F, n, i + 1)
          /\ \A c \in About(B, F, n, i + 1) : c = i \/ c \in About(B, F, n, i)
      BY <3>a, AboutStep
    <3> HIDE DEF n
    <3>2. /\ About(B, F, name, i + 1) = About(B, F, name, i) \cup {i}
          /\ Lower(B, F, o, name, i + 1) = LowerAfter(o, F[i], Lower(B, F, o, name, i))
          /\ Upper(B, F, name, i + 1) = UpperAfter(F[i], Upper(B, F, name, i))
      BY <3>a, <3>b, <3>c, <3>d
    <3>3. Integral(B, C, F, name, i + 1) <=> Integral(B, C, F, name, i) \/ MakesIntegral(F[i])
      <4>1. \A c \in C : c \in Nat /\ c # i
        OBVIOUS
      <4>2. i \in Nat
        OBVIOUS
      <4>3. \A c \in C : c < i + 1 <=> c < i
        BY <4>1, <4>2
      <4> QED
        BY <3>2, <4>3 DEF Integral
    <3> QED
      BY <2>1, <2>2, <3>1, <3>2, <3>3
  <2>3. CASE w[j].name # name
    <3>1. q[j] = w[j]
      BY <2>3 DEF w
    <3>2. /\ Lower(B, F, o, q[j].name, i + 1) = Lower(B, F, o, q[j].name, i)
          /\ Upper(B, F, q[j].name, i + 1) = Upper(B, F, q[j].name, i)
      BY <2>3, <3>1, BoundsStay
    <3>3. Integral(B, C, F, q[j].name, i + 1) <=> Integral(B, C, F, q[j].name, i)
      BY <2>3, <3>1, IntegralStays
    <3> QED
      BY <2>1, <3>1, <3>2, <3>3
  <2> QED
    BY <2>2, <2>3
<1>6. \A c \in B \cup C : c < i + 1 <=> c < i \/ c = i
  OBVIOUS
<1>7. /\ \A c \in B : c < i + 1 => Has(q, M!BoundedColumn(F[c]))
      /\ \A c \in C : c < i + 1 /\ ~M!IsMarker(F[c]) => Has(q, F[c][1])
  BY <1>1, <1>2, <1>4, <1>6 DEF Known
<1> QED
  BY <1>4, <1>5, <1>7 DEF Known, Tells

(***************************************************************************)
(* A reader between two lines                                              *)
(***************************************************************************)

\* The last header before the line i is that of the section.
Under(f, F, section, i) ==
  \E h \in 1..(i - 1) : /\ f[h].header /\ F[h][1] = section
                        /\ \A k \in (h + 1)..(i - 1) : ~f[k].header

LEMMA UnderStep ==
  ASSUME NEW f, NEW F, NEW section, NEW i \in Nat
  PROVE  /\ f[i].header /\ i # 0 => (Under(f, F, section, i + 1) <=> F[i][1] = section)
         /\ ~f[i].header => (Under(f, F, section, i + 1) <=> Under(f, F, section, i))
<1>1. \A k \in Int : k \in 1..(i + 1 - 1) <=> k \in 1..(i - 1) \/ (k = i /\ i # 0)
  OBVIOUS
<1>2. \A h \in Int, k \in Int : h <= i =>
        (k \in (h + 1)..(i + 1 - 1) <=> k \in (h + 1)..(i - 1) \/ (k = i /\ h # i))
  OBVIOUS
<1>3. ASSUME f[i].header, i # 0 PROVE Under(f, F, section, i + 1) <=> F[i][1] = section
  <2>1. ASSUME NEW h \in 1..(i + 1 - 1), \A k \in (h + 1)..(i + 1 - 1) : ~f[k].header PROVE h = i
    <3>1. h \in Int /\ h <= i /\ i \in Int
      OBVIOUS
    <3>2. h # i => i \in (h + 1)..(i + 1 - 1)
      BY <3>1
    <3> QED
      BY <1>3, <2>1, <3>2
  <2>2. i \in 1..(i + 1 - 1) /\ (i + 1)..(i + 1 - 1) = {}
    BY <1>3
  <2> QED
    BY <1>3, <2>1, <2>2 DEF Under
<1>4. ASSUME ~f[i].header PROVE Under(f, F, section, i + 1) <=> Under(f, F, section, i)
  <2>1. ASSUME NEW h \in 1..(i - 1)
        PROVE  (\A k \in (h + 1)..(i + 1 - 1) : ~f[k].header) <=> (\A k \in (h + 1)..(i - 1) : ~f[k].header)
    <3>1. \A k \in (h + 1)..(i + 1 - 1) : k \in (h + 1)..(i - 1) \/ k = i
      OBVIOUS
    <3>2. \A k \in (h + 1)..(i - 1) : k \in (h + 1)..(i + 1 - 1)
      OBVIOUS
    <3> QED
      BY <1>4, <3>1, <3>2
  <2>2. \A h \in 1..(i + 1 - 1) : h \in 1..(i - 1) \/ h = i
    OBVIOUS
  <2>3. \A h \in 1..(i - 1) : h \in 1..(i + 1 - 1)
    OBVIOUS
  <2> QED
    BY <1>4, <2>1, <2>2, <2>3 DEF Under
<1> QED
  BY <1>3, <1>4

LEMMA MarkedStep ==
  ASSUME NEW C \in SUBSET Nat, NEW F, NEW i \in Nat
  PROVE  IF i \in C /\ M!IsMarker(F[i])
         THEN Marked(C, F, i + 1) <=> M!Contains(F[i], "INTORG")
         ELSE Marked(C, F, i + 1) <=> Marked(C, F, i)
<1>1. \A c \in C : /\ c < i + 1 <=> c < i \/ c = i
                   /\ c >= i <=> c >= i + 1 \/ c = i
                   /\ c <= i \/ c >= i + 1
  OBVIOUS
<1>2. ASSUME i \in C, M!IsMarker(F[i]) PROVE Marked(C, F, i + 1) <=> M!Contains(F[i], "INTORG")
  <2>1. \A m \in C : m < i + 1 /\ (i <= m \/ i >= i + 1) => m = i
    OBVIOUS
  <2> QED
    BY <1>1, <1>2, <2>1 DEF Marked
<1>3. ASSUME ~(i \in C /\ M!IsMarker(F[i])) PROVE Marked(C, F, i + 1) <=> Marked(C, F, i)
  BY <1>1, <1>3 DEF Marked
<1> QED
  BY <1>2, <1>3

\* What a reader r knows that has read the lines of f before the line i, of
\* which B and C are the cards of bounds and of columns.
Ended(f, F, i) == f[i].header /\ F[i][1] = "ENDATA"
Following(r, i, f, F, B, C, o) ==
  /\ r \in MpsReaders /\ i \in 1..(Len(f) + 1)
  /\ \A k \in 1..(i - 1) : ~Ended(f, F, k)
  /\ r.section = "COLUMNS" <=> Under(f, F, "COLUMNS", i)
  /\ r.section = "BOUNDS" <=> Under(f, F, "BOUNDS", i)
  /\ r.in_integer_block <=> Marked(C, F, i)
  /\ Known(r.cols, B, C, F, o, i)

\* A new reader knows what the cards before the first line say.
LEMMA NewFollows ==
  ASSUME NEW f \in Seq(Lines), NEW F, NEW B \in SUBSET (DOMAIN f), NEW C \in SUBSET (DOMAIN f), NEW o
  PROVE  Following(M!NewReader, 1, f, F, B, C, o)
<1> DEFINE r == M!NewReader
<1>1. /\ r \in MpsReaders /\ r.cols = <<>> /\ r.section = "None" /\ ~r.in_integer_block
  BY NewIsReader
<1> HIDE DEF r
<1>2. Len(f) \in Nat /\ 1..(1 - 1) = {} /\ \A c \in B \cup C : c \in Nat /\ ~(c < 1)
  OBVIOUS
<1>3. ~Under(f, F, "COLUMNS", 1) /\ ~Under(f, F, "BOUNDS", 1)
  BY <1>2 DEF Under
<1>4. ~Marked(C, F, 1)
  BY <1>2 DEF Marked
<1>5. r.cols \in Seq(ColumnFields) /\ 1..Len(r.cols) = {}
  <2>1. Len(r.cols) = 0
    BY <1>1
  <2>2. r.cols \in Seq(ColumnFields)
    BY <1>1 DEF MpsReaders, MpsMembers
  <2> QED
    BY <2>1, <2>2
<1>6. Known(r.cols, B, C, F, o, 1)
  BY <1>2, <1>5 DEF Known, Tells, Distinct
<1>7. r.section # "COLUMNS" /\ r.section # "BOUNDS"
  BY <1>1
<1>8. 1 \in 1..(Len(f) + 1)
  BY <1>2
<1> QED
  BY <1>1, <1>2, <1>3, <1>4, <1>6, <1>7, <1>8 DEF Following, r

\* What every line does to the reader's place.
LEMMA PlaceMoves ==
  ASSUME NEW f \in Seq(Lines), NEW F, NEW B, NEW C, NEW o, NEW r, NEW i \in 1..Len(f),
         Following(r, i, f, F, B, C, o), ~Ended(f, F, i)
  PROVE  /\ i + 1 \in 1..(Len(f) + 1) /\ i \in Nat /\ i # 0
         /\ \A k \in 1..(i + 1 - 1) : ~Ended(f, F, k)
<1>1. Len(f) \in Nat
  OBVIOUS
<1>2. \A k \in 1..(i + 1 - 1) : k \in 1..(i - 1) \/ k = i
  OBVIOUS
<1> QED
  BY <1>1, <1>2 DEF Following

\* A header begins its section.
LEMMA HeaderFollows ==
  ASSUME NEW f \in Seq(Lines), NEW F, NEW B \in SUBSET (DOMAIN f), NEW C \in SUBSET (DOMAIN f), NEW o,
         NEW r, NEW i \in 1..Len(f), Following(r, i, f, F, B, C, o), ~Ended(f, F, i),
         NEW s \in MpsReaders,
         f[i].header, i \notin B, i \notin C, SameColumns(r.cols, s.cols),
         s.in_integer_block = r.in_integer_block,
         s.section = "COLUMNS" <=> F[i][1] = "COLUMNS", s.section = "BOUNDS" <=> F[i][1] = "BOUNDS"
  PROVE  Following(s, i + 1, f, F, B, C, o)
<1>1. i + 1 \in 1..(Len(f) + 1) /\ i \in Nat /\ i # 0 /\ \A k \in 1..(i + 1 - 1) : ~Ended(f, F, k)
  BY PlaceMoves
<1>2. B \in SUBSET Nat /\ C \in SUBSET Nat
  OBVIOUS
<1>3. s.cols \in Seq(ColumnFields)
  BY DEF MpsReaders, MpsMembers
<1>4. /\ s.section = "COLUMNS" <=> Under(f, F, "COLUMNS", i + 1)
      /\ s.section = "BOUNDS" <=> Under(f, F, "BOUNDS", i + 1)
  BY <1>1, UnderStep DEF Following
<1>5. s.in_integer_block <=> Marked(C, F, i + 1)
  BY <1>1, <1>2, MarkedStep DEF Following
<1>6. Known(s.cols, B, C, F, o, i + 1)
  BY <1>1, <1>2, <1>3, QuietIsKnown DEF Following
<1> QED
  BY <1>1, <1>4, <1>5, <1>6 DEF Following

\* A line that no column is about.
LEMMA QuietFollows ==
  ASSUME NEW f \in Seq(Lines), NEW F, NEW B \in SUBSET (DOMAIN f), NEW C \in SUBSET (DOMAIN f), NEW o,
         NEW r, NEW i \in 1..Len(f), Following(r, i, f, F, B, C, o), ~Ended(f, F, i),
         NEW s \in MpsReaders,
         ~f[i].header, i \notin B, i \notin C, SameColumns(r.cols, s.cols),
         s.in_integer_block = r.in_integer_block,
         s.section = "COLUMNS" <=> r.section = "COLUMNS",
         s.section = "BOUNDS" <=> r.section = "BOUNDS"
  PROVE  Following(s, i + 1, f, F, B, C, o)
<1>1. i + 1 \in 1..(Len(f) + 1) /\ i \in Nat /\ i # 0 /\ \A k \in 1..(i + 1 - 1) : ~Ended(f, F, k)
  BY PlaceMoves
<1>2. B \in SUBSET Nat /\ C \in SUBSET Nat
  OBVIOUS
<1>3. s.cols \in Seq(ColumnFields)
  BY DEF MpsReaders, MpsMembers
<1>4. /\ s.section = "COLUMNS" <=> Under(f, F, "COLUMNS", i + 1)
      /\ s.section = "BOUNDS" <=> Under(f, F, "BOUNDS", i + 1)
  BY <1>1, UnderStep DEF Following
<1>5. s.in_integer_block <=> Marked(C, F, i + 1)
  BY <1>1, <1>2, MarkedStep DEF Following
<1>6. Known(s.cols, B, C, F, o, i + 1)
  BY <1>1, <1>2, <1>3, QuietIsKnown DEF Following
<1> QED
  BY <1>1, <1>4, <1>5, <1>6 DEF Following

\* A marker opens a block or closes it.
LEMMA MarkerFollows ==
  ASSUME NEW f \in Seq(Lines), NEW F, NEW B \in SUBSET (DOMAIN f), NEW C \in SUBSET (DOMAIN f), NEW o,
         NEW r, NEW i \in 1..Len(f), Following(r, i, f, F, B, C, o), ~Ended(f, F, i),
         NEW s \in MpsReaders,
         ~f[i].header, i \notin B, i \in C, M!IsMarker(F[i]), SameColumns(r.cols, s.cols),
         s.in_integer_block <=> M!Contains(F[i], "INTORG"),
         s.section = "COLUMNS" <=> r.section = "COLUMNS",
         s.section = "BOUNDS" <=> r.section = "BOUNDS"
  PROVE  Following(s, i + 1, f, F, B, C, o)
<1>1. i + 1 \in 1..(Len(f) + 1) /\ i \in Nat /\ i # 0 /\ \A k \in 1..(i + 1 - 1) : ~Ended(f, F, k)
  BY PlaceMoves
<1>2. B \in SUBSET Nat /\ C \in SUBSET Nat
  OBVIOUS
<1>3. s.cols \in Seq(ColumnFields)
  BY DEF MpsReaders, MpsMembers
<1>4. /\ s.section = "COLUMNS" <=> Under(f, F, "COLUMNS", i + 1)
      /\ s.section = "BOUNDS" <=> Under(f, F, "BOUNDS", i + 1)
  BY <1>1, UnderStep DEF Following
<1>5. s.in_integer_block <=> Marked(C, F, i + 1)
  BY <1>1, <1>2, MarkedStep
<1>6. Known(s.cols, B, C, F, o, i + 1)
  BY <1>1, <1>2, <1>3, QuietIsKnown DEF Following
<1> QED
  BY <1>1, <1>4, <1>5, <1>6 DEF Following

\* A card of coefficients.
LEMMA ColumnsCardFollows ==
  ASSUME NEW f \in Seq(Lines), NEW F, NEW B \in SUBSET (DOMAIN f), NEW C \in SUBSET (DOMAIN f), NEW o,
         NEW r, NEW i \in 1..Len(f), Following(r, i, f, F, B, C, o), ~Ended(f, F, i),
         NEW s \in MpsReaders,
         ~f[i].header, i \notin B, i \in C, ~M!IsMarker(F[i]),
         s.in_integer_block = r.in_integer_block,
         s.section = "COLUMNS" <=> r.section = "COLUMNS",
         s.section = "BOUNDS" <=> r.section = "BOUNDS",
         NEW name \in STRING, name = F[i][1], Len(s.cols) = Len(With(r.cols, name)),
         \A j \in 1..Len(s.cols) :
           LET w == With(r.cols, name)[j]
           IN  /\ s.cols[j].name = w.name /\ s.cols[j].lower = w.lower /\ s.cols[j].upper = w.upper
               /\ s.cols[j].integer <=> w.integer \/ (w.name = name /\ r.in_integer_block)
  PROVE  Following(s, i + 1, f, F, B, C, o)
<1>1. i + 1 \in 1..(Len(f) + 1) /\ i \in Nat /\ i # 0 /\ \A k \in 1..(i + 1 - 1) : ~Ended(f, F, k)
  BY PlaceMoves
<1>2. B \in SUBSET Nat /\ C \in SUBSET Nat
  OBVIOUS
<1>3. s.cols \in Seq(ColumnFields)
  BY DEF MpsReaders, MpsMembers
<1>4. /\ s.section = "COLUMNS" <=> Under(f, F, "COLUMNS", i + 1)
      /\ s.section = "BOUNDS" <=> Under(f, F, "BOUNDS", i + 1)
  BY <1>1, UnderStep DEF Following
<1>5. s.in_integer_block <=> Marked(C, F, i + 1)
  BY <1>1, <1>2, MarkedStep DEF Following
<1>6. Known(s.cols, B, C, F, o, i + 1)
  <2> DEFINE p == r.cols
             q == s.cols
  <2>1. Known(p, B, C, F, o, i) /\ (r.in_integer_block <=> Marked(C, F, i))
    BY DEF Following
  <2>2. \A j \in 1..Len(q) :
           LET w == With(p, name)[j]
           IN  /\ q[j].name = w.name /\ q[j].lower = w.lower /\ q[j].upper = w.upper
               /\ q[j].integer <=> w.integer \/ (w.name = name /\ Marked(C, F, i))
    BY <2>1
  <2>3. Len(q) = Len(With(p, name)) /\ q \in Seq(ColumnFields)
    BY <1>3
  <2> HIDE DEF p, q
  <2>4. Known(q, B, C, F, o, i + 1)
    BY <1>2, <2>1, <2>2, <2>3, ColumnsCardIsKnown
  <2> QED
    BY <2>4 DEF q
<1> QED
  BY <1>1, <1>4, <1>5, <1>6 DEF Following

\* The columns q are p and the one of the card t, with the bound it gives.
Bounded(p, q, o, t, name) ==
  /\ Len(q) = Len(With(p, name))
  /\ \A j \in 1..Len(q) :
       LET w == With(p, name)[j]
       IN  IF w.name = name
           THEN /\ q[j].name = w.name /\ q[j].lower = LowerAfter(o, t, w.lower)
                /\ q[j].upper = UpperAfter(t, w.upper)
                /\ q[j].integer <=> w.integer \/ MakesIntegral(t)
           ELSE q[j] = w

\* A card of a bound.
LEMMA BoundsCardFollows ==
  ASSUME NEW f \in Seq(Lines), NEW F, NEW B \in SUBSET (DOMAIN f), NEW C \in SUBSET (DOMAIN f), NEW o,
         NEW r, NEW i \in 1..Len(f), Following(r, i, f, F, B, C, o), ~Ended(f, F, i),
         NEW s \in MpsReaders,
         ~f[i].header, i \in B, i \notin C, s.in_integer_block = r.in_integer_block,
         s.section = "COLUMNS" <=> r.section = "COLUMNS",
         s.section = "BOUNDS" <=> r.section = "BOUNDS",
         NEW name \in STRING, name = M!BoundedColumn(F[i]), Bounded(r.cols, s.cols, o, F[i], name)
  PROVE  Following(s, i + 1, f, F, B, C, o)
<1>1. i + 1 \in 1..(Len(f) + 1) /\ i \in Nat /\ i # 0 /\ \A k \in 1..(i + 1 - 1) : ~Ended(f, F, k)
  BY PlaceMoves
<1>2. B \in SUBSET Nat /\ C \in SUBSET Nat
  OBVIOUS
<1>3. s.cols \in Seq(ColumnFields)
  BY DEF MpsReaders, MpsMembers
<1>4. /\ s.section = "COLUMNS" <=> Under(f, F, "COLUMNS", i + 1)
      /\ s.section = "BOUNDS" <=> Under(f, F, "BOUNDS", i + 1)
  BY <1>1, UnderStep DEF Following
<1>5. s.in_integer_block <=> Marked(C, F, i + 1)
  BY <1>1, <1>2, MarkedStep DEF Following
<1>6. Known(s.cols, B, C, F, o, i + 1)
  <2> DEFINE p == r.cols
             q == s.cols
  <2>1. Known(p, B, C, F, o, i)
    BY DEF Following
  <2>2. \A j \in 1..Len(q) :
           LET w == With(p, name)[j]
           IN  IF w.name = name
               THEN /\ q[j].name = w.name /\ q[j].lower = LowerAfter(o, F[i], w.lower)
                    /\ q[j].upper = UpperAfter(F[i], w.upper)
                    /\ q[j].integer <=> w.integer \/ MakesIntegral(F[i])
               ELSE q[j] = w
    BY DEF Bounded
  <2>3. Len(q) = Len(With(p, name)) /\ q \in Seq(ColumnFields)
    BY <1>3 DEF Bounded
  <2> HIDE DEF p, q
  <2>4. Known(q, B, C, F, o, i + 1)
    BY <1>2, <2>1, <2>2, <2>3, BoundsCardIsKnown
  <2> QED
    BY <2>4 DEF q
<1> QED
  BY <1>1, <1>4, <1>5, <1>6 DEF Following

(***************************************************************************)
(* The file that is read                                                   *)
(***************************************************************************)

TheFields == [i \in DOMAIN file |-> M!Fields(i)]
BoundsCards == M!Cards("BOUNDS")
ColumnsCards == M!Cards("COLUMNS")

\* The reader follows the file up to the next line, and one that has read
\* that line too.
Follows == Following(reader, at, file, TheFields, BoundsCards, ColumnsCards, Frees)
FollowsOn(s) == Following(s, at + 1, file, TheFields, BoundsCards, ColumnsCards, Frees)

LEMMA CardsInFile ==
  /\ BoundsCards \in SUBSET (DOMAIN file) /\ ColumnsCards \in SUBSET (DOMAIN file)
  /\ BoundsCards' \in SUBSET (DOMAIN file') /\ ColumnsCards' \in SUBSET (DOMAIN file')
BY DEF BoundsCards, ColumnsCards, M!Cards, M!Visible

\* The line that is read next.
LEMMA NextLine ==
  ASSUME file \in Seq(Lines), Follows, M!Reading
  PROVE  /\ at \in 1..Len(file) /\ at \in Int /\ TheFields[at] = M!Tokens /\ M!Tokens \in Seq(STRING)
         /\ ~Ended(file, TheFields, at) /\ reader \in MpsReaders /\ at \in M!Visible
         /\ file[at].header => M!Tokens # <<>>
         /\ \A section : at \in M!Cards(section) <=>
              ~file[at].header /\ M!Tokens # <<>> /\ Under(file, TheFields, section, at)
         /\ at \in BoundsCards <=>
              ~file[at].header /\ M!Tokens # <<>> /\ reader.section = "BOUNDS"
         /\ at \in ColumnsCards <=>
              ~file[at].header /\ M!Tokens # <<>> /\ reader.section = "COLUMNS"
<1>1. Len(file) \in Nat /\ DOMAIN file = 1..Len(file) /\ at \in 1..(Len(file) + 1)
  BY DEF Follows, Following
<1>2. at \in 1..Len(file) /\ ~(file[at].header /\ M!Tokens[1] = "ENDATA")
  BY <1>1 DEF M!Reading, M!AtEnd
<1>3. /\ \A k \in 1..at : k \in DOMAIN file /\ TheFields[k] = M!Fields(k)
      /\ TheFields[at] = M!Tokens
  BY <1>1, <1>2 DEF TheFields, M!Tokens
<1>4. file[at] \in Lines
  BY <1>2
<1>5. M!Tokens \in Seq(STRING) /\ (file[at].header => M!Tokens # <<>>)
  <2>1. file[at].free \in Seq(Tokens) \ {<<>>} /\ file[at].fixed \in Seq(Tokens)
    BY <1>4 DEF Lines
  <2>2. \A t \in Seq(Tokens) : t \in Seq(STRING)
    <3>1. TAKE t \in Seq(Tokens)
    <3>2. Len(t) \in Nat /\ t \in [1..Len(t) -> Tokens]
      OBVIOUS
    <3>3. t \in [1..Len(t) -> STRING]
      BY <3>2, Zenon DEF Tokens
    <3> QED
      BY <3>2, <3>3
  <2> QED
    BY <2>1, <2>2 DEF M!Tokens, M!Fields
<1>6. ~Ended(file, TheFields, at)
  BY <1>2, <1>3 DEF Ended
<1>7. at \in M!Visible
  <2>1. \A k \in 1..at : k \in 1..(at - 1) \/ k = at
    BY <1>2
  <2>2. \A k \in 1..at : ~Ended(file, TheFields, k)
    BY <1>6, <2>1 DEF Follows, Following
  <2> QED
    BY <1>1, <1>2, <1>3, <2>2 DEF M!Visible, Ended
<1>8. ASSUME NEW section
      PROVE  at \in M!Cards(section) <=>
               ~file[at].header /\ M!Tokens # <<>> /\ Under(file, TheFields, section, at)
  <2>1. CASE file[at].header \/ M!Tokens = <<>>
    BY <2>1 DEF M!Cards, M!Tokens
  <2>2. CASE ~file[at].header /\ M!Tokens # <<>>
    <3> DEFINE InCards == \E h \in 1..at : /\ file[h].header /\ M!Fields(h)[1] = section
                                         /\ \A k \in (h + 1)..at : ~file[k].header
    <3>1. at \in M!Cards(section) <=> InCards
      BY <1>7, <2>2 DEF M!Cards, M!Tokens
    <3>2. \A h \in 1..(at - 1) : h \in 1..at /\ \A k \in (h + 1)..at : k \in (h + 1)..(at - 1) \/ k = at
      BY <1>2
    <3>3. \A h \in 1..at : h # at =>
            h \in 1..(at - 1) /\ \A k \in (h + 1)..(at - 1) : k \in (h + 1)..at
      BY <1>2
    <3>4. InCards => Under(file, TheFields, section, at)
      <4> SUFFICES ASSUME NEW h \in 1..at, file[h].header, M!Fields(h)[1] = section,
                          \A k \in (h + 1)..at : ~file[k].header
                   PROVE  Under(file, TheFields, section, at)
        OBVIOUS
      <4>1. h # at
        BY <2>2
      <4> QED
        BY <1>3, <3>3, <4>1 DEF Under
    <3>5. Under(file, TheFields, section, at) => InCards
      <4> SUFFICES ASSUME NEW h \in 1..(at - 1), file[h].header, TheFields[h][1] = section,
                          \A k \in (h + 1)..(at - 1) : ~file[k].header
                   PROVE  InCards
        BY DEF Under
      <4>1. \A k \in (h + 1)..at : ~file[k].header
        BY <2>2, <3>2
      <4> QED
        BY <1>3, <3>2, <4>1
    <3> HIDE DEF InCards
    <3> QED
      BY <2>2, <3>1, <3>4, <3>5
  <2> QED
    BY <2>1, <2>2
<1>9. /\ reader.section = "COLUMNS" <=> Under(file, TheFields, "COLUMNS", at)
      /\ reader.section = "BOUNDS" <=> Under(file, TheFields, "BOUNDS", at)
      /\ reader \in MpsReaders
  BY DEF Follows, Following
<1>10. at \in Int
  BY <1>2
<1> QED
  BY <1>2, <1>3, <1>5, <1>6, <1>7, <1>8, <1>9, <1>10 DEF BoundsCards, ColumnsCards

\* A line that leaves the columns alone.
LEMMA KeptFollows ==
  ASSUME file \in Seq(Lines), Follows, M!Reading, NEW s, ~file[at].header,
         M!Tokens = <<>> \/ reader.section \notin {"COLUMNS", "BOUNDS"},
         s \in MpsReaders, SameColumns(reader.cols, s.cols),
         s.in_integer_block = reader.in_integer_block,
         s.section = "COLUMNS" <=> reader.section = "COLUMNS",
         s.section = "BOUNDS" <=> reader.section = "BOUNDS"
  PROVE  FollowsOn(s)
<1>1. at \in 1..Len(file) /\ ~Ended(file, TheFields, at) /\ at \notin BoundsCards /\ at \notin ColumnsCards
  BY NextLine
<1> QED
  BY <1>1, CardsInFile, QuietFollows DEF Follows, FollowsOn

\* A header.
LEMMA HeadFollows ==
  ASSUME file \in Seq(Lines), Follows, M!Reading, NEW s, file[at].header,
         s \in MpsReaders, s.cols = reader.cols, s.in_integer_block = reader.in_integer_block,
         s.section = "COLUMNS" <=> M!Tokens[1] = "COLUMNS",
         s.section = "BOUNDS" <=> M!Tokens[1] = "BOUNDS"
  PROVE  FollowsOn(s)
<1>1. /\ at \in 1..Len(file) /\ ~Ended(file, TheFields, at) /\ at \notin BoundsCards
      /\ at \notin ColumnsCards /\ TheFields[at] = M!Tokens
  BY NextLine
<1>2. SameColumns(reader.cols, s.cols)
  BY DEF SameColumns
<1> QED
  BY <1>1, <1>2, CardsInFile, HeaderFollows DEF Follows, FollowsOn

\* A direction for the objective, on a card or in the header.
LEMMA ObjSenseDoes ==
  ASSUME NEW r \in MpsReaders, NEW token, ~M!apply_objsense(r, token).error
  PROVE  LET s == M!apply_objsense(r, token)
         IN  /\ s \in MpsReaders /\ s.cols = r.cols /\ s.in_integer_block = r.in_integer_block
             /\ s.section = "None" /\ SameTable(r, s) /\ s.warnings = r.warnings
<1>1. r \in MpsMembers
  BY DEF MpsReaders
<1>2. token \in DOMAIN M!Directions
  <2>1. M!Failed(r).error
    BY <1>1 DEF M!Failed, MpsMembers
  <2> QED
    BY <2>1 DEF M!apply_objsense
<1> DEFINE d == M!Directions[token]
           m == [r EXCEPT !.sense = d]
           none == "None"
           s == [m EXCEPT !.section = none]
<1>3. d \in {"Minimize", "Maximize"}
  BY <1>2 DEF M!Directions
<1>4. M!apply_objsense(r, token) = s
  BY <1>2 DEF M!apply_objsense
<1>5. none \in SectionNames
  BY DEF SectionNames
<1> HIDE DEF d, none
<1>6. /\ m \in MpsReaders /\ m.cols = r.cols /\ m.in_integer_block = r.in_integer_block
      /\ SameTable(r, m) /\ m.warnings = r.warnings
  BY <1>1, <1>3, MembersReplaced DEF MpsMembers, SameTable
<1>7. m \in MpsMembers
  BY <1>6 DEF MpsReaders
<1> HIDE DEF m
<1>8. s \in MpsReaders
  BY <1>5, <1>6, MembersReplaced
<1>9. /\ s.cols = m.cols /\ s.in_integer_block = m.in_integer_block /\ s.section = none
      /\ SameTable(m, s) /\ s.warnings = m.warnings
  BY <1>7 DEF MpsMembers, SameTable
<1>10. SameTable(r, s)
  BY <1>6, <1>9 DEF SameTable
<1> QED
  BY <1>4, <1>6, <1>8, <1>9, <1>10 DEF none

\* A new section for a reader.
LEMMA SectionDoes ==
  ASSUME NEW r \in MpsReaders, NEW section \in SectionNames
  PROVE  LET s == [r EXCEPT !.section = section]
         IN  /\ s \in MpsReaders /\ s.cols = r.cols /\ s.in_integer_block = r.in_integer_block
             /\ s.section = section /\ SameTable(r, s) /\ s.warnings = r.warnings
<1>1. r \in MpsMembers
  BY DEF MpsReaders
<1> QED
  BY <1>1, MembersReplaced DEF MpsMembers, SameTable

\* The reader takes a line, or throws.
Takes(s) ==
  /\ reader' = s /\ at' = at + 1 /\ FollowsOn(s)
  /\ UNCHANGED <<file, opt, fixed, matrix, outcome>>

LEMMA HeaderTakes ==
  ASSUME file \in Seq(Lines), Follows, M!Header
  PROVE  M!Throw \/ \E s : Takes(s)
<1> DEFINE head == M!Tokens[1]
           inner == [reader EXCEPT !.section = head]
           sensed == [reader EXCEPT !.section = "OBJSENSE"]
           told == M!apply_objsense(reader, M!Tokens[2])
           ignored == [M!warn(reader) EXCEPT !.section = "Ignored"]
<1>1. M!Reading /\ file[at].header
  BY DEF M!Header
<1>2. reader \in MpsReaders /\ at \in Int
  BY <1>1, NextLine
<1>3. ASSUME NEW s, M!Continue(s), ~s.error => FollowsOn(s) PROVE M!Throw \/ \E u : Takes(u)
  BY <1>3 DEF M!Continue, Takes
<1>4. CASE head \in M!Sections /\ M!Continue(inner)
  <2>1. head \in SectionNames
    BY <1>4 DEF SectionNames
  <2>2. /\ inner \in MpsReaders /\ inner.cols = reader.cols
        /\ inner.in_integer_block = reader.in_integer_block /\ inner.section = head
    <3> HIDE DEF head
    <3> QED
      BY <1>2, <2>1, SectionDoes
  <2> HIDE DEF inner
  <2>3. FollowsOn(inner)
    BY <1>1, <2>2, HeadFollows
  <2> QED
    BY <1>3, <1>4, <2>3
<1>5. CASE head \in M!ObjSenseHeads /\ M!Continue(sensed)
  <2>1. "OBJSENSE" \in SectionNames
    BY DEF SectionNames
  <2>2. /\ sensed \in MpsReaders /\ sensed.cols = reader.cols
        /\ sensed.in_integer_block = reader.in_integer_block /\ sensed.section = "OBJSENSE"
    BY <1>2, <2>1, SectionDoes
  <2>3. head # "COLUMNS" /\ head # "BOUNDS"
    BY <1>5 DEF M!ObjSenseHeads
  <2> HIDE DEF sensed
  <2>4. FollowsOn(sensed)
    BY <1>1, <2>2, <2>3, HeadFollows
  <2> QED
    BY <1>3, <1>5, <2>4
<1>6. CASE head \in M!ObjSenseHeads /\ M!Continue(told)
  <2>1. head # "COLUMNS" /\ head # "BOUNDS"
    BY <1>6 DEF M!ObjSenseHeads
  <2>2. ~told.error => FollowsOn(told)
    <3> SUFFICES ASSUME ~told.error PROVE FollowsOn(told)
      OBVIOUS
    <3>1. /\ told \in MpsReaders /\ told.cols = reader.cols
          /\ told.in_integer_block = reader.in_integer_block /\ told.section = "None"
      BY <1>2, ObjSenseDoes
    <3> HIDE DEF told
    <3> QED
      BY <1>1, <2>1, <3>1, HeadFollows
  <2> HIDE DEF told
  <2> QED
    BY <1>3, <1>6, <2>2
<1>7. CASE head \notin M!Sections \cup M!ObjSenseHeads /\ M!Continue(ignored)
  <2>1. head # "COLUMNS" /\ head # "BOUNDS"
    BY <1>7 DEF M!Sections
  <2>2. "Ignored" \in SectionNames
    BY DEF SectionNames
  <2> DEFINE w == M!warn(reader)
  <2>3. w \in MpsReaders /\ w.cols = reader.cols /\ w.in_integer_block = reader.in_integer_block
    <3>1. Keeps(reader, w) /\ reader \in MpsMembers
      BY <1>2, WarnKeeps DEF MpsReaders
    <3> QED
      BY <3>1 DEF Keeps, KeepsColumns, M!warn, MpsMembers
  <2>4. ignored = [w EXCEPT !.section = "Ignored"]
    OBVIOUS
  <2> HIDE DEF w, ignored
  <2>5. /\ ignored \in MpsReaders /\ ignored.cols = reader.cols
        /\ ignored.in_integer_block = reader.in_integer_block /\ ignored.section = "Ignored"
    BY <2>2, <2>3, <2>4, SectionDoes
  <2>6. FollowsOn(ignored)
    BY <1>1, <2>1, <2>5, HeadFollows
  <2> QED
    BY <1>3, <1>7, <2>6
<1>8. \/ head \in M!Sections /\ M!Continue(inner)
      \/ head \in M!ObjSenseHeads /\ M!Continue(sensed)
      \/ head \in M!ObjSenseHeads /\ M!Continue(told)
      \/ head \notin M!Sections \cup M!ObjSenseHeads /\ M!Continue(ignored)
  BY DEF M!Header
<1> QED
  BY <1>4, <1>5, <1>6, <1>7, <1>8

\* A card of a section that says nothing about columns.
LEMMA KeptCardTakes ==
  ASSUME file \in Seq(Lines), Follows, M!Reading, ~file[at].header,
         reader.section \notin {"COLUMNS", "BOUNDS"} \/ M!Tokens = <<>>,
         NEW s, M!Continue(s), s.error \/ KeepsColumns(reader, s)
  PROVE  M!Throw \/ \E u : Takes(u)
<1>1. CASE s.error
  BY <1>1 DEF M!Continue
<1>2. CASE ~s.error
  <2>1. /\ s \in MpsReaders /\ SameColumns(reader.cols, s.cols) /\ s.section = reader.section
        /\ s.in_integer_block = reader.in_integer_block
    BY <1>2 DEF Keeps, KeepsColumns
  <2>2. FollowsOn(s)
    BY <2>1, KeptFollows
  <2> QED
    BY <1>2, <2>2 DEF M!Continue, Takes
<1> QED
  BY <1>1, <1>2

LEMMA KeptCardsTake ==
  ASSUME file \in Seq(Lines), Follows,
         M!RowsCard \/ M!RhsCard \/ M!RangesCard \/ M!SkippedCard
  PROVE  M!Throw \/ \E s : Takes(s)
<1>1. M!Reading /\ ~file[at].header
  BY DEF M!RowsCard, M!RhsCard, M!RangesCard, M!SkippedCard, M!Card
<1>2. reader \in MpsReaders /\ at \in Int /\ M!Tokens \in Seq(STRING)
  BY <1>1, NextLine
<1>3. CASE M!RowsCard
  <2> DEFINE s == M!handle_rows(reader, M!Tokens)
  <2>1. KeepsColumns(reader, s)
    BY <1>2, RowsKeep
  <2>2. reader.section \notin {"COLUMNS", "BOUNDS"} /\ M!Continue(s)
    BY <1>3 DEF M!RowsCard, M!Card
  <2> HIDE DEF s
  <2> QED
    BY <1>1, <2>1, <2>2, KeptCardTakes
<1>4. CASE M!RhsCard
  <2> DEFINE s == M!handle_rhs(reader, M!Tokens)
  <2>1. KeepsColumns(reader, s)
    BY <1>2, SidesKeep DEF Keeps
  <2>2. reader.section \notin {"COLUMNS", "BOUNDS"} /\ M!Continue(s)
    BY <1>4 DEF M!RhsCard, M!Card
  <2> HIDE DEF s
  <2> QED
    BY <1>1, <2>1, <2>2, KeptCardTakes
<1>5. CASE M!RangesCard
  <2> DEFINE s == M!handle_ranges(reader, M!Tokens)
  <2>1. KeepsColumns(reader, s)
    BY <1>2, SidesKeep DEF Keeps
  <2>2. reader.section \notin {"COLUMNS", "BOUNDS"} /\ M!Continue(s)
    BY <1>5 DEF M!RangesCard, M!Card
  <2> HIDE DEF s
  <2> QED
    BY <1>1, <2>1, <2>2, KeptCardTakes
<1>6. CASE M!SkippedCard
  <2>1. KeepsColumns(reader, reader)
    BY <1>2, KeepsIfSame DEF Keeps
  <2>2. M!Continue(reader) /\ (reader.section \notin {"COLUMNS", "BOUNDS"} \/ M!Tokens = <<>>)
    BY <1>6 DEF M!SkippedCard, M!Card
  <2> QED
    BY <1>1, <2>1, <2>2, KeptCardTakes
<1> QED
  BY <1>3, <1>4, <1>5, <1>6

LEMMA ObjSenseCardTakes ==
  ASSUME file \in Seq(Lines), Follows, M!ObjSenseCard
  PROVE  M!Throw \/ \E s : Takes(s)
<1> DEFINE s == M!apply_objsense(reader, M!Tokens[1])
<1>1. M!Reading /\ ~file[at].header /\ reader.section = "OBJSENSE" /\ M!Continue(s)
  BY DEF M!ObjSenseCard, M!Card
<1>2. reader \in MpsReaders
  BY <1>1, NextLine
<1>3. CASE s.error
  BY <1>1, <1>3 DEF M!Continue
<1>4. CASE ~s.error
  <2>1. /\ s \in MpsReaders /\ s.cols = reader.cols /\ s.in_integer_block = reader.in_integer_block
        /\ s.section = "None"
    BY <1>2, <1>4, ObjSenseDoes
  <2> HIDE DEF s
  <2>2. SameColumns(reader.cols, s.cols)
    BY <2>1 DEF SameColumns
  <2>3. reader.section \notin {"COLUMNS", "BOUNDS"} /\ s.section # "COLUMNS" /\ s.section # "BOUNDS"
    BY <1>1, <2>1
  <2>4. FollowsOn(s)
    BY <1>1, <2>1, <2>2, <2>3, KeptFollows
  <2> QED
    BY <1>1, <1>4, <2>4 DEF M!Continue, Takes
<1> QED
  BY <1>3, <1>4

LEMMA ColumnsCardTakes ==
  ASSUME file \in Seq(Lines), Follows, M!ColumnsCard
  PROVE  M!Throw \/ \E s : Takes(s)
<1> DEFINE t == M!Tokens
           s == M!handle_columns(reader, t)
<1>1. /\ M!Reading /\ ~file[at].header /\ t # <<>> /\ reader.section = "COLUMNS"
      /\ M!Continue(s)
  BY DEF M!ColumnsCard, M!Card
<1>2. /\ reader \in MpsReaders /\ at \in 1..Len(file) /\ TheFields[at] = t /\ t \in Seq(STRING)
      /\ ~Ended(file, TheFields, at) /\ at \notin BoundsCards /\ at \in ColumnsCards
  BY <1>1, NextLine
<1>3. CASE s.error
  BY <1>1, <1>3 DEF M!Continue
<1>4. CASE ~s.error /\ M!IsMarker(t)
  <2> DEFINE b == M!Contains(t, "INTORG")
             m == [reader EXCEPT !.in_integer_block = b]
  <2>1. s = m /\ b \in BOOLEAN
    BY <1>4 DEF M!handle_columns, M!Contains
  <2>2. reader \in MpsMembers
    BY <1>2 DEF MpsReaders
  <2> HIDE DEF b
  <2>3. m \in MpsReaders /\ m.cols = reader.cols /\ m.section = reader.section /\ m.in_integer_block = b
    BY <1>2, <2>1, <2>2, MembersReplaced DEF MpsMembers
  <2>4. SameColumns(reader.cols, m.cols)
    BY <2>3 DEF SameColumns
  <2> HIDE DEF m, s, t
  <2>5. FollowsOn(m)
    BY <1>1, <1>2, <1>4, <2>3, <2>4, CardsInFile, MarkerFollows DEF Follows, FollowsOn, b
  <2> QED
    BY <1>1, <1>4, <2>1, <2>5 DEF M!Continue, Takes
<1>5. CASE ~s.error /\ ~M!IsMarker(t)
  <2> DEFINE name == t[1]
             q == With(reader.cols, name)
  <2>1. Distinct(reader.cols)
    BY DEF Follows, Following, Known
  <2>2. /\ s \in MpsReaders /\ s.section = reader.section
        /\ s.in_integer_block = reader.in_integer_block /\ name \in STRING /\ Len(s.cols) = Len(q)
        /\ \A j \in 1..Len(q) :
             /\ s.cols[j].name = q[j].name /\ s.cols[j].lower = q[j].lower
             /\ s.cols[j].upper = q[j].upper
             /\ s.cols[j].integer <=> q[j].integer \/ (q[j].name = name /\ reader.in_integer_block)
    BY <1>2, <1>5, <2>1, ColumnsCardDoes
  <2>3. name = TheFields[at][1]
    BY <1>2
  <2>4. Follows /\ ~M!IsMarker(TheFields[at])
    BY <1>2, <1>5
  <2> HIDE DEF s, t, name
  <2>5. \A j \in 1..Len(s.cols) :
          LET w == With(reader.cols, name)[j]
          IN  /\ s.cols[j].name = w.name /\ s.cols[j].lower = w.lower /\ s.cols[j].upper = w.upper
              /\ s.cols[j].integer <=> w.integer \/ (w.name = name /\ reader.in_integer_block)
    BY <2>2
  <2>6. Len(s.cols) = Len(With(reader.cols, name))
    BY <2>2
  <2> HIDE DEF q
  <2>7. Following(s, at + 1, file, TheFields, BoundsCards, ColumnsCards, Frees)
    <3>1. /\ s.section = "COLUMNS" <=> reader.section = "COLUMNS"
          /\ s.section = "BOUNDS" <=> reader.section = "BOUNDS"
          /\ s \in MpsReaders /\ s.in_integer_block = reader.in_integer_block /\ name \in STRING
      BY <2>2
    <3> QED
      BY <1>1, <1>2, <2>3, <2>4, <2>5, <2>6, <3>1, CardsInFile, ColumnsCardFollows DEF Follows
  <2>8. FollowsOn(s)
    BY <2>7 DEF FollowsOn
  <2> QED
    BY <1>1, <1>5, <2>8 DEF M!Continue, Takes
<1> QED
  BY <1>3, <1>4, <1>5

LEMMA BoundsCardTakes ==
  ASSUME file \in Seq(Lines), Follows, M!BoundsCard
  PROVE  M!Throw \/ \E s : Takes(s)
<1> DEFINE t == M!Tokens
           s == M!handle_bounds(reader, t)
<1>1. /\ M!Reading /\ ~file[at].header /\ t # <<>> /\ reader.section = "BOUNDS"
      /\ M!Continue(s)
  BY DEF M!BoundsCard, M!Card
<1>2. /\ reader \in MpsReaders /\ at \in 1..Len(file) /\ TheFields[at] = t /\ t \in Seq(STRING)
      /\ ~Ended(file, TheFields, at) /\ at \in BoundsCards /\ at \notin ColumnsCards /\ at \in Int
  BY <1>1, NextLine
<1>3. CASE s.error
  BY <1>1, <1>3 DEF M!Continue
<1>4. CASE ~s.error
  <2> DEFINE name == M!BoundedColumn(t)
             q == With(reader.cols, name)
  <2>1. Distinct(reader.cols)
    BY DEF Follows, Following, Known
  <2>2. /\ s \in MpsReaders /\ s.section = reader.section
        /\ s.in_integer_block = reader.in_integer_block /\ name \in STRING /\ Len(s.cols) = Len(q)
        /\ \A j \in 1..Len(q) :
             IF q[j].name = name
             THEN /\ s.cols[j].name = q[j].name /\ s.cols[j].lower = LowerAfter(Frees, t, q[j].lower)
                  /\ s.cols[j].upper = UpperAfter(t, q[j].upper)
                  /\ s.cols[j].integer <=> q[j].integer \/ MakesIntegral(t)
             ELSE s.cols[j] = q[j]
    BY <1>2, <1>4, <2>1, BoundsCardDoes
  <2>3. name = M!BoundedColumn(TheFields[at])
    BY <1>2
  <2>4. TheFields[at] = t
    BY <1>2
  <2> HIDE DEF s, t, name
  <2>5. \A j \in 1..Len(s.cols) :
          LET w == With(reader.cols, name)[j]
          IN  IF w.name = name
              THEN /\ s.cols[j].name = w.name /\ s.cols[j].lower = LowerAfter(Frees, TheFields[at], w.lower)
                   /\ s.cols[j].upper = UpperAfter(TheFields[at], w.upper)
                   /\ s.cols[j].integer <=> w.integer \/ MakesIntegral(TheFields[at])
              ELSE s.cols[j] = w
    BY <2>2, <2>4
  <2>6. Len(s.cols) = Len(With(reader.cols, name))
    BY <2>2
  <2>7. Following(s, at + 1, file, TheFields, BoundsCards, ColumnsCards, Frees)
    <3>1. /\ s.section = "COLUMNS" <=> reader.section = "COLUMNS"
          /\ s.section = "BOUNDS" <=> reader.section = "BOUNDS"
          /\ s \in MpsReaders /\ s.in_integer_block = reader.in_integer_block /\ name \in STRING
      BY <2>2
    <3>2. Bounded(reader.cols, s.cols, Frees, TheFields[at], name)
      BY <2>5, <2>6 DEF Bounded
    <3> HIDE DEF q
    <3> QED
      BY <1>1, <1>2, <2>3, <3>1, <3>2, CardsInFile, BoundsCardFollows DEF Follows
  <2>8. FollowsOn(s)
    BY <2>7 DEF FollowsOn
  <2> QED
    BY <1>1, <1>4, <2>8 DEF M!Continue, Takes
<1> QED
  BY <1>3, <1>4

\* All lines that are read stand before the end.
LEMMA LinesBeforeEnd ==
  ASSUME file \in Seq(Lines), Follows, M!AtEnd, NEW c \in M!Visible
  PROVE  c < at /\ c < Len(file) + 1
<1>1. Len(file) \in Nat /\ DOMAIN file = 1..Len(file) /\ at \in 1..(Len(file) + 1)
  BY DEF Follows, Following
<1>2. c \in 1..Len(file) /\ \A k \in 1..c : ~(file[k].header /\ M!Fields(k)[1] = "ENDATA")
  BY <1>1 DEF M!Visible
<1>3. at \in 1..Len(file) => file[at].header /\ M!Fields(at)[1] = "ENDATA"
  BY <1>1 DEF M!AtEnd, M!Tokens
<1>4. at <= c => at \in 1..c /\ at \in 1..Len(file)
  BY <1>1, <1>2
<1>5. ~(at <= c)
  BY <1>2, <1>3, <1>4
<1> QED
  BY <1>1, <1>2, <1>5

\* All cards stand before the end.
LEMMA LaterTells ==
  ASSUME NEW B, NEW C, NEW F, NEW o, NEW i, NEW n, NEW p, Tells(p, B, C, F, o, i),
         \A c \in B \cup C : c < i /\ c < n
  PROVE  Tells(p, B, C, F, o, n)
<1>1. \A name : About(B, F, name, i) = About(B, F, name, n)
  BY DEF About
<1>2. ASSUME NEW name PROVE Lower(B, F, o, name, i) = Lower(B, F, o, name, n)
  <2>1. About(B, F, name, i) = About(B, F, name, n)
    BY <1>1
  <2> QED
    BY <2>1 DEF Lower
<1>3. \A name : Upper(B, F, name, i) = Upper(B, F, name, n)
  BY <1>1 DEF Upper
<1>4. \A name : Integral(B, C, F, name, i) <=> Integral(B, C, F, name, n)
  BY <1>1 DEF Integral
<1> QED
  BY <1>2, <1>3, <1>4 DEF Tells

\* What the columns of a problem are, by the whole file.
Told ==
  /\ reader.cols \in Seq(ColumnFields)
  /\ Tells(reader.cols, BoundsCards, ColumnsCards, TheFields, Frees, Len(file) + 1)

LEMMA EndTells ==
  ASSUME file \in Seq(Lines), Follows, M!AtEnd
  PROVE  Told
<1>1. Len(file) \in Nat /\ DOMAIN file = 1..Len(file) /\ at \in 1..(Len(file) + 1)
  BY DEF Follows, Following
<1>2. ASSUME NEW c \in BoundsCards \cup ColumnsCards PROVE c < at /\ c < Len(file) + 1
  BY LinesBeforeEnd DEF BoundsCards, ColumnsCards, M!Cards
<1>3. /\ reader.cols \in Seq(ColumnFields)
      /\ Tells(reader.cols, BoundsCards, ColumnsCards, TheFields, Frees, at)
  BY DEF Follows, Following, Known
<1> QED
  BY <1>2, <1>3, LaterTells DEF Told

\* The inductive invariant: the reader's columns are at every line what the
\* cards before it say, and at the end what all cards do.
ReaderInv ==
  /\ format # "lp" => file \in Seq(Lines)
  /\ format = "none" => at = 1
  /\ format = "mps" /\ outcome = "reading" => Follows
  /\ format = "mps" /\ outcome = "read" => Told

LEMMA SameFile ==
  ASSUME file' = file, fixed' = fixed, opt' = opt
  PROVE  /\ TheFields' = TheFields /\ BoundsCards' = BoundsCards /\ ColumnsCards' = ColumnsCards
         /\ Frees' = Frees
BY DEF TheFields, BoundsCards, ColumnsCards, Frees, M!Cards, M!Visible, M!Fields

LEMMA NewReaderFollows ==
  ASSUME file' \in Seq(Lines), reader' = M!NewReader, at' = 1
  PROVE  Follows'
<1>1. Following(M!NewReader, 1, file', TheFields', BoundsCards', ColumnsCards', Frees')
  BY CardsInFile, NewFollows
<1> QED
  BY <1>1 DEF Follows

LEMMA ThrowKeeps ==
  ASSUME ReaderInv, format = "mps", format' = "mps", outcome = "reading", M!Throw
  PROVE  ReaderInv'
<1>1. file' \in Seq(Lines)
  BY DEF ReaderInv, M!Throw
<1>2. outcome' = "failed" \/ (outcome' = "reading" /\ reader' = M!NewReader /\ at' = 1)
  BY DEF M!Throw
<1> QED
  BY <1>1, <1>2, NewReaderFollows DEF ReaderInv

LEMMA TakesKeeps ==
  ASSUME ReaderInv, format = "mps", format' = "mps", outcome = "reading", NEW s, Takes(s)
  PROVE  ReaderInv'
<1>1. file' = file /\ file \in Seq(Lines) /\ outcome' = "reading" /\ reader' = s /\ at' = at + 1
  BY DEF Takes, ReaderInv
<1>2. /\ TheFields' = TheFields /\ BoundsCards' = BoundsCards /\ ColumnsCards' = ColumnsCards
      /\ Frees' = Frees
  BY SameFile DEF Takes
<1>3. FollowsOn(s)
  BY DEF Takes
<1>4. Follows'
  BY <1>1, <1>2, <1>3 DEF Follows, FollowsOn
<1> QED
  BY <1>1, <1>4 DEF ReaderInv

LEMMA FinishKeeps ==
  ASSUME ReaderInv, format = "mps", format' = "mps", M!Finish
  PROVE  ReaderInv'
<1>1. outcome = "reading" /\ M!AtEnd /\ file \in Seq(Lines) /\ Follows
  BY DEF M!Finish, ReaderInv
<1>2. CASE M!Throw
  BY <1>1, <1>2, ThrowKeeps
<1>3. CASE /\ reader' = M!Announced(reader) /\ outcome' = "read"
           /\ UNCHANGED <<file, opt, fixed, at>>
  <2>1. Told
    BY <1>1, EndTells
  <2>2. /\ TheFields' = TheFields /\ BoundsCards' = BoundsCards /\ ColumnsCards' = ColumnsCards
        /\ Frees' = Frees
    BY <1>3, SameFile
  <2>3. reader \in MpsMembers
    BY <1>1 DEF Follows, Following, MpsReaders
  <2>4. reader'.cols = reader.cols
    BY <1>3, <2>3 DEF M!Announced, MpsMembers
  <2>5. Told'
    BY <1>3, <2>1, <2>2, <2>4 DEF Told
  <2> QED
    BY <1>1, <1>3, <2>5 DEF ReaderInv
<1> QED
  BY <1>2, <1>3 DEF M!Finish

LEMMA MpsKeeps ==
  ASSUME ReaderInv, ReadMps
  PROVE  ReaderInv'
<1>1. format = "mps" /\ format' = "mps" /\ M!Next /\ file \in Seq(Lines)
  BY DEF ReadMps, ReaderInv
<1>2. CASE M!Finish
  BY <1>1, <1>2, FinishKeeps
<1>3. CASE ~M!Finish
  <2>1. outcome = "reading"
    BY <1>1, MpsStep
  <2>2. Follows
    BY <1>1, <2>1 DEF ReaderInv
  <2>3. M!Throw \/ \E s : Takes(s)
    <3>1. CASE M!Header
      BY <1>1, <2>2, <3>1, HeaderTakes
    <3>2. CASE M!RowsCard \/ M!RhsCard \/ M!RangesCard \/ M!SkippedCard
      BY <1>1, <2>2, <3>2, KeptCardsTake
    <3>3. CASE M!ObjSenseCard
      BY <1>1, <2>2, <3>3, ObjSenseCardTakes
    <3>4. CASE M!ColumnsCard
      BY <1>1, <2>2, <3>4, ColumnsCardTakes
    <3>5. CASE M!BoundsCard
      BY <1>1, <2>2, <3>5, BoundsCardTakes
    <3>6. CASE M!StrayCard
      BY <3>6 DEF M!StrayCard
    <3> QED
      BY <1>1, <1>3, <3>1, <3>2, <3>3, <3>4, <3>5, <3>6 DEF M!Next
  <2> QED
    BY <1>1, <2>1, <2>3, ThrowKeeps, TakesKeeps
<1> QED
  BY <1>2, <1>3

LEMMA ReaderInvInit == Init => ReaderInv
<1> SUFFICES ASSUME Init PROVE ReaderInv
  OBVIOUS
<1>1. PICK k \in DOMAIN Jobs : job \in Jobs[k]
  BY DEF Init
<1>2. file \in Seq(Lines)
  BY <1>1, FilesAssumption DEF Init
<1>3. CASE format = "mps"
  <2>1. reader = M!NewReader /\ at = 1 /\ outcome = "reading"
    BY <1>3 DEF Init
  <2>2. BoundsCards \in SUBSET (DOMAIN file) /\ ColumnsCards \in SUBSET (DOMAIN file)
    BY CardsInFile
  <2>3. Following(M!NewReader, 1, file, TheFields, BoundsCards, ColumnsCards, Frees)
    BY <1>2, <2>2, NewFollows
  <2> QED
    BY <1>2, <1>3, <2>1, <2>3 DEF ReaderInv, Follows
<1>4. CASE format = "none"
  BY <1>2, <1>4 DEF ReaderInv, Init
<1> QED
  BY <1>3, <1>4 DEF Init

LEMMA ReaderInvUnchanged == ReaderInv /\ UNCHANGED vars => ReaderInv'
<1> SUFFICES ASSUME ReaderInv, UNCHANGED vars PROVE ReaderInv'
  OBVIOUS
<1>1. /\ file' = file /\ fixed' = fixed /\ opt' = opt /\ format' = format /\ outcome' = outcome
      /\ at' = at /\ reader' = reader
  BY DEF vars
<1>2. /\ TheFields' = TheFields /\ BoundsCards' = BoundsCards /\ ColumnsCards' = ColumnsCards
      /\ Frees' = Frees
  BY <1>1, SameFile
<1>3. (Follows' <=> Follows) /\ (Told' <=> Told)
  BY <1>1, <1>2 DEF Follows, Told
<1> QED
  BY <1>1, <1>3 DEF ReaderInv

LEMMA ReaderInvStep ==
  ReaderInv /\ [Reads]_vars => ReaderInv'
<1> SUFFICES ASSUME ReaderInv, [Reads]_vars PROVE ReaderInv'
  OBVIOUS
<1>1. CASE Choose
  <2>1. /\ format = "none" /\ file' = file /\ at' = at
        /\ \/ format' = "mps" /\ reader' = M!NewReader
           \/ format' = "lp"
           \/ format' = "none" /\ outcome' = "failed"
    BY <1>1 DEF Choose
  <2>2. file' \in Seq(Lines) /\ at' = 1
    BY <2>1 DEF ReaderInv
  <2>3. CASE format' = "mps" /\ reader' = M!NewReader
    <3>1. outcome' = "reading"
      BY <1>1, <2>3 DEF Choose
    <3> QED
      BY <2>2, <2>3, <3>1, NewReaderFollows DEF ReaderInv
  <2> QED
    BY <2>1, <2>2, <2>3 DEF ReaderInv
<1>2. CASE ReadMps
  BY <1>2, MpsKeeps
<1>3. CASE ReadLp
  BY <1>3 DEF ReadLp, ReaderInv
<1>4. CASE UNCHANGED vars
  BY <1>4, ReaderInvUnchanged
<1> QED
  BY <1>1, <1>2, <1>3, <1>4 DEF Reads

\* The columns are those of the table that the whole file gives.
\* The lower bound before a line is the one that is stated.
LEMMA LowerIsStated ==
  ASSUME file \in Seq(Lines), NEW name, NEW n
  PROVE  M!LowerBefore(name, n) = Lower(BoundsCards, TheFields, Frees, name, n)
<1> DEFINE B == BoundsCards
           F == TheFields
           A == About(B, F, name, n)
           Q == M!BoundCards(name)
           G == {c \in A : M!GivesLower(F[c])}
           G2 == {c \in Q : c < n /\ M!GivesLower(M!Fields(c))}
           freed == \E c \in A : /\ \A g \in G : g < c
                                 /\ F[c][1] = "UP" /\ M!ValueOf(F[c]) < 0
           freed2 == \E c \in Q : /\ c < n /\ \A g \in G2 : g < c
                                  /\ M!Fields(c)[1] = "UP" /\ M!ValueOf(M!Fields(c)) < 0
           given == IF G = {} THEN 0 ELSE M!LowerGiven(F[M!Max(G)])
           given2 == IF G2 = {} THEN 0 ELSE M!LowerGiven(M!Fields(M!Max(G2)))
<1>1. B \in SUBSET (1..Len(file)) /\ Len(file) \in Nat /\ \A c \in B : F[c] = M!Fields(c)
  <2>1. B \in SUBSET (DOMAIN file) /\ DOMAIN file = 1..Len(file) /\ Len(file) \in Nat
    BY CardsInFile
  <2> QED
    BY <2>1 DEF TheFields
<1>2. Q = {c \in B : M!BoundedColumn(M!Fields(c)) = name}
  BY DEF M!BoundCards, BoundsCards
<1>3. A = {c \in B : c < n /\ M!BoundedColumn(F[c]) = name}
  BY DEF About
<1> HIDE DEF B, F, A, Q
<1>4. A \in SUBSET B /\ (\A c : c \in A <=> c \in Q /\ c < n) /\ \A c \in A : F[c] = M!Fields(c)
  BY <1>1, <1>2, <1>3
<1>5. G = G2
  BY <1>4
<1>6. G # {} => F[M!Max(G)] = M!Fields(M!Max(G))
  <2>1. G \in SUBSET (1..Len(file)) /\ G \in SUBSET A
    BY <1>1, <1>4
  <2> HIDE DEF G
  <2>2. G # {} => Max(G) \in G
    BY <1>1, <2>1, MaxIsElement
  <2>3. Max(G) = M!Max(G)
    BY DEF M!Max, Max
  <2> QED
    BY <1>4, <2>1, <2>2, <2>3
<1>7. freed <=> freed2
  BY <1>4, <1>5
<1>8. given = given2
  BY <1>5, <1>6
<1>9. Lower(BoundsCards, TheFields, Frees, name, n)
        = IF given = 0 /\ freed /\ Frees THEN -kInfinity ELSE given
  BY DEF Lower, A, B, F
<1>10. M!LowerBefore(name, n) = IF given2 = 0 /\ freed2 /\ Frees THEN -kInfinity ELSE given2
  BY DEF M!LowerBefore, Frees, Q
<1> HIDE DEF given, given2, freed, freed2
<1> QED
  BY <1>7, <1>8, <1>9, <1>10

LEMMA ToldIsTheProperty == ReaderInv => BoundsFollowTheCards
<1> SUFFICES ASSUME ReaderInv, format = "mps", outcome = "read" PROVE M!BoundsFollowTheCards
  BY DEF BoundsFollowTheCards, M!BoundsFollowTheCards
<1> DEFINE B == BoundsCards
           C == ColumnsCards
           F == TheFields
           n == Len(file) + 1
<1>1. file \in Seq(Lines) /\ Told
  BY DEF ReaderInv
<1>2. /\ B \in SUBSET (DOMAIN file) /\ C \in SUBSET (DOMAIN file) /\ DOMAIN file = 1..Len(file)
      /\ Len(file) \in Nat
  BY <1>1, CardsInFile
<1>3. \A c \in B \cup C : c \in Int /\ c < n /\ F[c] = M!Fields(c)
  BY <1>2 DEF TheFields
<1>4. \A T \in SUBSET B : T # {} => M!Max(T) \in T
  <2> SUFFICES ASSUME NEW T \in SUBSET B, T # {} PROVE M!Max(T) \in T
    OBVIOUS
  <2>1. T \in SUBSET (1..Len(file))
    BY <1>2
  <2>2. Max(T) \in T
    BY <1>2, <2>1, MaxIsElement
  <2> QED
    BY <2>2 DEF M!Max, Max
<1>5. \A name : M!BoundCards(name) = About(B, F, name, n)
  BY <1>3 DEF M!BoundCards, About, BoundsCards
<1>6. \A name : M!LowerBefore(name, n) = Lower(B, F, Frees, name, n)
  BY <1>1, LowerIsStated
<1>7. ASSUME NEW name
      PROVE  LET givers == {c \in M!BoundCards(name) : M!GivesUpper(M!Fields(c))}
             IN  Upper(B, F, name, n) =
                   IF givers = {} THEN kInfinity ELSE M!UpperGiven(M!Fields(M!Max(givers)))
  <2> DEFINE A == About(B, F, name, n)
             U == {c \in A : M!GivesUpper(F[c])}
             U2 == {c \in A : M!GivesUpper(M!Fields(c))}
  <2>1. A \in SUBSET B /\ \A c \in A : F[c] = M!Fields(c)
    BY <1>3 DEF About
  <2>2. M!BoundCards(name) = A
    BY <1>5
  <2>3. Upper(B, F, name, n) = IF U = {} THEN kInfinity ELSE M!UpperGiven(F[M!Max(U)])
    BY DEF Upper
  <2> HIDE DEF A
  <2>4. U = U2
    BY <2>1
  <2>5. U # {} => F[M!Max(U)] = M!Fields(M!Max(U))
    BY <1>4, <2>1
  <2> QED
    BY <2>2, <2>3, <2>4, <2>5
<1>8. ASSUME NEW name
      PROVE  LET marked(c) == \E m \in C : /\ m < c /\ M!IsMarker(M!Fields(m))
                                          /\ M!Contains(M!Fields(m), "INTORG")
                                          /\ \A k \in C : M!IsMarker(M!Fields(k)) => k <= m \/ k > c
             IN  Integral(B, C, F, name, n) <=>
                   \/ \E c \in M!BoundCards(name) : M!Fields(c)[1] \in {"BV", "LI", "UI"}
                   \/ \E c \in C : ~M!IsMarker(M!Fields(c)) /\ M!Fields(c)[1] = name /\ marked(c)
  <2>1. ASSUME NEW c \in C, ~M!IsMarker(F[c])
        PROVE  Marked(C, F, c) <=>
                 \E m \in C : /\ m < c /\ M!IsMarker(M!Fields(m)) /\ M!Contains(M!Fields(m), "INTORG")
                             /\ \A k \in C : M!IsMarker(M!Fields(k)) => k <= m \/ k > c
    <3>1. \A k \in C : M!IsMarker(F[k]) => k # c /\ k \in Int /\ c \in Int
      BY <1>3, <2>1
    <3>2. \A k \in C : M!IsMarker(F[k]) => (k >= c <=> k > c)
      BY <3>1
    <3> QED
      BY <1>3, <3>2 DEF Marked
  <2>2. (\E c \in About(B, F, name, n) : MakesIntegral(F[c]))
          <=> \E c \in M!BoundCards(name) : M!Fields(c)[1] \in {"BV", "LI", "UI"}
    BY <1>3, <1>5 DEF MakesIntegral, About
  <2> QED
    BY <1>3, <2>1, <2>2 DEF Integral
<1>9. ASSUME NEW j \in 1..Len(reader.cols)
      PROVE  /\ reader.cols[j].lower = Lower(B, F, Frees, reader.cols[j].name, n)
             /\ reader.cols[j].upper = Upper(B, F, reader.cols[j].name, n)
             /\ reader.cols[j].integer <=> Integral(B, C, F, reader.cols[j].name, n)
  BY <1>1 DEF Told, Tells
<1>10. DOMAIN reader.cols = 1..Len(reader.cols)
  BY <1>1 DEF Told
<1>11. ASSUME NEW j \in DOMAIN reader.cols
       PROVE  LET col == reader.cols[j]
                  givers == {c \in M!BoundCards(col.name) : M!GivesUpper(M!Fields(c))}
                  marked(c) == \E m \in M!Cards("COLUMNS") :
                                 /\ m < c /\ M!IsMarker(M!Fields(m)) /\ M!Contains(M!Fields(m), "INTORG")
                                 /\ \A k \in M!Cards("COLUMNS") :
                                      M!IsMarker(M!Fields(k)) => k <= m \/ k > c
              IN  /\ col.lower = M!LowerBefore(col.name, Len(file) + 1)
                  /\ col.upper = IF givers = {} THEN kInfinity ELSE M!UpperGiven(M!Fields(M!Max(givers)))
                  /\ col.integer <=>
                       \/ \E c \in M!BoundCards(col.name) : M!Fields(c)[1] \in {"BV", "LI", "UI"}
                       \/ \E c \in M!Cards("COLUMNS") :
                            ~M!IsMarker(M!Fields(c)) /\ M!Fields(c)[1] = col.name /\ marked(c)
  <2>1. j \in 1..Len(reader.cols)
    BY <1>10
  <2> QED
    BY <1>6, <1>7, <1>8, <1>9, <2>1 DEF ColumnsCards
<1> QED
  BY <1>11 DEF M!BoundsFollowTheCards

LEMMA ReaderInvHolds == ReadSpec => []ReaderInv
BY ReaderInvInit, ReaderInvStep, PTL DEF ReadSpec

\* Each bound and kind of a column is what the last card about it says, for
\* every file: handle_columns and apply_bound leave the columns at each line
\* as the lines before it say.
THEOREM BoundsFollowed == ReadSpec => []BoundsFollowTheCards
BY ReaderInvHolds, ToldIsTheProperty, PTL

(***************************************************************************)
(* What a file says of its rows                                            *)
(***************************************************************************)

\* The lines of a file, the cards of its sections, and the option that keeps
\* free rows.
PairSections == {"COLUMNS", "RHS", "RANGES"}
CardSections == PairSections \cup {"ROWS", "BOUNDS"}
IsSheet(W) ==
  /\ W.lines \in Nat
  /\ W.cards \in [CardSections -> SUBSET (1..W.lines)]
  /\ \A s, t \in CardSections : \A i \in W.cards[s] : i \in W.cards[t] => s = t
  /\ W.F \in [1..W.lines -> Seq(STRING)]
  /\ \A i \in 1..W.lines : \A k \in 1..Len(W.F[i]) : W.F[i][k] # ""
  /\ W.keep \in BOOLEAN

PairsOf(W, section, i) ==
  IF section = "COLUMNS" THEN M!Pairs(W.F[i], 2) ELSE M!PairsAfterSetName(W.F[i])
PairCardsOf(W, section) == {i \in W.cards[section] : section = "COLUMNS" => ~M!IsMarker(W.F[i])}
PlacesIn(W, section) == UNION {{i} \X DOMAIN PairsOf(W, section, i) : i \in PairCardsOf(W, section)}
NamedAt(W, section, m) == PairsOf(W, section, m[1])[m[2]][1]
ValueAt(W, section, m) == Number[PairsOf(W, section, m[1])[m[2]][2]]
MentionsOf(W, section, name) == {m \in PlacesIn(W, section) : NamedAt(W, section, m) = name}

\* A line of a sheet.
LEMMA LineOfSheet ==
  ASSUME NEW W, IsSheet(W)
  PROVE  /\ \A section \in CardSections : \A i \in W.cards[section] :
              i \in 1..W.lines /\ i \in Nat /\ i >= 1
         /\ \A i \in 1..W.lines : /\ W.F[i] \in Seq(STRING) /\ Len(W.F[i]) \in Nat
                                  /\ \A k \in 1..Len(W.F[i]) : W.F[i][k] \in STRING /\ W.F[i][k] # ""
<1>1. ASSUME NEW section \in CardSections, NEW i \in W.cards[section]
      PROVE  i \in 1..W.lines /\ i \in Nat /\ i >= 1
  <2> DEFINE A == W.cards
             n == W.lines
  <2>1. A \in [CardSections -> SUBSET (1..n)] /\ n \in Nat /\ i \in A[section]
    BY <1>1 DEF IsSheet
  <2> HIDE DEF A, n
  <2>2. i \in 1..n
    BY <2>1
  <2> QED
    BY <2>1, <2>2 DEF n
<1>2. ASSUME NEW i \in 1..W.lines
      PROVE  /\ W.F[i] \in Seq(STRING) /\ Len(W.F[i]) \in Nat
             /\ \A k \in 1..Len(W.F[i]) : W.F[i][k] \in STRING /\ W.F[i][k] # ""
  <2> DEFINE f == W.F
             t == f[i]
  <2>1. f \in [1..W.lines -> Seq(STRING)] /\ \A k \in 1..Len(t) : t[k] # ""
    BY DEF IsSheet
  <2> HIDE DEF f
  <2>2. t \in Seq(STRING)
    BY <2>1
  <2> HIDE DEF t
  <2>3. Len(t) \in Nat /\ \A k \in 1..Len(t) : t[k] \in STRING
    BY <2>2
  <2> QED
    BY <2>1, <2>2, <2>3 DEF t, f
<1> QED
  BY <1>1, <1>2

\* The tokens that make the k-th pair.
LEMMA PairTokens ==
  ASSUME NEW l \in Nat, NEW b \in 1..2, NEW d, d = (l - b + 1) \div 2
  PROVE  d \in Int /\ \A k \in 1..d : k \in Nat /\ k >= 1 /\ b + 2 * k - 2 \in 1..l
<1> DEFINE n == l - b + 1
<1>1. n \in Int
  OBVIOUS
<1>2. d = n \div 2
  OBVIOUS
<1> HIDE DEF n
<1>3. d \in Int /\ 2 * d <= n
  BY <1>1, <1>2
<1>4. ASSUME NEW k \in 1..d PROVE k \in Nat /\ k >= 1 /\ b + 2 * k - 2 \in 1..l
  <2>1. 2 * d <= l - b + 1
    BY <1>3 DEF n
  <2> QED
    BY <1>3, <2>1
<1> QED
  BY <1>3, <1>4

\* The pairs of a line are two tokens each.
LEMMA PairsOfLine ==
  ASSUME NEW W, IsSheet(W), NEW section \in PairSections, NEW i \in 1..W.lines
  PROVE  /\ \E K \in Int : DOMAIN PairsOf(W, section, i) = 1..K
         /\ \A k \in DOMAIN PairsOf(W, section, i) :
              k \in Nat /\ k >= 1 /\ PairsOf(W, section, i)[k][1] \in STRING
              /\ PairsOf(W, section, i)[k][1] # ""
<1> DEFINE t == W.F[i]
           l == Len(t)
           b == IF section = "COLUMNS" THEN 2 ELSE IF l % 2 = 1 THEN 2 ELSE 1
           d == (l - b + 1) \div 2
<1>1. l \in Nat /\ \A k \in 1..l : t[k] \in STRING /\ t[k] # ""
  BY LineOfSheet
<1>2. PairsOf(W, section, i) = M!Pairs(t, b)
  BY DEF PairsOf, M!PairsAfterSetName
<1>3. b \in 1..2
  OBVIOUS
<1>4. M!Pairs(t, b) = [k \in 1..d |-> <<t[b + 2 * k - 2], t[b + 2 * k - 1]>>]
  BY DEF M!Pairs
<1>5. d = (l - b + 1) \div 2
  OBVIOUS
<1> HIDE DEF t, b, l, d
<1>6. d \in Int /\ \A k \in 1..d : k \in Nat /\ k >= 1 /\ b + 2 * k - 2 \in 1..l
  BY <1>1, <1>3, <1>5, PairTokens
<1>7. DOMAIN M!Pairs(t, b) = 1..d /\ \A k \in 1..d : M!Pairs(t, b)[k][1] = t[b + 2 * k - 2]
  BY <1>4
<1> QED
  BY <1>1, <1>2, <1>6, <1>7

\* A place is a pair of a card.
LEMMA PlaceIsPair ==
  ASSUME NEW W, IsSheet(W), NEW section \in PairSections
  PROVE  /\ \A m \in PlacesIn(W, section) :
              /\ m[1] \in PairCardsOf(W, section) /\ m[2] \in DOMAIN PairsOf(W, section, m[1])
              /\ m = <<m[1], m[2]>> /\ m[1] \in Nat /\ m[2] \in Nat /\ m[2] >= 1 /\ m[1] \in W.cards[section]
         /\ \A i \in PairCardsOf(W, section) : \A k \in DOMAIN PairsOf(W, section, i) :
              <<i, k>> \in PlacesIn(W, section)
<1>1. ASSUME NEW i \in PairCardsOf(W, section), NEW k \in DOMAIN PairsOf(W, section, i)
      PROVE  i \in Nat /\ k \in Nat /\ k >= 1 /\ i \in W.cards[section]
  <2>1. i \in W.cards[section] /\ section \in CardSections
    BY <1>1 DEF PairCardsOf, CardSections
  <2>2. i \in 1..W.lines /\ i \in Nat
    BY <2>1, LineOfSheet
  <2> QED
    BY <1>1, <2>1, <2>2, PairsOfLine
<1> DEFINE D(i) == DOMAIN PairsOf(W, section, i)
           C == PairCardsOf(W, section)
<1>2. PlacesIn(W, section) = UNION {{i} \X D(i) : i \in C}
  BY DEF PlacesIn
<1>3. \A i \in C : \A k \in D(i) : i \in Nat /\ k \in Nat /\ k >= 1 /\ i \in W.cards[section]
  BY <1>1
<1> HIDE DEF D, C
<1>4. \A m \in PlacesIn(W, section) : m[1] \in C /\ m[2] \in D(m[1]) /\ m = <<m[1], m[2]>>
  BY <1>2
<1>5. \A i \in C : \A k \in D(i) : <<i, k>> \in PlacesIn(W, section)
  BY <1>2
<1> QED
  BY <1>3, <1>4, <1>5 DEF D, C

\* The places up to the k-th pair of line i.
Places(W) == PlacesIn(W, "COLUMNS") \cup PlacesIn(W, "RHS") \cup PlacesIn(W, "RANGES")
DoneTo(W, i, k) == {m \in Places(W) : m[1] < i \/ (m[1] = i /\ m[2] <= k)}

\* One pair more is done.
Adds(D, E, m) == E = D \cup {m} /\ m \notin D /\ \A n \in D : M!Before(n, m)

LEMMA PairIsDone ==
  ASSUME NEW W, IsSheet(W), NEW section \in PairSections, NEW i \in PairCardsOf(W, section),
         NEW K \in Nat, DOMAIN PairsOf(W, section, i) = 1..K
  PROVE  /\ \A k \in 1..K : Adds(DoneTo(W, i, k - 1), DoneTo(W, i, k), <<i, k>>)
         /\ DoneTo(W, i + 1, 0) = DoneTo(W, i, K)
<1>1. \A m \in Places(W) : m[1] \in Nat /\ m[2] \in Nat /\ m = <<m[1], m[2]>>
  BY PlaceIsPair DEF Places, PairSections
<1>2. i \in Nat /\ \A k \in 1..K : <<i, k>> \in Places(W)
  <2>1. \A k \in 1..K : <<i, k>> \in PlacesIn(W, section)
    BY PlaceIsPair
  <2>2. i \in Nat
    <3>1. i \in W.cards[section] /\ section \in CardSections
      BY DEF PairCardsOf, CardSections
    <3> QED
      BY <3>1, LineOfSheet
  <2> QED
    BY <2>1, <2>2 DEF Places, PairSections
<1>3. \A m \in Places(W) : m[1] = i => m[2] \in 1..K
  <2> SUFFICES ASSUME NEW m \in Places(W), m[1] = i PROVE m[2] \in 1..K
    OBVIOUS
  <2>1. PICK s \in PairSections : m \in PlacesIn(W, s)
    BY DEF Places, PairSections
  <2>2. m[2] \in DOMAIN PairsOf(W, s, i) /\ i \in W.cards[s]
    BY <2>1, PlaceIsPair
  <2>3. i \in W.cards[section] /\ section \in CardSections /\ s \in CardSections
    BY DEF PairCardsOf, CardSections
  <2>4. s = section
    BY <2>2, <2>3 DEF IsSheet
  <2> QED
    BY <2>2, <2>4
<1>4. ASSUME NEW k \in 1..K PROVE Adds(DoneTo(W, i, k - 1), DoneTo(W, i, k), <<i, k>>)
  <2>1. \A m \in Places(W) : m[1] = i /\ m[2] = k <=> m = <<i, k>>
    BY <1>1
  <2>2. \A m \in Places(W) : m[1] = i => (m[2] <= k <=> m[2] <= k - 1 \/ m[2] = k)
    BY <1>1
  <2>3. DoneTo(W, i, k) = DoneTo(W, i, k - 1) \cup {<<i, k>>}
    BY <1>2, <2>1, <2>2 DEF DoneTo
  <2>4. \A m \in DoneTo(W, i, k - 1) : M!Before(m, <<i, k>>) /\ m # <<i, k>>
    BY <1>1, <1>2 DEF DoneTo, M!Before
  <2> QED
    BY <2>3, <2>4 DEF Adds
<1>5. DoneTo(W, i + 1, 0) = DoneTo(W, i, K)
  <2>1. \A m \in Places(W) : m[1] < i + 1 \/ (m[1] = i + 1 /\ m[2] <= 0)
                               <=> m[1] < i \/ (m[1] = i /\ m[2] <= K)
    <3> SUFFICES ASSUME NEW m \in Places(W)
                 PROVE  m[1] < i + 1 \/ (m[1] = i + 1 /\ m[2] <= 0)
                          <=> m[1] < i \/ (m[1] = i /\ m[2] <= K)
      OBVIOUS
    <3>1. ~(m[2] <= 0)
      <4>1. PICK s \in PairSections : m \in PlacesIn(W, s)
        BY DEF Places, PairSections
      <4>2. m[2] \in DOMAIN PairsOf(W, s, m[1])
        BY <4>1, PlaceIsPair
      <4>3. m[2] >= 1
        BY <4>1, PlaceIsPair
      <4> QED
        BY <1>1, <4>2, <4>3
    <3> QED
      BY <1>1, <1>2, <1>3, <3>1
  <2> QED
    BY <2>1 DEF DoneTo
<1> QED
  BY <1>4, <1>5

\* A line without pairs.
LEMMA NothingIsDone ==
  ASSUME NEW W, IsSheet(W), NEW i \in Nat, \A section \in PairSections : i \notin PairCardsOf(W, section)
  PROVE  DoneTo(W, i + 1, 0) = DoneTo(W, i, 0)
<1>1. ASSUME NEW m \in Places(W) PROVE m[1] \in Nat /\ m[2] \in Nat /\ m[1] # i /\ ~(m[2] <= 0)
  <2>1. PICK s \in PairSections : m \in PlacesIn(W, s)
    BY <1>1 DEF Places, PairSections
  <2>2. /\ m[2] \in DOMAIN PairsOf(W, s, m[1]) /\ m[1] \in PairCardsOf(W, s)
        /\ m[1] \in Nat /\ m[2] \in Nat
    BY <2>1, PlaceIsPair
  <2>3. m[2] >= 1
    BY <2>1, PlaceIsPair
  <2> QED
    BY <2>2, <2>3
<1>2. \A m \in Places(W) : m[1] < i + 1 \/ (m[1] = i + 1 /\ m[2] <= 0)
                             <=> m[1] < i \/ (m[1] = i /\ m[2] <= 0)
  BY <1>1
<1> QED
  BY <1>2 DEF DoneTo

\* The last of the mentions is the one that was added last.
LEMMA AddedIsLast ==
  ASSUME NEW T, NEW i \in Int, NEW k \in Int, \A n \in T : M!Before(n, <<i, k>>),
         \A n \in T : n[1] \in Int /\ n[2] \in Int
  PROVE  M!LastOf(T \cup {<<i, k>>}) = <<i, k>>
<1> DEFINE m == <<i, k>>
           U == T \cup {m}
<1>1. \A n \in U \ {m} : M!Before(n, m)
  OBVIOUS
<1>2. ASSUME NEW x \in U, \A n \in U \ {x} : M!Before(n, x) PROVE x = m
  <2>1. CASE x # m
    <3>1. M!Before(x, m) /\ M!Before(m, x) /\ x[1] \in Int /\ x[2] \in Int
      BY <1>1, <1>2, <2>1
    <3> QED
      BY <3>1 DEF M!Before
  <2> QED
    BY <2>1
<1> HIDE DEF m
<1>3. m \in U
  OBVIOUS
<1> HIDE DEF U
<1>4. M!LastOf(U) = m
  BY <1>1, <1>2, <1>3 DEF M!LastOf
<1> QED
  BY <1>4 DEF m, U

(***************************************************************************)
(* The rows that the cards declare                                         *)
(***************************************************************************)

NCardsOf(W) == {i \in W.cards["ROWS"] : W.F[i][1] = "N"}
ObjCard(W) == M!Min(NCardsOf(W))
RCardsOf(W) == {i \in W.cards["ROWS"] \ {ObjCard(W)} : W.F[i][1] # "N" \/ W.keep}
CardOf(W, q) == CHOOSE c \in RCardsOf(W) : Cardinality({d \in RCardsOf(W) : d <= c}) = q
Earlier(W, i) == {c \in RCardsOf(W) : c < i}

\* The objective's card is the first one of its type.
LEMMA ObjectiveIsFirst ==
  ASSUME NEW W, IsSheet(W), NCardsOf(W) # {}
  PROVE  /\ ObjCard(W) \in NCardsOf(W) /\ ObjCard(W) \in Nat
         /\ \A i \in NCardsOf(W) : ObjCard(W) <= i
<1> DEFINE T == NCardsOf(W)
           n == W.lines
<1>1. n \in Nat /\ T \in SUBSET (1..n) /\ T # {}
  BY LineOfSheet DEF IsSheet, NCardsOf, CardSections
<1> HIDE DEF T, n
<1>3. M!Min(T) \in T /\ \A j \in T : M!Min(T) <= j
  BY <1>1, MinIsElement
<1> QED
  BY <1>1, <1>3 DEF ObjCard, T, n

\* The rank of a card finds it.
LEMMA RankFinds ==
  ASSUME NEW W, IsSheet(W), NEW c \in RCardsOf(W)
  PROVE  /\ Cardinality(Earlier(W, c)) \in Nat
         /\ CardOf(W, Cardinality(Earlier(W, c)) + 1) = c
         /\ Cardinality(Earlier(W, c + 1)) = Cardinality(Earlier(W, c)) + 1
<1> DEFINE R == RCardsOf(W)
           n == W.lines
           Upto(d) == {e \in R : e <= d}
<1>1. n \in Nat /\ R \in SUBSET (1..n)
  BY LineOfSheet DEF IsSheet, RCardsOf, CardSections
<1>2. CardOf(W, Cardinality(Upto(c))) = CHOOSE d \in R : Cardinality(Upto(d)) = Cardinality(Upto(c))
  BY DEF CardOf
<1>3. Upto(c) = Earlier(W, c) \cup {c} /\ c \notin Earlier(W, c) /\ Earlier(W, c) \in SUBSET (1..n)
      /\ Earlier(W, c + 1) = Upto(c) /\ c \in R
  BY <1>1 DEF Earlier
<1> HIDE DEF R, n
<1>4. Cardinality(Earlier(W, c)) \in Nat /\ Cardinality(Upto(c)) = Cardinality(Earlier(W, c)) + 1
  <2>1. IsFiniteSet(1..n) 
    BY <1>1, FS_Interval
  <2>2. IsFiniteSet(Earlier(W, c))
    BY <1>3, <2>1, FS_Subset
  <2> HIDE DEF Upto
  <2> QED
    BY <1>3, <2>2, FS_AddElement, FS_CardinalityType
<1>5. ASSUME NEW d \in R, Cardinality(Upto(d)) = Cardinality(Upto(c)) PROVE d = c
  <2>1. ASSUME NEW a \in R, NEW b \in R, a < b PROVE Cardinality(Upto(a)) < Cardinality(Upto(b))
    <3>a. a \in Int /\ b \in Int /\ \A e \in R : e \in Int
      BY <1>1, <2>1
    <3>b. \A e \in R : (e <= a => e <= b) /\ b <= b /\ ~(b <= a)
      BY <2>1, <3>a
    <3>1. Upto(b) \in SUBSET (1..n) /\ Upto(a) \in SUBSET Upto(b) /\ b \in Upto(b) /\ b \notin Upto(a)
      BY <1>1, <2>1, <3>b
    <3> HIDE DEF Upto
    <3>2. Upto(a) # Upto(b)
      BY <3>1
    <3> QED
      BY <1>1, <3>1, <3>2, PartIsSmaller
  <2>2. d \in Int /\ c \in Int
    BY <1>1, <1>3
  <2>3. Cardinality(Upto(d)) \in Int /\ Cardinality(Upto(c)) \in Int
    BY <1>4, <1>5
  <2> HIDE DEF Upto
  <2>4. ~(d < c) /\ ~(c < d)
    BY <1>3, <1>5, <2>1, <2>3
  <2> QED
    BY <2>2, <2>4
<1> HIDE DEF Upto
<1>6. CardOf(W, Cardinality(Upto(c))) = c
  BY <1>2, <1>3, <1>5
<1> QED
  BY <1>3, <1>4, <1>6

\* What is declared on a card: a row's type and its name.
TypeOn(W, c) == W.F[c][1]
NameOn(W, c) == W.F[c][2]

\* The rows and names that the cards before line i declare.
RowsAre(r, W, i) ==
  /\ Len(r.rows) = Cardinality(Earlier(W, i))
  /\ \A q \in 1..Len(r.rows) :
       /\ CardOf(W, q) \in RCardsOf(W) /\ CardOf(W, q) < i
       /\ r.rows[q].name = NameOn(W, CardOf(W, q)) /\ r.row_sense[q] = TypeOn(W, CardOf(W, q))
  /\ \A p, q \in 1..Len(r.rows) : r.rows[p].name = r.rows[q].name => p = q
NamesAre(r, W, i) ==
  /\ IF ObjCard(W) < i THEN r.objective_name = NameOn(W, ObjCard(W)) /\ r.objective_name # ""
     ELSE r.objective_name = ""
  /\ \A name \in r.dropped_rows :
       \E c \in W.cards["ROWS"] \ {ObjCard(W)} : c < i /\ NameOn(W, c) = name

\* A card that declares no row.
LEMMA NoRowIsDeclared ==
  ASSUME NEW W, IsSheet(W), NEW i \in Nat, i \notin RCardsOf(W)
  PROVE  Earlier(W, i + 1) = Earlier(W, i)
<1>1. \A c \in RCardsOf(W) : c \in Nat /\ c # i
  BY LineOfSheet DEF RCardsOf, CardSections
<1>2. \A c \in RCardsOf(W) : c < i + 1 <=> c < i
  BY <1>1
<1> QED
  BY <1>2 DEF Earlier

\* What the members of a reader are that a row card declares a row to.
NewRow(r, s, type, name) ==
  /\ s.rows = Append(r.rows, [name |-> name, lower |-> M!Sides(type, 0)[1], upper |-> M!Sides(type, 0)[2]])
  /\ s.row_sense = Append(r.row_sense, type) /\ s.row_rhs = Append(r.row_rhs, 0)
  /\ s.objective_name = r.objective_name /\ s.dropped_rows = r.dropped_rows
  /\ s.warnings = r.warnings
SameRows(r, s) == s.rows = r.rows /\ s.row_sense = r.row_sense /\ s.row_rhs = r.row_rhs
SameRest(r, s) ==
  s.cols = r.cols /\ s.entries = r.entries /\ s.objective_constant = r.objective_constant

\* What a row card makes of a reader.
LEMMA RowsCardDoes ==
  ASSUME NEW r \in MpsReaders, NEW t \in Seq(STRING), NEW s, s = M!handle_rows(r, t), ~s.error
  PROVE  /\ ~r.error /\ Len(t) >= 2 /\ t[1] \in RowTypes /\ SameRest(r, s)
         /\ t[1] # "N" \/ (r.objective_name # "" /\ opt.keep_free_rows) =>
              M!find_row(r, t[2]) = 0 /\ NewRow(r, s, t[1], t[2])
         /\ t[1] = "N" /\ r.objective_name = "" =>
              /\ SameRows(r, s) /\ s.objective_name = t[2] /\ s.dropped_rows = r.dropped_rows
              /\ s.warnings = r.warnings
         /\ t[1] = "N" /\ r.objective_name # "" /\ ~opt.keep_free_rows =>
              /\ SameRows(r, s) /\ s.objective_name = r.objective_name
              /\ s.dropped_rows = r.dropped_rows \cup {t[2]}
              /\ s.warnings = Append(r.warnings, at)
<1>1. r \in MpsMembers
  BY DEF MpsReaders
<1>2. M!Failed(r).error
  BY <1>1 DEF M!Failed, MpsMembers
<1>3. ~(Len(t) < 2 \/ t[1] \notin RowTypes)
  BY <1>2 DEF M!handle_rows, RowTypes
<1>a. Len(t) >= 2 /\ t[1] \in RowTypes
  <2>1. Len(t) \in Nat
    OBVIOUS
  <2> QED
    BY <1>3, <2>1
<1>4. CASE t[1] # "N" \/ (r.objective_name # "" /\ opt.keep_free_rows)
  <2>1. s = M!record(r, t[1], t[2])
    BY <1>3, <1>4 DEF M!handle_rows, RowTypes
  <2>2. M!find_row(r, t[2]) = 0
    BY <1>2, <2>1 DEF M!record
  <2> DEFINE b == M!Sides(t[1], 0)
             rows == Append(r.rows, [name |-> t[2], lower |-> b[1], upper |-> b[2]])
             a == [r EXCEPT !.rows = rows]
             senses == Append(r.row_sense, t[1])
             rhss == Append(r.row_rhs, 0)
  <2>3. s = [M!add_row(r, t[2], b) EXCEPT !.row_sense = Append(@, t[1]), !.row_rhs = Append(@, 0)]
    BY <2>1, <2>2 DEF M!record
  <2>4. M!add_row(r, t[2], b) = a
    BY DEF M!add_row
  <2> HIDE DEF rows, b
  <2>5. s = [r EXCEPT !.rows = rows, !.row_sense = senses, !.row_rhs = rhss]
    BY <1>1, <2>3, <2>4 DEF MpsMembers
  <2> HIDE DEF senses, rhss
  <2>6. /\ s.rows = rows /\ s.row_sense = senses /\ s.row_rhs = rhss
        /\ s.objective_name = r.objective_name /\ s.dropped_rows = r.dropped_rows
        /\ s.warnings = r.warnings /\ s.error = r.error /\ SameRest(r, s)
    BY <1>1, <2>5 DEF MpsMembers, SameRest
  <2>7. NewRow(r, s, t[1], t[2])
    BY <2>6 DEF NewRow, rows, senses, rhss, b
  <2> QED
    BY <1>a, <1>4, <2>2, <2>6, <2>7
<1>5. CASE t[1] = "N" /\ r.objective_name = ""
  <2>1. s = [r EXCEPT !.objective_name = t[2]]
    BY <1>3, <1>5 DEF M!handle_rows, RowTypes
  <2>2. /\ s.objective_name = t[2] /\ s.dropped_rows = r.dropped_rows /\ SameRows(r, s)
        /\ s.warnings = r.warnings /\ s.error = r.error /\ SameRest(r, s)
    BY <1>1, <2>1 DEF MpsMembers, SameRest, SameRows
  <2> QED
    BY <1>a, <1>5, <2>2
<1>6. CASE t[1] = "N" /\ r.objective_name # "" /\ ~opt.keep_free_rows
  <2> DEFINE w == Append(r.warnings, at)
  <2>1. s = [[r EXCEPT !.warnings = w] EXCEPT !.dropped_rows = @ \cup {t[2]}]
    BY <1>3, <1>6 DEF M!handle_rows, RowTypes, M!warn
  <2> HIDE DEF w
  <2>2. /\ s.objective_name = r.objective_name /\ s.dropped_rows = r.dropped_rows \cup {t[2]}
        /\ s.warnings = w /\ s.error = r.error /\ SameRest(r, s) /\ SameRows(r, s)
    BY <1>1, <2>1 DEF MpsMembers, SameRest, SameRows
  <2> QED
    BY <1>a, <1>6, <2>2 DEF w
<1> QED
  BY <1>4, <1>5, <1>6

\* A row that is appended.
LEMMA RowIsAppended ==
  ASSUME NEW W, IsSheet(W), NEW i \in RCardsOf(W), NEW r \in MpsReaders, NEW s,
         RowsAre(r, W, i), NewRow(r, s, TypeOn(W, i), NameOn(W, i)), M!find_row(r, NameOn(W, i)) = 0
  PROVE  RowsAre(s, W, i + 1) /\ Len(s.rows) = Len(r.rows) + 1 /\ CardOf(W, Len(r.rows) + 1) = i
<1> DEFINE n == Len(r.rows)
           e == [name |-> NameOn(W, i), lower |-> M!Sides(TypeOn(W, i), 0)[1],
                 upper |-> M!Sides(TypeOn(W, i), 0)[2]]
<1>1. r \in MpsMembers /\ Len(r.row_sense) = n
  BY DEF MpsReaders
<1>2. n \in Nat /\ \A q \in 1..n : r.rows[q].name # NameOn(W, i)
  <2>1. r.rows \in Seq(RowFields)
    BY <1>1 DEF MpsMembers
  <2> QED
    BY <2>1, RowFound
<1>3. /\ Len(s.rows) = n + 1 /\ s.rows[n + 1].name = NameOn(W, i) /\ s.row_sense[n + 1] = TypeOn(W, i)
      /\ \A q \in 1..n : s.rows[q] = r.rows[q] /\ s.row_sense[q] = r.row_sense[q]
  <2>1. r.rows \in Seq(RowFields) /\ r.row_sense \in Seq(RowTypes)
    BY <1>1 DEF MpsMembers
  <2>2. s.rows = Append(r.rows, e) /\ e.name = NameOn(W, i) /\ s.row_sense = Append(r.row_sense, TypeOn(W, i))
    BY DEF NewRow
  <2> HIDE DEF e
  <2>3. Len(s.rows) = n + 1 /\ s.rows[n + 1] = e /\ \A q \in 1..n : s.rows[q] = r.rows[q]
    BY <1>2, <2>1, <2>2
  <2>4. s.row_sense[n + 1] = TypeOn(W, i) /\ \A q \in 1..n : s.row_sense[q] = r.row_sense[q]
    BY <1>1, <1>2, <2>1, <2>2
  <2> QED
    BY <2>2, <2>3, <2>4
<1>4. n = Cardinality(Earlier(W, i))
  BY DEF RowsAre
<1> HIDE DEF n
<1>5. CardOf(W, n + 1) = i /\ n + 1 = Cardinality(Earlier(W, i + 1))
  BY <1>4, RankFinds
<1>6. i \in Nat /\ \A c \in RCardsOf(W) : c \in Nat
  BY LineOfSheet DEF RCardsOf, CardSections
<1>7. \A q \in 1..(n + 1) : q = n + 1 \/ q \in 1..n
  BY <1>2
<1>8. \A q \in 1..n : /\ CardOf(W, q) \in RCardsOf(W) /\ CardOf(W, q) < i
                      /\ r.rows[q].name = NameOn(W, CardOf(W, q)) /\ r.row_sense[q] = TypeOn(W, CardOf(W, q))
  BY DEF RowsAre, n
<1>9. \A p, q \in 1..n : r.rows[p].name = r.rows[q].name => p = q
  BY DEF RowsAre, n
<1>10. ASSUME NEW q \in 1..(n + 1)
       PROVE  /\ CardOf(W, q) \in RCardsOf(W) /\ CardOf(W, q) < i + 1
              /\ s.rows[q].name = NameOn(W, CardOf(W, q)) /\ s.row_sense[q] = TypeOn(W, CardOf(W, q))
  <2>1. CASE q = n + 1
    BY <1>3, <1>5, <1>6, <2>1
  <2>2. CASE q \in 1..n
    <3>1. CardOf(W, q) \in RCardsOf(W) /\ CardOf(W, q) < i /\ CardOf(W, q) \in Nat
      BY <1>6, <1>8, <2>2
    <3>2. CardOf(W, q) < i + 1
      BY <1>6, <3>1
    <3> QED
      BY <1>3, <1>8, <2>2, <3>1, <3>2
  <2> QED
    BY <1>7, <2>1, <2>2
<1>11. \A p, q \in 1..(n + 1) : s.rows[p].name = s.rows[q].name => p = q
  BY <1>2, <1>3, <1>7, <1>9
<1> QED
  BY <1>3, <1>5, <1>10, <1>11 DEF RowsAre, n

\* The rows stay as they are.
LEMMA RowsStay ==
  ASSUME NEW W, IsSheet(W), NEW i \in Nat, i \notin RCardsOf(W), NEW r, NEW s, RowsAre(r, W, i), SameRows(r, s)
  PROVE  RowsAre(s, W, i + 1)
<1>1. Earlier(W, i + 1) = Earlier(W, i) /\ \A c \in RCardsOf(W) : c \in Nat
  BY NoRowIsDeclared, LineOfSheet DEF RCardsOf, CardSections
<1>2. \A c \in RCardsOf(W) : c < i => c < i + 1
  BY <1>1
<1> QED
  BY <1>1, <1>2 DEF RowsAre, SameRows

\* A row card declares a row, the objective, or a name that is dropped.
LEMMA RowsCardDeclares ==
  ASSUME NEW W, IsSheet(W), NCardsOf(W) # {}, W.keep = opt.keep_free_rows, NEW i \in W.cards["ROWS"],
         NEW r \in MpsReaders, RowsAre(r, W, i), NamesAre(r, W, i),
         NEW s, s = M!handle_rows(r, W.F[i]), ~s.error
  PROVE  /\ RowsAre(s, W, i + 1) /\ NamesAre(s, W, i + 1) /\ SameRest(r, s) /\ TypeOn(W, i) \in RowTypes
         /\ i \in RCardsOf(W) => /\ NewRow(r, s, TypeOn(W, i), NameOn(W, i)) /\ Len(s.rows) = Len(r.rows) + 1
                                 /\ CardOf(W, Len(r.rows) + 1) = i
         /\ i \notin RCardsOf(W) => SameRows(r, s)
         /\ s.warnings = IF i \in RCardsOf(W) \cup {ObjCard(W)} THEN r.warnings ELSE Append(r.warnings, at)
<1> DEFINE t == W.F[i]
           o == ObjCard(W)
<1>a. i \in 1..W.lines /\ i \in Nat
  BY LineOfSheet DEF CardSections
<1>1. t \in Seq(STRING) /\ Len(t) \in Nat /\ \A k \in 1..Len(t) : t[k] # ""
  BY <1>a, LineOfSheet
<1>b. t \in Seq(STRING)
  BY <1>1
<1>c. Len(t) \in Nat
  BY <1>1
<1>e. /\ t[1] = "N" /\ r.objective_name = "" =>
           /\ SameRows(r, s) /\ s.objective_name = t[2] /\ s.dropped_rows = r.dropped_rows
           /\ s.warnings = r.warnings
      /\ t[1] = "N" /\ r.objective_name # "" /\ ~opt.keep_free_rows =>
           /\ SameRows(r, s) /\ s.objective_name = r.objective_name
           /\ s.dropped_rows = r.dropped_rows \cup {t[2]} /\ s.warnings = Append(r.warnings, at)
  <2> HIDE DEF t
  <2>1. s = M!handle_rows(r, t)
    BY DEF t
  <2> QED
    BY <1>b, <2>1, RowsCardDoes
<1>2. o \in NCardsOf(W) /\ o \in Nat /\ \A c \in NCardsOf(W) : o <= c
  BY ObjectiveIsFirst
<1>3. Len(t) >= 2 /\ t[1] \in RowTypes /\ SameRest(r, s)
  BY <1>1, RowsCardDoes
<1>4. t[1] = TypeOn(W, i) /\ t[2] = NameOn(W, i)
  BY DEF TypeOn, NameOn
<1>5. NameOn(W, i) # ""
  <2>1. 2 \in 1..Len(t)
    <3> DEFINE l == Len(t)
    <3>1. l \in Nat /\ l >= 2
      BY <1>3, <1>c
    <3> HIDE DEF l
    <3>2. 2 \in 1..l
      BY <3>1
    <3> QED
      BY <3>2 DEF l
  <2> QED
    BY <1>1, <1>4, <2>1
<1>6. i \in RCardsOf(W) <=> i # o /\ (TypeOn(W, i) # "N" \/ opt.keep_free_rows)
  BY DEF RCardsOf, TypeOn
<1>7. i \in NCardsOf(W) <=> TypeOn(W, i) = "N"
  BY DEF NCardsOf, TypeOn
<1>8. IF o < i THEN r.objective_name = NameOn(W, o) /\ r.objective_name # "" ELSE r.objective_name = ""
  BY DEF NamesAre
<1>d. o < i <=> r.objective_name # ""
  BY <1>8
<1>9. \A name \in r.dropped_rows : \E c \in W.cards["ROWS"] \ {o} : c < i + 1 /\ NameOn(W, c) = name
  <2>1. \A name \in r.dropped_rows : \E c \in W.cards["ROWS"] \ {o} : c < i /\ NameOn(W, c) = name
    BY DEF NamesAre
  <2>2. \A c \in W.cards["ROWS"] : c \in Nat
    BY LineOfSheet DEF CardSections
  <2>3. \A c \in W.cards["ROWS"] : c < i => c < i + 1
    BY <1>a, <2>2
  <2> QED
    BY <2>1, <2>3
<1> HIDE DEF t, o
<1>10. CASE TypeOn(W, i) # "N" \/ (r.objective_name # "" /\ opt.keep_free_rows)
  <2>1. M!find_row(r, NameOn(W, i)) = 0 /\ NewRow(r, s, TypeOn(W, i), NameOn(W, i))
    BY <1>1, <1>4, <1>10, RowsCardDoes DEF t
  <2>2. i # o /\ i \in RCardsOf(W)
    <3>1. CASE TypeOn(W, i) # "N"
      BY <1>2, <1>6, <1>7, <3>1
    <3>2. CASE r.objective_name # "" /\ opt.keep_free_rows
      <4>1. o < i
        BY <1>d, <3>2
      <4>2. i # o
        BY <1>a, <1>2, <4>1
      <4> QED
        BY <1>6, <3>2, <4>2
    <3> QED
      BY <1>10, <3>1, <3>2
  <2>3. RowsAre(s, W, i + 1) /\ Len(s.rows) = Len(r.rows) + 1 /\ CardOf(W, Len(r.rows) + 1) = i
    BY <2>1, <2>2, RowIsAppended
  <2>4. o < i + 1 <=> o < i
    BY <1>a, <1>2, <2>2
  <2>5. NamesAre(s, W, i + 1) /\ s.warnings = r.warnings
    BY <1>8, <1>9, <2>1, <2>4 DEF NamesAre, NewRow, o
  <2> QED
    BY <1>3, <1>4, <2>1, <2>2, <2>3, <2>5
<1>11. CASE TypeOn(W, i) = "N" /\ r.objective_name = ""
  <2>1. /\ SameRows(r, s) /\ s.objective_name = NameOn(W, i) /\ s.dropped_rows = r.dropped_rows
        /\ s.warnings = r.warnings
    BY <1>e, <1>4, <1>11
  <2>2. i = o /\ i \notin RCardsOf(W) /\ o < i + 1
    <3>1. ~(o < i) /\ o <= i
      BY <1>2, <1>7, <1>d, <1>11
    <3>2. i = o /\ o < i + 1
      BY <1>a, <1>2, <3>1
    <3> QED
      BY <1>6, <3>2
  <2>3. RowsAre(s, W, i + 1)
    BY <1>a, <2>1, <2>2, RowsStay
  <2>4. NamesAre(s, W, i + 1)
    BY <1>5, <1>9, <2>1, <2>2 DEF NamesAre, o
  <2> QED
    BY <1>3, <1>4, <2>1, <2>2, <2>3, <2>4 DEF o
<1>12. CASE TypeOn(W, i) = "N" /\ r.objective_name # "" /\ ~opt.keep_free_rows
  <2>1. /\ SameRows(r, s) /\ s.objective_name = r.objective_name
        /\ s.dropped_rows = r.dropped_rows \cup {NameOn(W, i)} /\ s.warnings = Append(r.warnings, at)
    BY <1>e, <1>4, <1>12
  <2>2. i # o /\ i \notin RCardsOf(W) /\ o < i + 1 /\ o < i /\ i < i + 1
    <3>1. o < i
      BY <1>d, <1>12
    <3>2. i # o /\ o < i + 1 /\ i < i + 1
      BY <1>a, <1>2, <3>1
    <3> QED
      BY <1>6, <1>12, <3>1, <3>2
  <2>3. RowsAre(s, W, i + 1)
    BY <1>a, <2>1, <2>2, RowsStay
  <2>4. NamesAre(s, W, i + 1)
    <3>1. \A name \in s.dropped_rows : \E c \in W.cards["ROWS"] \ {o} : c < i + 1 /\ NameOn(W, c) = name
      BY <1>9, <2>1, <2>2
    <3> QED
      BY <1>8, <2>1, <2>2, <3>1 DEF NamesAre, o
  <2> QED
    BY <1>3, <1>4, <2>1, <2>2, <2>3, <2>4 DEF o
<1> QED
  BY <1>10, <1>11, <1>12

(***************************************************************************)
(* What the pairs of a card are about                                      *)
(***************************************************************************)

AfterOf(W, card, section) == {m \in MentionsOf(W, section, NameOn(W, card)) : card < m[1]}
OfObj(W, section) == IF section = "RANGES" THEN {} ELSE AfterOf(W, ObjCard(W), section)
OfCard(W, section, c) == AfterOf(W, c, section) \ OfObj(W, section)

\* A pair is about the objective, a row or neither.
LEMMA WhoseMention ==
  ASSUME NEW W, IsSheet(W), NCardsOf(W) # {}, NEW section \in PairSections,
         NEW i \in PairCardsOf(W, section), NEW k \in DOMAIN PairsOf(W, section, i),
         NEW r \in MpsReaders, RowsAre(r, W, i), NamesAre(r, W, i),
         NEW name, name = PairsOf(W, section, i)[k][1]
  PROVE  /\ <<i, k>> \in OfObj(W, section) <=> section # "RANGES" /\ name = r.objective_name
         /\ \A q \in 1..Len(r.rows) :
              <<i, k>> \in OfCard(W, section, CardOf(W, q)) <=>
                q = M!find_row(r, name) /\ ~(section # "RANGES" /\ name = r.objective_name)
<1> DEFINE m == <<i, k>>
           o == ObjCard(W)
<1>1. m \in PlacesIn(W, section) /\ m[1] = i /\ m[2] = k /\ NamedAt(W, section, m) = name
  BY PlaceIsPair DEF NamedAt
<1>2. name # ""
  <2>1. i \in 1..W.lines
    BY LineOfSheet DEF PairCardsOf, CardSections
  <2> QED
    BY <2>1, PairsOfLine
<1>3. \A c : m \in AfterOf(W, c, section) <=> NameOn(W, c) = name /\ c < i
  BY <1>1 DEF AfterOf, MentionsOf
<1> HIDE DEF m
<1>4. m \in OfObj(W, section) <=> section # "RANGES" /\ name = r.objective_name
  <2>1. IF o < i THEN r.objective_name = NameOn(W, o) /\ r.objective_name # "" ELSE r.objective_name = ""
    BY DEF NamesAre
  <2>2. m \in AfterOf(W, o, section) <=> NameOn(W, o) = name /\ o < i
    BY <1>3
  <2> HIDE DEF o
  <2>3. m \in AfterOf(W, o, section) <=> name = r.objective_name
    BY <1>2, <2>1, <2>2
  <2> QED
    BY <2>3 DEF OfObj, o
<1>5. ASSUME NEW q \in 1..Len(r.rows)
      PROVE  m \in OfCard(W, section, CardOf(W, q)) <=>
               q = M!find_row(r, name) /\ ~(section # "RANGES" /\ name = r.objective_name)
  <2>1. CardOf(W, q) < i /\ r.rows[q].name = NameOn(W, CardOf(W, q))
    BY DEF RowsAre
  <2>2. m \in AfterOf(W, CardOf(W, q), section) <=> r.rows[q].name = name
    BY <1>3, <2>1
  <2>3. r.rows[q].name = name <=> q = M!find_row(r, name)
    <3>1. Len(r.rows) \in Nat
      BY DEF MpsReaders, MpsMembers
    <3>2. M!find_row(r, name) \in 0..Len(r.rows)
      BY RowFound
    <3>3. M!find_row(r, name) # 0 => M!find_row(r, name) \in 1..Len(r.rows)
      BY <3>1, <3>2
    <3>4. \A p, z \in 1..Len(r.rows) : r.rows[p].name = r.rows[z].name => p = z
      BY DEF RowsAre
    <3>5. q # 0
      BY <3>1
    <3> QED
      BY <3>3, <3>4, <3>5, RowFound
  <2> QED
    BY <1>4, <2>2, <2>3 DEF OfCard
<1> QED
  BY <1>4, <1>5 DEF m

\* A pair is about nothing that another section tells.
LEMMA MentionedOnce ==
  ASSUME NEW W, IsSheet(W), NEW section \in PairSections, NEW other \in PairSections \ {section},
         NEW i \in PairCardsOf(W, section), NEW k
  PROVE  <<i, k>> \notin OfObj(W, other) /\ \A c : <<i, k>> \notin OfCard(W, other, c)
<1> DEFINE m == <<i, k>>
<1>1. m \notin PlacesIn(W, other)
  <2> SUFFICES ASSUME m \in PlacesIn(W, other) PROVE FALSE
    OBVIOUS
  <2>1. m[1] \in W.cards[other] /\ m[1] = i
    BY PlaceIsPair
  <2>2. i \in W.cards[section] /\ section \in CardSections /\ other \in CardSections
    BY DEF PairCardsOf, CardSections
  <2> QED
    BY <2>1, <2>2 DEF IsSheet
<1> HIDE DEF m
<1>2. \A c : m \notin AfterOf(W, c, other)
  BY <1>1 DEF AfterOf, MentionsOf
<1> QED
  BY <1>2 DEF OfObj, OfCard, m

(***************************************************************************)
(* What a right-hand side and a range do                                   *)
(***************************************************************************)

\* The same rows, but for the bounds of one.
Sided(p, q, i, b) ==
  /\ Len(q) = Len(p)
  /\ \A k \in 1..Len(p) : q[k].name = p[k].name /\ (k # i => q[k] = p[k])
  /\ q[i].lower = b[1] /\ q[i].upper = b[2]
SameNames(r, s) ==
  /\ s.row_sense = r.row_sense /\ s.objective_name = r.objective_name
  /\ s.dropped_rows = r.dropped_rows

LEMMA RowIsBounded ==
  ASSUME NEW r \in MpsReaders, NEW i \in 1..Len(r.rows), NEW b, NEW s, s = M!set_row_bounds(r, i, b)
  PROVE  /\ Sided(r.rows, s.rows, i, b) /\ s.row_rhs = r.row_rhs /\ s.warnings = r.warnings
         /\ SameNames(r, s) /\ SameRest(r, s) /\ s.error = r.error
<1>1. r \in MpsMembers
  BY DEF MpsReaders
<1> DEFINE e == [r.rows[i] EXCEPT !.lower = b[1], !.upper = b[2]]
           p == r.rows
           q == [p EXCEPT ![i] = e]
<1>2. s = [r EXCEPT !.rows = q]
  BY <1>1 DEF M!set_row_bounds, MpsMembers
<1>3. p \in Seq(RowFields)
  BY <1>1 DEF MpsMembers
<1>4. e.name = p[i].name /\ e.lower = b[1] /\ e.upper = b[2]
  <2>1. p[i] \in RowFields
    BY <1>3
  <2> QED
    BY <2>1 DEF RowFields
<1>5. i \in 1..Len(p)
  OBVIOUS
<1> HIDE DEF e, p
<1>6. Len(q) = Len(p) /\ \A k \in 1..Len(p) : q[k] = IF k = i THEN e ELSE p[k]
  BY <1>3, <1>5
<1>7. Sided(p, q, i, b)
  <2> HIDE DEF q
  <2> QED
    BY <1>4, <1>5, <1>6 DEF Sided
<1> HIDE DEF q
<1>8. /\ s.rows = q /\ s.row_rhs = r.row_rhs /\ s.warnings = r.warnings
      /\ SameNames(r, s) /\ SameRest(r, s) /\ s.error = r.error
  BY <1>1, <1>2 DEF MpsMembers, SameNames, SameRest
<1> QED
  BY <1>7, <1>8 DEF p

\* A right-hand side.
LEMMA RightHandSideDoes ==
  ASSUME NEW r \in MpsReaders, NEW pair, NEW s, s = M!RightHandSide(r, pair), ~s.error,
         NEW i, i = M!find_row(r, pair[1]), NEW v, v = Number[pair[2]]
  PROVE  /\ ~r.error /\ v \in Int /\ SameNames(r, s) /\ s.cols = r.cols /\ s.entries = r.entries
         /\ pair[1] = r.objective_name =>
              SameRows(r, s) /\ s.objective_constant = -v /\ s.warnings = r.warnings
         /\ pair[1] # r.objective_name /\ i = 0 =>
              /\ SameRows(r, s) /\ s.objective_constant = r.objective_constant
              /\ pair[1] \in r.dropped_rows /\ s.warnings = r.warnings
         /\ pair[1] # r.objective_name /\ i # 0 =>
              /\ i \in 1..Len(r.rows) /\ s.objective_constant = r.objective_constant
              /\ s.row_rhs = [r.row_rhs EXCEPT ![i] = v]
              /\ r.row_sense[i] = "N" => s.rows = r.rows /\ s.warnings = Append(r.warnings, at)
              /\ r.row_sense[i] # "N" => /\ Sided(r.rows, s.rows, i, M!Sides(r.row_sense[i], v))
                                         /\ s.warnings = r.warnings
<1>1. r \in MpsMembers /\ Len(r.row_rhs) = Len(r.rows)
  BY DEF MpsReaders
<1>2. M!Failed(r).error
  BY <1>1 DEF M!Failed, MpsMembers
<1>3. M!IsNumber(pair[2])
  BY <1>2 DEF M!RightHandSide
<1>4. v \in Int
  BY <1>3, NumberAssumption DEF M!IsNumber
<1>5. CASE pair[1] = r.objective_name
  <2> DEFINE w == -v
  <2>1. s = [r EXCEPT !.objective_constant = w]
    BY <1>3, <1>5 DEF M!RightHandSide
  <2> HIDE DEF w
  <2>2. /\ s.objective_constant = w /\ s.error = r.error /\ s.warnings = r.warnings
        /\ SameNames(r, s) /\ SameRows(r, s) /\ s.cols = r.cols /\ s.entries = r.entries
    BY <1>1, <2>1 DEF MpsMembers, SameNames, SameRows
  <2> QED
    BY <1>4, <1>5, <2>2 DEF w
<1>6. CASE pair[1] # r.objective_name /\ i = 0
  <2>1. s = IF pair[1] \in r.dropped_rows THEN r ELSE M!Failed(r)
    BY <1>3, <1>6 DEF M!RightHandSide, M!Unfound
  <2>2. s = r /\ pair[1] \in r.dropped_rows
    BY <1>2, <2>1
  <2> QED
    BY <1>4, <1>6, <2>2 DEF SameRows, SameNames
<1>7. CASE pair[1] # r.objective_name /\ i # 0
  <2> DEFINE q == [r.row_rhs EXCEPT ![i] = v]
             a == [r EXCEPT !.row_rhs = q]
  <2>1. s = IF r.row_sense[i] = "N" THEN M!warn(a) ELSE M!set_row_bounds(a, i, M!Sides(r.row_sense[i], v))
    <3>1. a = [r EXCEPT !.row_rhs[i] = v]
      BY <1>1 DEF MpsMembers
    <3> QED
      BY <1>3, <1>7, <3>1 DEF M!RightHandSide
  <2>2. i \in 1..Len(r.rows)
    <3>1. Len(r.rows) \in Nat /\ i \in 0..Len(r.rows)
      BY <1>1, RowFound DEF MpsMembers
    <3> QED
      BY <1>7, <3>1
  <2>3. q \in Seq(Int) /\ Len(q) = Len(r.rows)
    <3>1. r.row_rhs \in Seq(Int)
      BY <1>1 DEF MpsMembers
    <3> QED
      BY <1>1, <1>4, <2>2, <3>1, Replaced
  <2> HIDE DEF q
  <2>4. a \in MpsReaders
    BY <2>3, MembersReplaced
  <2>5. /\ a.rows = r.rows /\ a.row_rhs = q /\ a.warnings = r.warnings /\ a.error = r.error
        /\ SameNames(r, a) /\ SameRest(r, a)
    BY <1>1 DEF MpsMembers, SameNames, SameRest
  <2> HIDE DEF a
  <2>6. CASE r.row_sense[i] = "N"
    <3>1. s = [a EXCEPT !.warnings = Append(a.warnings, at)] /\ a \in MpsMembers
      BY <2>1, <2>4, <2>6 DEF M!warn, MpsReaders
    <3>2. /\ s.rows = a.rows /\ s.row_rhs = a.row_rhs /\ s.warnings = Append(a.warnings, at)
          /\ s.error = a.error /\ SameNames(a, s) /\ SameRest(a, s)
      BY <3>1 DEF MpsMembers, SameNames, SameRest
    <3>3. SameNames(r, s) /\ SameRest(r, s)
      BY <2>5, <3>2 DEF SameNames, SameRest
    <3> QED
      BY <1>4, <1>7, <2>2, <2>5, <2>6, <3>2, <3>3 DEF q, SameRest
  <2>7. CASE r.row_sense[i] # "N"
    <3>1. /\ Sided(a.rows, s.rows, i, M!Sides(r.row_sense[i], v)) /\ s.row_rhs = a.row_rhs
          /\ s.warnings = a.warnings /\ SameNames(a, s) /\ SameRest(a, s) /\ s.error = a.error
      BY <2>1, <2>2, <2>4, <2>5, <2>7, RowIsBounded
    <3>2. SameNames(r, s) /\ SameRest(r, s)
      BY <2>5, <3>1 DEF SameNames, SameRest
    <3> QED
      BY <1>4, <1>7, <2>2, <2>5, <2>7, <3>1, <3>2 DEF q, SameRest
  <2> QED
    BY <2>6, <2>7
<1> QED
  BY <1>5, <1>6, <1>7

\* A range.
LEMMA RangeDoes ==
  ASSUME NEW r \in MpsReaders, NEW pair, NEW s, s = M!apply_range(r, pair), ~s.error,
         NEW i, i = M!find_row(r, pair[1]), NEW v, v = Number[pair[2]]
  PROVE  /\ ~r.error /\ SameNames(r, s) /\ SameRest(r, s) /\ s.row_rhs = r.row_rhs
         /\ i = 0 => s.rows = r.rows /\ pair[1] \in r.dropped_rows /\ s.warnings = r.warnings
         /\ i # 0 =>
              /\ i \in 1..Len(r.rows) /\ v \in Int
              /\ r.row_sense[i] = "N" => s.rows = r.rows /\ s.warnings = Append(r.warnings, at)
              /\ r.row_sense[i] # "N" =>
                   /\ Sided(r.rows, s.rows, i, M!Ranged(r.row_sense[i], r.row_rhs[i], v))
                   /\ s.warnings = r.warnings
<1>1. r \in MpsMembers
  BY DEF MpsReaders
<1>2. M!Failed(r).error
  BY <1>1 DEF M!Failed, MpsMembers
<1>3. CASE i = 0
  <2>1. s = IF pair[1] \in r.dropped_rows THEN r ELSE M!Failed(r)
    BY <1>3 DEF M!apply_range, M!Unfound
  <2>2. s = r /\ pair[1] \in r.dropped_rows
    BY <1>2, <2>1
  <2> QED
    BY <1>3, <2>2 DEF SameNames, SameRest
<1>4. CASE i # 0
  <2>1. M!IsNumber(pair[2])
    BY <1>2, <1>4 DEF M!apply_range
  <2>2. v \in Int
    BY <2>1, NumberAssumption DEF M!IsNumber
  <2>3. s = IF r.row_sense[i] = "N" THEN M!warn(r)
            ELSE M!set_row_bounds(r, i, M!Ranged(r.row_sense[i], r.row_rhs[i], v))
    BY <1>4, <2>1 DEF M!apply_range
  <2>4. i \in 1..Len(r.rows)
    <3>1. Len(r.rows) \in Nat /\ i \in 0..Len(r.rows)
      BY <1>1, RowFound DEF MpsMembers
    <3> QED
      BY <1>4, <3>1
  <2>5. CASE r.row_sense[i] = "N"
    <3>1. s = [r EXCEPT !.warnings = Append(r.warnings, at)]
      BY <2>3, <2>5 DEF M!warn
    <3>2. /\ s.rows = r.rows /\ s.row_rhs = r.row_rhs /\ s.warnings = Append(r.warnings, at)
          /\ s.error = r.error /\ SameNames(r, s) /\ SameRest(r, s)
      BY <1>1, <3>1 DEF MpsMembers, SameNames, SameRest
    <3> QED
      BY <1>4, <2>2, <2>4, <2>5, <3>2
  <2>6. CASE r.row_sense[i] # "N"
    <3>1. /\ Sided(r.rows, s.rows, i, M!Ranged(r.row_sense[i], r.row_rhs[i], v))
          /\ s.row_rhs = r.row_rhs /\ s.warnings = r.warnings
          /\ SameNames(r, s) /\ SameRest(r, s) /\ s.error = r.error
      BY <2>3, <2>4, <2>6, RowIsBounded
    <3> QED
      BY <1>4, <2>2, <2>4, <2>6, <3>1
  <2> QED
    BY <2>5, <2>6
<1> QED
  BY <1>3, <1>4

(***************************************************************************)
(* What the table says up to a place                                       *)
(***************************************************************************)

\* The ranges that no right-hand side comes after.
OpenRanges(T, G) == {g \in G : \A n \in T : M!Before(n, g)}
IsSided(row, b) == row.lower = b[1] /\ row.upper = b[2]

\* The sides of a row by its type, its right-hand sides T and its ranges G.
SidesFrom(W, type, T, G, row, rhs) ==
  /\ rhs = IF T = {} THEN 0 ELSE ValueAt(W, "RHS", M!LastOf(T))
  /\ LET range == ValueAt(W, "RANGES", M!LastOf(OpenRanges(T, G)))
     IN  IF type = "N" \/ OpenRanges(T, G) = {} THEN IsSided(row, M!Sides(type, rhs))
         ELSE range \in Int /\ IsSided(row, M!Ranged(type, rhs, range))

\* The places of pairs, in their order.
ArePlaces(T) == \A m \in T : m[1] \in Int /\ m[2] \in Int
IsPlaced(D, i, k) == i \in Int /\ k \in Int /\ ArePlaces(D) /\ \A n \in D : M!Before(n, <<i, k>>)

\* A right-hand side takes the ranges away that were read.
LEMMA RightHandSideTold ==
  ASSUME NEW W, NEW D, NEW T \in SUBSET D, NEW G \in SUBSET D, NEW i, NEW k, IsPlaced(D, i, k),
         NEW type, NEW row, NEW rhs, SidesFrom(W, type, T, G, row, rhs),
         NEW v, v = ValueAt(W, "RHS", <<i, k>>), NEW new,
         IF type = "N" THEN new = row ELSE IsSided(new, M!Sides(type, v))
  PROVE  SidesFrom(W, type, T \cup {<<i, k>>}, G, new, v)
<1> DEFINE m == <<i, k>>
           U == T \cup {m}
<1>1. M!LastOf(U) = m
  BY AddedIsLast DEF IsPlaced, ArePlaces
<1>2. OpenRanges(U, G) = {}
  <2>1. ASSUME NEW g \in G PROVE ~M!Before(m, g)
    <3>1. M!Before(g, m) /\ g[1] \in Int /\ g[2] \in Int /\ m[1] = i /\ m[2] = k /\ i \in Int /\ k \in Int
      BY DEF IsPlaced, ArePlaces
    <3> HIDE DEF m
    <3> QED
      BY <3>1 DEF M!Before
  <2>2. m \in U
    OBVIOUS
  <2> HIDE DEF m, U
  <2> QED
    BY <2>1, <2>2 DEF OpenRanges
<1>3. IsSided(new, M!Sides(type, v))
  <2>1. CASE type = "N"
    <3>1. M!Sides(type, v) = <<-kInfinity, kInfinity>> /\ M!Sides(type, rhs) = <<-kInfinity, kInfinity>>
      BY <2>1 DEF M!Sides
    <3>2. IsSided(row, M!Sides(type, rhs)) /\ new = row
      BY <2>1 DEF SidesFrom
    <3> QED
      BY <3>1, <3>2
  <2>2. CASE type # "N"
    BY <2>2
  <2> QED
    BY <2>1, <2>2
<1>4. U # {} /\ v = ValueAt(W, "RHS", m)
  OBVIOUS
<1> HIDE DEF m, U
<1>5. SidesFrom(W, type, U, G, new, v)
  BY <1>1, <1>2, <1>3, <1>4 DEF SidesFrom
<1> QED
  BY <1>5 DEF U, m

\* A range replaces the one before it.
LEMMA RangeTold ==
  ASSUME NEW W, NEW D, NEW T \in SUBSET D, NEW G \in SUBSET D, NEW i, NEW k, IsPlaced(D, i, k),
         NEW type, NEW row, NEW rhs, SidesFrom(W, type, T, G, row, rhs),
         NEW v \in Int, v = ValueAt(W, "RANGES", <<i, k>>), NEW new,
         IF type = "N" THEN new = row ELSE IsSided(new, M!Ranged(type, rhs, v))
  PROVE  SidesFrom(W, type, T, G \cup {<<i, k>>}, new, rhs)
<1> DEFINE m == <<i, k>>
           H == G \cup {m}
           O == OpenRanges(T, G)
<1>1. OpenRanges(T, H) = O \cup {m}
  <2>1. \A n \in T : M!Before(n, m)
    BY DEF IsPlaced
  <2> HIDE DEF m
  <2> QED
    BY <2>1 DEF OpenRanges
<1>2. M!LastOf(O \cup {m}) = m
  <2>1. \A n \in O : M!Before(n, m) /\ n[1] \in Int /\ n[2] \in Int
    BY DEF IsPlaced, ArePlaces, OpenRanges
  <2> HIDE DEF O
  <2> QED
    BY <2>1, AddedIsLast DEF IsPlaced
<1>3. rhs = IF T = {} THEN 0 ELSE ValueAt(W, "RHS", M!LastOf(T))
  BY DEF SidesFrom
<1>4. O \cup {m} # {} /\ v = ValueAt(W, "RANGES", m)
  OBVIOUS
<1> HIDE DEF m, H, O
<1>5. CASE type = "N"
  <2>1. IsSided(new, M!Sides(type, rhs))
    BY <1>5 DEF SidesFrom
  <2>2. SidesFrom(W, type, T, H, new, rhs)
    BY <1>3, <1>5, <2>1 DEF SidesFrom
  <2> QED
    BY <2>2 DEF H, m
<1>6. CASE type # "N"
  <2>1. SidesFrom(W, type, T, H, new, rhs)
    BY <1>1, <1>2, <1>3, <1>4, <1>6 DEF SidesFrom
  <2> QED
    BY <2>1 DEF H, m
<1> QED
  BY <1>5, <1>6

\* What a row has by the places D.
RowHas(r, W, D, q) ==
  SidesFrom(W, r.row_sense[q], OfCard(W, "RHS", CardOf(W, q)) \cap D,
            OfCard(W, "RANGES", CardOf(W, q)) \cap D, r.rows[q], r.row_rhs[q])
RowsHave(r, W, D) == \A q \in 1..Len(r.rows) : RowHas(r, W, D, q)

\* The mentions among the places when one is added.
LEMMA MentionAdded ==
  ASSUME NEW X, NEW D, NEW E, NEW m, Adds(D, E, m)
  PROVE  X \cap E = IF m \in X THEN (X \cap D) \cup {m} ELSE X \cap D
BY DEF Adds

\* Nothing about any row is added.
LEMMA RowsHaveAsBefore ==
  ASSUME NEW r, NEW s, NEW W, NEW D, NEW E, NEW m, Adds(D, E, m), RowsHave(r, W, D), SameRows(r, s),
         \A q \in 1..Len(r.rows) : /\ m \notin OfCard(W, "RHS", CardOf(W, q))
                                   /\ m \notin OfCard(W, "RANGES", CardOf(W, q))
  PROVE  RowsHave(s, W, E)
<1> SUFFICES ASSUME NEW q \in 1..Len(r.rows) PROVE RowHas(s, W, E, q)
  BY DEF RowsHave, SameRows
<1>1. /\ OfCard(W, "RHS", CardOf(W, q)) \cap E = OfCard(W, "RHS", CardOf(W, q)) \cap D
      /\ OfCard(W, "RANGES", CardOf(W, q)) \cap E = OfCard(W, "RANGES", CardOf(W, q)) \cap D
  BY MentionAdded
<1>2. RowHas(r, W, D, q)
  BY DEF RowsHave
<1> QED
  BY <1>1, <1>2 DEF RowHas, SameRows

\* The constant, the costs and the columns that the places tell.
CostsOf(W, name) == {m \in OfObj(W, "COLUMNS") : W.F[m[1]][1] = name}
ConstantIs(v, W, D) ==
  v = IF OfObj(W, "RHS") \cap D = {} THEN 0 ELSE -ValueAt(W, "RHS", M!LastOf(OfObj(W, "RHS") \cap D))
CostIs(col, W, D) ==
  LET T == CostsOf(W, col.name) \cap D
  IN  col.cost = IF T = {} THEN 0 ELSE ValueAt(W, "COLUMNS", M!LastOf(T))
CostsAre(p, W, D) == \A j \in 1..Len(p) : CostIs(p[j], W, D)
ColumnsAre(p, W, D) == \A m \in PlacesIn(W, "COLUMNS") \cap D : Has(p, W.F[m[1]][1])

\* The names in the places are declared.
DeclaredTo(W, D) ==
  \A section \in PairSections : \A m \in PlacesIn(W, section) \cap D :
    \E c \in W.cards["ROWS"] :
      c < m[1] /\ NameOn(W, c) = NamedAt(W, section, m) /\ (section = "RANGES" => c # ObjCard(W))

\* All that a reader knows of rows at line i when the places D are read.
Knows(r, W, i, D) ==
  /\ RowsAre(r, W, i) /\ NamesAre(r, W, i) /\ RowsHave(r, W, D)
  /\ ConstantIs(r.objective_constant, W, D)
  /\ CostsAre(r.cols, W, D) /\ ColumnsAre(r.cols, W, D) /\ DeclaredTo(W, D)

LEMMA RowsAreKept ==
  ASSUME NEW W, NEW i, NEW r, NEW s, RowsAre(r, W, i), s.row_sense = r.row_sense,
         Len(s.rows) = Len(r.rows), \A q \in 1..Len(r.rows) : s.rows[q].name = r.rows[q].name
  PROVE  RowsAre(s, W, i)
BY DEF RowsAre

LEMMA NamesAreKept ==
  ASSUME NEW W, NEW i, NEW r, NEW s, NamesAre(r, W, i), SameNames(r, s)
  PROVE  NamesAre(s, W, i)
BY DEF NamesAre, SameNames

\* A name that is known was declared.
LEMMA KnownIsDeclared ==
  ASSUME NEW W, IsSheet(W), NCardsOf(W) # {}, NEW section \in PairSections,
         NEW i \in PairCardsOf(W, section), NEW k \in DOMAIN PairsOf(W, section, i),
         NEW r \in MpsReaders, RowsAre(r, W, i), NamesAre(r, W, i),
         NEW name, name = PairsOf(W, section, i)[k][1],
         \/ section # "RANGES" /\ name = r.objective_name
         \/ M!find_row(r, name) # 0
         \/ name \in r.dropped_rows,
         NEW D, NEW E, Adds(D, E, <<i, k>>), DeclaredTo(W, D)
  PROVE  DeclaredTo(W, E)
<1> DEFINE m == <<i, k>>
           o == ObjCard(W)
           Stated == \E c \in W.cards["ROWS"] : c < i /\ NameOn(W, c) = name /\ (section = "RANGES" => c # o)
<1>1. m[1] = i /\ NamedAt(W, section, m) = name
  BY DEF NamedAt
<1>2. name # ""
  <2>1. i \in 1..W.lines
    BY LineOfSheet DEF PairCardsOf, CardSections
  <2> QED
    BY <2>1, PairsOfLine
<1>3. Stated
  <2>1. CASE section # "RANGES" /\ name = r.objective_name
    <3>1. o < i /\ NameOn(W, o) = name
      BY <1>2, <2>1 DEF NamesAre
    <3>2. o \in W.cards["ROWS"]
      BY ObjectiveIsFirst DEF NCardsOf
    <3> QED
      BY <2>1, <3>1, <3>2
  <2>2. CASE M!find_row(r, name) # 0
    <3>1. PICK q \in 1..Len(r.rows) : r.rows[q].name = name
      <4>1. Len(r.rows) \in Nat
        BY DEF MpsReaders, MpsMembers
      <4>2. M!find_row(r, name) \in 1..Len(r.rows)
        BY <2>2, <4>1, RowFound
      <4> QED
        BY <2>2, <4>2, RowFound
    <3>2. CardOf(W, q) \in RCardsOf(W) /\ CardOf(W, q) < i /\ NameOn(W, CardOf(W, q)) = name
      BY <3>1 DEF RowsAre
    <3> QED
      BY <3>2 DEF RCardsOf
  <2>3. CASE name \in r.dropped_rows
    BY <2>3 DEF NamesAre
  <2> QED
    BY <2>1, <2>2, <2>3
<1>4. \A other \in PairSections : m \in PlacesIn(W, other) => other = section
  <2> SUFFICES ASSUME NEW other \in PairSections, m \in PlacesIn(W, other) PROVE other = section
    OBVIOUS
  <2>1. i \in W.cards[other]
    BY PlaceIsPair
  <2>2. i \in W.cards[section] /\ section \in CardSections /\ other \in CardSections
    BY DEF PairCardsOf, CardSections
  <2> QED
    BY <2>1, <2>2 DEF IsSheet
<1>5. E = D \cup {m}
  BY DEF Adds
<1> HIDE DEF m
<1> SUFFICES ASSUME NEW other \in PairSections, NEW n \in PlacesIn(W, other) \cap E
             PROVE  \E c \in W.cards["ROWS"] :
                      c < n[1] /\ NameOn(W, c) = NamedAt(W, other, n) /\ (other = "RANGES" => c # ObjCard(W))
  BY DEF DeclaredTo
<1>6. CASE n \in D
  BY <1>6 DEF DeclaredTo
<1>7. CASE n = m
  <2>1. other = section
    BY <1>4, <1>7
  <2> QED
    BY <1>1, <1>3, <1>7, <2>1
<1> QED
  BY <1>5, <1>6, <1>7

\* Nothing about the objective is added.
LEMMA ObjectiveAsBefore ==
  ASSUME NEW r, NEW W, NEW D, NEW E, NEW m, Adds(D, E, m)
  PROVE  /\ ConstantIs(r.objective_constant, W, D) /\ m \notin OfObj(W, "RHS") =>
              ConstantIs(r.objective_constant, W, E)
         /\ CostsAre(r.cols, W, D) /\ m \notin OfObj(W, "COLUMNS") => CostsAre(r.cols, W, E)
         /\ ColumnsAre(r.cols, W, D) /\ m \notin PlacesIn(W, "COLUMNS") => ColumnsAre(r.cols, W, E)
<1>1. ASSUME ConstantIs(r.objective_constant, W, D), m \notin OfObj(W, "RHS")
      PROVE  ConstantIs(r.objective_constant, W, E)
  <2>1. OfObj(W, "RHS") \cap E = OfObj(W, "RHS") \cap D
    BY <1>1, MentionAdded
  <2> QED
    BY <1>1, <2>1 DEF ConstantIs
<1>2. ASSUME CostsAre(r.cols, W, D), m \notin OfObj(W, "COLUMNS")
      PROVE  CostsAre(r.cols, W, E)
  <2>1. \A name : m \notin CostsOf(W, name)
    BY <1>2 DEF CostsOf
  <2>2. \A name : CostsOf(W, name) \cap E = CostsOf(W, name) \cap D
    BY <2>1, MentionAdded
  <2> QED
    BY <1>2, <2>2 DEF CostsAre, CostIs
<1>3. ASSUME ColumnsAre(r.cols, W, D), m \notin PlacesIn(W, "COLUMNS") PROVE ColumnsAre(r.cols, W, E)
  BY <1>3 DEF ColumnsAre, Adds
<1> QED
  BY <1>1, <1>2, <1>3

\* One row of the table that takes a right-hand side or a range.
LEMMA OneRowTakes ==
  ASSUME NEW r, NEW s, NEW W, NEW D, NEW E, NEW m, Adds(D, E, m), RowsHave(r, W, D),
         NEW i, Len(s.rows) = Len(r.rows), s.row_sense = r.row_sense,
         \A q \in 1..Len(r.rows) : q # i =>
            /\ s.rows[q] = r.rows[q] /\ s.row_rhs[q] = r.row_rhs[q]
            /\ m \notin OfCard(W, "RHS", CardOf(W, q)) /\ m \notin OfCard(W, "RANGES", CardOf(W, q)),
         i \in 1..Len(r.rows) => RowHas(s, W, E, i)
  PROVE  RowsHave(s, W, E)
<1> SUFFICES ASSUME NEW q \in 1..Len(r.rows), q # i PROVE RowHas(s, W, E, q)
  BY DEF RowsHave
<1>1. /\ OfCard(W, "RHS", CardOf(W, q)) \cap E = OfCard(W, "RHS", CardOf(W, q)) \cap D
      /\ OfCard(W, "RANGES", CardOf(W, q)) \cap E = OfCard(W, "RANGES", CardOf(W, q)) \cap D
  BY MentionAdded
<1>2. RowHas(r, W, D, q)
  BY DEF RowsHave
<1>3. s.rows[q] = r.rows[q] /\ s.row_rhs[q] = r.row_rhs[q]
  OBVIOUS
<1> QED
  BY <1>1, <1>2, <1>3 DEF RowHas

\* A right-hand side.
LEMMA RightHandSideStep ==
  ASSUME NEW W, IsSheet(W), NCardsOf(W) # {},
         NEW i \in PairCardsOf(W, "RHS"), NEW k \in DOMAIN PairsOf(W, "RHS", i),
         NEW r \in MpsReaders, NEW D, NEW E, Adds(D, E, <<i, k>>), IsPlaced(D, i, k), Knows(r, W, i, D),
         NEW s, s = M!RightHandSide(r, PairsOf(W, "RHS", i)[k]), ~s.error
  PROVE  Knows(s, W, i, E)
<1> DEFINE m == <<i, k>>
           pair == PairsOf(W, "RHS", i)[k]
           name == pair[1]
           z == M!find_row(r, name)
           v == Number[pair[2]]
           section == "RHS"
<1>1. /\ v \in Int /\ SameNames(r, s) /\ s.cols = r.cols /\ s.entries = r.entries
      /\ name = r.objective_name => SameRows(r, s) /\ s.objective_constant = -v
      /\ name # r.objective_name /\ z = 0 =>
           /\ SameRows(r, s) /\ s.objective_constant = r.objective_constant
           /\ name \in r.dropped_rows
      /\ name # r.objective_name /\ z # 0 =>
           /\ z \in 1..Len(r.rows) /\ s.objective_constant = r.objective_constant
           /\ s.row_rhs = [r.row_rhs EXCEPT ![z] = v]
           /\ r.row_sense[z] = "N" => s.rows = r.rows
           /\ r.row_sense[z] # "N" => Sided(r.rows, s.rows, z, M!Sides(r.row_sense[z], v))
  BY RightHandSideDoes
<1>2. /\ section \in PairSections /\ "RANGES" \in PairSections \ {section} /\ "COLUMNS" \in PairSections \ {section}
      /\ section # "RANGES"
  BY DEF PairSections
<1>3. v = ValueAt(W, section, m)
  BY DEF ValueAt
<1>4. /\ RowsAre(r, W, i) /\ NamesAre(r, W, i) /\ RowsHave(r, W, D)
      /\ ConstantIs(r.objective_constant, W, D)
      /\ CostsAre(r.cols, W, D) /\ ColumnsAre(r.cols, W, D) /\ DeclaredTo(W, D)
  BY DEF Knows
<1>5. /\ m \in OfObj(W, section) <=> name = r.objective_name
      /\ \A q \in 1..Len(r.rows) :
           m \in OfCard(W, section, CardOf(W, q)) <=> q = z /\ name # r.objective_name
  BY <1>2, <1>4, WhoseMention
<1>6. /\ \A c : m \notin OfCard(W, "RANGES", c)
      /\ m \notin OfObj(W, "COLUMNS")
  BY <1>2, MentionedOnce
<1>a. m \notin PlacesIn(W, "COLUMNS")
  <2> SUFFICES ASSUME m \in PlacesIn(W, "COLUMNS") PROVE FALSE
    OBVIOUS
  <2>1. i \in W.cards["COLUMNS"]
    BY <1>2, PlaceIsPair
  <2>2. i \in W.cards[section] /\ section \in CardSections /\ "COLUMNS" \in CardSections
    BY DEF PairCardsOf, CardSections, PairSections
  <2> QED
    BY <1>2, <2>1, <2>2 DEF IsSheet
<1>7. DeclaredTo(W, E)
  <2>1. name = r.objective_name \/ z # 0 \/ name \in r.dropped_rows
    BY <1>1
  <2> QED
    BY <1>2, <1>4, <2>1, KnownIsDeclared
<1> HIDE DEF m, pair, name, z, v, section
<1>8. CostsAre(s.cols, W, E) /\ ColumnsAre(s.cols, W, E)
  BY <1>1, <1>4, <1>6, <1>a, ObjectiveAsBefore DEF m
<1>9. ConstantIs(s.objective_constant, W, E)
  <2>1. CASE name = r.objective_name
    <3> DEFINE X == OfObj(W, "RHS")
               T == X \cap D
    <3>1. X \cap E = T \cup {m}
      BY <1>5, <2>1, MentionAdded DEF m, section
    <3>2. M!LastOf(T \cup {m}) = m
      <4>1. i \in Int /\ k \in Int /\ \A n \in T : M!Before(n, <<i, k>>) /\ n[1] \in Int /\ n[2] \in Int
        BY DEF IsPlaced, ArePlaces
      <4> HIDE DEF T
      <4> QED
        BY <4>1, AddedIsLast DEF m
    <3>3. T \cup {m} # {}
      OBVIOUS
    <3> HIDE DEF T, X
    <3> QED
      BY <1>1, <1>3, <2>1, <3>1, <3>2, <3>3 DEF ConstantIs, section, X
  <2>2. CASE name # r.objective_name
    BY <1>1, <1>4, <1>5, <2>2, ObjectiveAsBefore DEF m, section
  <2> QED
    BY <2>1, <2>2
<1>10. NamesAre(s, W, i)
  BY <1>1, <1>4, NamesAreKept
<1>11. CASE name = r.objective_name \/ z = 0
  <2>1. SameRows(r, s) /\ \A q \in 1..Len(r.rows) : q # 0
    BY <1>1, <1>11
  <2>2. RowsHave(s, W, E)
    BY <1>4, <1>5, <1>6, <1>11, <2>1, RowsHaveAsBefore DEF m, section
  <2>3. RowsAre(s, W, i)
    BY <1>4, <2>1, RowsAreKept DEF SameRows
  <2> QED
    BY <1>7, <1>8, <1>9, <1>10, <2>2, <2>3 DEF Knows
<1>12. CASE name # r.objective_name /\ z # 0
  <2>1. /\ z \in 1..Len(r.rows) /\ s.row_rhs = [r.row_rhs EXCEPT ![z] = v]
        /\ r.row_sense[z] = "N" => s.rows = r.rows
        /\ r.row_sense[z] # "N" => Sided(r.rows, s.rows, z, M!Sides(r.row_sense[z], v))
        /\ s.row_sense = r.row_sense
    BY <1>1, <1>12 DEF SameNames
  <2>2. /\ Len(s.rows) = Len(r.rows)
        /\ \A q \in 1..Len(r.rows) : s.rows[q].name = r.rows[q].name /\ (q # z => s.rows[q] = r.rows[q])
    BY <2>1 DEF Sided
  <2>3. s.row_rhs[z] = v /\ \A q \in 1..Len(r.rows) : q # z => s.row_rhs[q] = r.row_rhs[q]
    <3> DEFINE p == r.row_rhs
    <3>1. p \in Seq(Int) /\ Len(p) = Len(r.rows) /\ s.row_rhs = [p EXCEPT ![z] = v] /\ z \in 1..Len(p)
      BY <2>1 DEF MpsReaders, MpsMembers
    <3>2. v \in Int
      BY <1>1
    <3> HIDE DEF p
    <3>3. \A q \in 1..Len(p) : s.row_rhs[q] = IF q = z THEN v ELSE p[q]
      BY <3>1, <3>2, Replaced
    <3> QED
      BY <2>1, <3>1, <3>3 DEF p
  <2>4. RowsAre(s, W, i)
    BY <1>4, <2>1, <2>2, RowsAreKept
  <2>5. RowHas(s, W, E, z)
    <3> DEFINE T == OfCard(W, "RHS", CardOf(W, z))
               G == OfCard(W, "RANGES", CardOf(W, z))
               A == T \cap D
               B == G \cap D
    <3>1. T \cap E = A \cup {m} /\ G \cap E = B
      BY <1>5, <1>6, <1>12, <2>1, MentionAdded DEF m, section
    <3>2. SidesFrom(W, r.row_sense[z], A, B, r.rows[z], r.row_rhs[z])
      BY <1>4, <2>1 DEF RowsHave, RowHas
    <3>3. IF r.row_sense[z] = "N" THEN s.rows[z] = r.rows[z]
          ELSE IsSided(s.rows[z], M!Sides(r.row_sense[z], v))
      BY <2>1 DEF Sided, IsSided
    <3>4. A \in SUBSET D /\ B \in SUBSET D /\ v = ValueAt(W, "RHS", <<i, k>>)
      BY <1>3 DEF m, section
    <3> HIDE DEF A, B
    <3>5. SidesFrom(W, r.row_sense[z], A \cup {<<i, k>>}, B, s.rows[z], v)
      BY <3>2, <3>3, <3>4, RightHandSideTold
    <3> QED
      BY <2>1, <2>3, <3>1, <3>5 DEF RowHas, m
  <2>6. RowsHave(s, W, E)
    BY <1>4, <1>5, <1>6, <2>1, <2>2, <2>3, <2>5, OneRowTakes DEF m, section
  <2> QED
    BY <1>7, <1>8, <1>9, <1>10, <2>4, <2>6 DEF Knows
<1> QED
  BY <1>11, <1>12

\* A range.
LEMMA RangeStep ==
  ASSUME NEW W, IsSheet(W), NCardsOf(W) # {},
         NEW i \in PairCardsOf(W, "RANGES"), NEW k \in DOMAIN PairsOf(W, "RANGES", i),
         NEW r \in MpsReaders, NEW D, NEW E, Adds(D, E, <<i, k>>), IsPlaced(D, i, k), Knows(r, W, i, D),
         NEW s, s = M!apply_range(r, PairsOf(W, "RANGES", i)[k]), ~s.error
  PROVE  Knows(s, W, i, E)
<1> DEFINE m == <<i, k>>
           pair == PairsOf(W, "RANGES", i)[k]
           name == pair[1]
           z == M!find_row(r, name)
           v == Number[pair[2]]
           section == "RANGES"
<1>1. /\ SameNames(r, s) /\ SameRest(r, s) /\ s.row_rhs = r.row_rhs
      /\ z = 0 => s.rows = r.rows /\ name \in r.dropped_rows
      /\ z # 0 =>
           /\ z \in 1..Len(r.rows) /\ v \in Int
           /\ r.row_sense[z] = "N" => s.rows = r.rows
           /\ r.row_sense[z] # "N" => Sided(r.rows, s.rows, z, M!Ranged(r.row_sense[z], r.row_rhs[z], v))
  BY RangeDoes
<1>2. section \in PairSections /\ "RHS" \in PairSections \ {section} /\ "COLUMNS" \in PairSections \ {section}
  BY DEF PairSections
<1>3. v = ValueAt(W, section, m)
  BY DEF ValueAt
<1>4. /\ RowsAre(r, W, i) /\ NamesAre(r, W, i) /\ RowsHave(r, W, D)
      /\ ConstantIs(r.objective_constant, W, D)
      /\ CostsAre(r.cols, W, D) /\ ColumnsAre(r.cols, W, D) /\ DeclaredTo(W, D)
  BY DEF Knows
<1>5. \A q \in 1..Len(r.rows) : m \in OfCard(W, section, CardOf(W, q)) <=> q = z
  BY <1>2, <1>4, WhoseMention
<1>6. /\ \A c : m \notin OfCard(W, "RHS", c)
      /\ m \notin OfObj(W, "COLUMNS") /\ m \notin OfObj(W, "RHS")
  BY <1>2, MentionedOnce
<1>a. m \notin PlacesIn(W, "COLUMNS")
  <2> SUFFICES ASSUME m \in PlacesIn(W, "COLUMNS") PROVE FALSE
    OBVIOUS
  <2>1. i \in W.cards["COLUMNS"]
    BY <1>2, PlaceIsPair
  <2>2. i \in W.cards[section] /\ section \in CardSections /\ "COLUMNS" \in CardSections
    BY DEF PairCardsOf, CardSections, PairSections
  <2> QED
    BY <1>2, <2>1, <2>2 DEF IsSheet
<1>7. DeclaredTo(W, E)
  <2>1. z # 0 \/ name \in r.dropped_rows
    BY <1>1
  <2> QED
    BY <1>2, <1>4, <2>1, KnownIsDeclared
<1> HIDE DEF m, pair, name, z, v, section
<1>8. CostsAre(s.cols, W, E) /\ ColumnsAre(s.cols, W, E) /\ ConstantIs(s.objective_constant, W, E)
  BY <1>1, <1>4, <1>6, <1>a, ObjectiveAsBefore DEF m, SameRest
<1>10. NamesAre(s, W, i)
  BY <1>1, <1>4, NamesAreKept
<1>11. CASE z = 0
  <2>1. SameRows(r, s) /\ \A q \in 1..Len(r.rows) : q # 0
    BY <1>1, <1>11 DEF SameRows, SameNames
  <2>2. RowsHave(s, W, E)
    BY <1>4, <1>5, <1>6, <1>11, <2>1, RowsHaveAsBefore DEF m, section
  <2>3. RowsAre(s, W, i)
    BY <1>4, <2>1, RowsAreKept DEF SameRows
  <2> QED
    BY <1>7, <1>8, <1>10, <2>2, <2>3 DEF Knows
<1>12. CASE z # 0
  <2>1. /\ z \in 1..Len(r.rows) /\ v \in Int /\ s.row_rhs = r.row_rhs
        /\ r.row_sense[z] = "N" => s.rows = r.rows
        /\ r.row_sense[z] # "N" => Sided(r.rows, s.rows, z, M!Ranged(r.row_sense[z], r.row_rhs[z], v))
        /\ s.row_sense = r.row_sense
    BY <1>1, <1>12 DEF SameNames
  <2>2. /\ Len(s.rows) = Len(r.rows)
        /\ \A q \in 1..Len(r.rows) : s.rows[q].name = r.rows[q].name /\ (q # z => s.rows[q] = r.rows[q])
    BY <2>1 DEF Sided
  <2>4. RowsAre(s, W, i)
    BY <1>4, <2>1, <2>2, RowsAreKept
  <2>5. RowHas(s, W, E, z)
    <3> DEFINE T == OfCard(W, "RHS", CardOf(W, z))
               G == OfCard(W, "RANGES", CardOf(W, z))
               A == T \cap D
               B == G \cap D
    <3>1. T \cap E = A /\ G \cap E = B \cup {m}
      BY <1>5, <1>6, <1>12, <2>1, MentionAdded DEF m, section
    <3>2. SidesFrom(W, r.row_sense[z], A, B, r.rows[z], r.row_rhs[z])
      BY <1>4, <2>1 DEF RowsHave, RowHas
    <3>3. IF r.row_sense[z] = "N" THEN s.rows[z] = r.rows[z]
          ELSE IsSided(s.rows[z], M!Ranged(r.row_sense[z], r.row_rhs[z], v))
      BY <2>1 DEF Sided, IsSided
    <3>4. A \in SUBSET D /\ B \in SUBSET D /\ v = ValueAt(W, "RANGES", <<i, k>>) /\ v \in Int
      BY <1>3, <2>1 DEF m, section
    <3> HIDE DEF A, B
    <3>5. SidesFrom(W, r.row_sense[z], A, B \cup {<<i, k>>}, s.rows[z], r.row_rhs[z])
      BY <3>2, <3>3, <3>4, RangeTold
    <3> QED
      BY <2>1, <3>1, <3>5 DEF RowHas, m
  <2>6. RowsHave(s, W, E)
    BY <1>4, <1>5, <1>6, <2>1, <2>2, <2>5, OneRowTakes DEF m, section
  <2> QED
    BY <1>7, <1>8, <1>10, <2>4, <2>6 DEF Knows
<1> QED
  BY <1>11, <1>12

\* What a coefficient makes of a reader.
CoefficientMakes(r, j, pair, s) ==
  /\ Number[pair[2]] \in Int /\ SameNames(r, s) /\ SameRows(r, s)
  /\ s.objective_constant = r.objective_constant /\ Len(s.cols) = Len(r.cols)
  /\ s.warnings = r.warnings
  /\ pair[1] = r.objective_name =>
       /\ \A x \in 1..Len(r.cols) : s.cols[x].name = r.cols[x].name /\ (x # j => s.cols[x] = r.cols[x])
       /\ s.cols[j].cost = Number[pair[2]]
  /\ pair[1] # r.objective_name /\ M!find_row(r, pair[1]) = 0 =>
       s.cols = r.cols /\ pair[1] \in r.dropped_rows
  /\ pair[1] # r.objective_name /\ M!find_row(r, pair[1]) # 0 => s.cols = r.cols

LEMMA CoefficientIsMade ==
  ASSUME NEW r \in MpsReaders, NEW j \in 1..Len(r.cols), NEW pair, ~M!Coefficient(r, j, pair).error
  PROVE  CoefficientMakes(r, j, pair, M!Coefficient(r, j, pair)) /\ ~r.error
<1> DEFINE i == M!find_row(r, pair[1])
           v == Number[pair[2]]
           s == M!Coefficient(r, j, pair)
<1>1. r \in MpsMembers /\ s = M!Coefficient(r, j, pair) /\ v = Number[pair[2]]
      /\ i = M!find_row(r, pair[1]) /\ ~s.error
  BY DEF MpsReaders
<1> HIDE DEF s
<1>2. M!Failed(r).error
  BY <1>1 DEF M!Failed, MpsMembers
<1>3. M!IsNumber(pair[2])
  BY <1>1, <1>2 DEF M!Coefficient
<1>4. v \in Int
  BY <1>3, NumberAssumption DEF M!IsNumber
<1> HIDE DEF v
<1>5. CASE pair[1] = r.objective_name
  <2> DEFINE p == r.cols
             e == [p[j] EXCEPT !.cost = v]
             q == [p EXCEPT ![j] = e]
  <2>1. s = [r EXCEPT !.cols = q]
    BY <1>1, <1>3, <1>5 DEF M!Coefficient, M!set_objective_coefficient, MpsMembers
  <2>2. p \in Seq(ColumnFields) /\ j \in 1..Len(p)
    BY <1>1 DEF MpsMembers
  <2>3. e.name = p[j].name /\ e.cost = v
    <3>1. p[j] \in ColumnFields
      BY <2>2
    <3> QED
      BY <3>1 DEF ColumnFields
  <2> HIDE DEF e, p
  <2>4. Len(q) = Len(p) /\ \A x \in 1..Len(p) : q[x] = IF x = j THEN e ELSE p[x]
    BY <2>2
  <2> HIDE DEF q
  <2>5. /\ s.cols = q /\ s.objective_constant = r.objective_constant /\ s.warnings = r.warnings
        /\ s.error = r.error /\ SameNames(r, s) /\ SameRows(r, s)
    BY <1>1, <2>1 DEF MpsMembers, SameNames, SameRows
  <2>6. \A x \in 1..Len(p) : q[x].name = p[x].name /\ (x # j => q[x] = p[x])
    BY <2>3, <2>4
  <2>7. q[j].cost = v
    BY <2>2, <2>3, <2>4
  <2> QED
    BY <1>1, <1>4, <1>5, <2>4, <2>5, <2>6, <2>7 DEF p, CoefficientMakes
<1>6. CASE pair[1] # r.objective_name /\ i = 0
  <2>1. s = IF pair[1] \in r.dropped_rows THEN r ELSE M!Failed(r)
    BY <1>1, <1>3, <1>6 DEF M!Coefficient, M!Unfound
  <2>2. s = r /\ pair[1] \in r.dropped_rows
    BY <1>1, <1>2, <2>1
  <2> QED
    BY <1>1, <1>4, <1>6, <2>2 DEF SameRows, SameNames, CoefficientMakes
<1>7. CASE pair[1] # r.objective_name /\ i # 0
  <2> DEFINE q == Append(r.entries, [at |-> <<i, j>>, value |-> v])
  <2>1. s = [r EXCEPT !.entries = q]
    BY <1>1, <1>3, <1>7 DEF M!Coefficient, M!add_coefficient, MpsMembers
  <2> HIDE DEF q
  <2>3. /\ s.cols = r.cols /\ s.objective_constant = r.objective_constant /\ s.warnings = r.warnings
        /\ s.error = r.error /\ SameNames(r, s) /\ SameRows(r, s)
    BY <1>1, <2>1 DEF MpsMembers, SameNames, SameRows
  <2> QED
    BY <1>1, <1>4, <1>7, <2>3 DEF CoefficientMakes
<1> QED
  BY <1>1, <1>5, <1>6, <1>7

LEMMA CoefficientStep ==
  ASSUME NEW W, IsSheet(W), NCardsOf(W) # {},
         NEW i \in PairCardsOf(W, "COLUMNS"), NEW k \in DOMAIN PairsOf(W, "COLUMNS", i),
         NEW r \in MpsReaders, NEW D, NEW E, Adds(D, E, <<i, k>>), IsPlaced(D, i, k), Knows(r, W, i, D),
         NEW j \in 1..Len(r.cols), Distinct(r.cols), r.cols[j].name = W.F[i][1],
         NEW s, s = M!Coefficient(r, j, PairsOf(W, "COLUMNS", i)[k]), ~s.error
  PROVE  /\ Knows(s, W, i, E) /\ Distinct(s.cols) /\ Len(s.cols) = Len(r.cols)
         /\ s.cols[j].name = W.F[i][1]
<1> DEFINE m == <<i, k>>
           pair == PairsOf(W, "COLUMNS", i)[k]
           name == pair[1]
           z == M!find_row(r, name)
           v == Number[pair[2]]
           section == "COLUMNS"
<1>1. /\ v \in Int /\ SameNames(r, s) /\ SameRows(r, s)
      /\ s.objective_constant = r.objective_constant
      /\ Len(s.cols) = Len(r.cols)
      /\ name = r.objective_name =>
           /\ \A x \in 1..Len(r.cols) : s.cols[x].name = r.cols[x].name /\ (x # j => s.cols[x] = r.cols[x])
           /\ s.cols[j].cost = v
      /\ name # r.objective_name /\ z = 0 => s.cols = r.cols /\ name \in r.dropped_rows
      /\ name # r.objective_name /\ z # 0 => s.cols = r.cols
  <2>1. CoefficientMakes(r, j, pair, s)
    <3> HIDE DEF pair
    <3> QED
      BY CoefficientIsMade DEF pair
  <2> QED
    BY <2>1 DEF CoefficientMakes
<1>2. /\ section \in PairSections /\ "RANGES" \in PairSections \ {section} /\ "RHS" \in PairSections \ {section}
      /\ section # "RANGES"
  BY DEF PairSections
<1>3. v = ValueAt(W, section, m)
  BY DEF ValueAt
<1>4. /\ RowsAre(r, W, i) /\ NamesAre(r, W, i) /\ RowsHave(r, W, D)
      /\ ConstantIs(r.objective_constant, W, D)
      /\ CostsAre(r.cols, W, D) /\ ColumnsAre(r.cols, W, D) /\ DeclaredTo(W, D)
  BY DEF Knows
<1>5. m \in OfObj(W, section) <=> name = r.objective_name
  BY <1>2, <1>4, WhoseMention
<1>6. /\ \A c : m \notin OfCard(W, "RANGES", c) /\ m \notin OfCard(W, "RHS", c)
      /\ m \notin OfObj(W, "RHS")
  BY <1>2, MentionedOnce
<1>7. DeclaredTo(W, E)
  <2>1. name = r.objective_name \/ z # 0 \/ name \in r.dropped_rows
    BY <1>1
  <2> QED
    BY <1>2, <1>4, <2>1, KnownIsDeclared
<1> HIDE DEF m, pair, name, z, v, section
<1>8. ConstantIs(s.objective_constant, W, E)
  BY <1>1, <1>4, <1>6, ObjectiveAsBefore DEF m
<1>9. RowsHave(s, W, E)
  BY <1>1, <1>4, <1>6, RowsHaveAsBefore DEF m
<1>10. RowsAre(s, W, i) /\ NamesAre(s, W, i)
  BY <1>1, <1>4, NamesAreKept, RowsAreKept DEF SameRows
<1>11. \A x \in 1..Len(r.cols) : s.cols[x].name = r.cols[x].name
  BY <1>1
<1>12. Distinct(s.cols) /\ s.cols[j].name = W.F[i][1]
  BY <1>1, <1>11 DEF Distinct
<1>13. \A x : Has(r.cols, x) => Has(s.cols, x)
  BY <1>1, <1>11 DEF Has
<1>14. m[1] = i /\ m = <<i, k>>
  BY DEF m
<1>15. ColumnsAre(s.cols, W, E)
  <2>1. Has(r.cols, W.F[i][1])
    BY DEF Has
  <2>2. \A n \in E : n \in D \/ n = m
    BY <1>14 DEF Adds
  <2> QED
    BY <1>4, <1>13, <1>14, <2>1, <2>2 DEF ColumnsAre
<1>16. CostsAre(s.cols, W, E)
  <2>1. CASE name = r.objective_name
    <3> SUFFICES ASSUME NEW x \in 1..Len(r.cols) PROVE CostIs(s.cols[x], W, E)
      BY <1>1 DEF CostsAre
    <3>1. m \in CostsOf(W, s.cols[x].name) <=> x = j
      <4>1. m \in CostsOf(W, s.cols[x].name) <=> W.F[i][1] = r.cols[x].name
        BY <1>5, <1>11, <1>14, <2>1 DEF CostsOf, section
      <4>2. r.cols[x].name = r.cols[j].name <=> x = j
        BY DEF Distinct
      <4> QED
        BY <4>1, <4>2
    <3> DEFINE X == CostsOf(W, s.cols[x].name)
               T == X \cap D
    <3>2. CASE x = j
      <4>1. X \cap E = T \cup {m}
        BY <1>14, <3>1, <3>2, MentionAdded
      <4>2. M!LastOf(T \cup {m}) = m
        <5>1. i \in Int /\ k \in Int /\ \A n \in T : M!Before(n, <<i, k>>) /\ n[1] \in Int /\ n[2] \in Int
          BY DEF IsPlaced, ArePlaces
        <5> HIDE DEF T
        <5> QED
          BY <5>1, AddedIsLast DEF m
      <4>3. T \cup {m} # {} /\ s.cols[x].cost = v
        BY <1>1, <2>1, <3>2
      <4> HIDE DEF T
      <4>4. X \cap E # {} /\ M!LastOf(X \cap E) = m
        BY <4>1, <4>2, <4>3
      <4> HIDE DEF X
      <4> QED
        BY <1>3, <4>3, <4>4 DEF CostIs, section, X
    <3>3. CASE x # j
      <4>1. X \cap E = T
        BY <1>14, <3>1, <3>3, MentionAdded
      <4>2. s.cols[x] = r.cols[x] /\ CostIs(r.cols[x], W, D)
        BY <1>1, <1>4, <2>1, <3>3 DEF CostsAre
      <4> QED
        BY <4>1, <4>2 DEF CostIs
    <3> QED
      BY <3>2, <3>3
  <2>2. CASE name # r.objective_name
    <3>1. s.cols = r.cols /\ m \notin OfObj(W, "COLUMNS")
      BY <1>1, <1>5, <2>2 DEF section
    <3> QED
      BY <1>4, <1>14, <3>1, ObjectiveAsBefore
  <2> QED
    BY <2>1, <2>2
<1> QED
  BY <1>1, <1>7, <1>8, <1>9, <1>10, <1>12, <1>15, <1>16 DEF Knows


(***************************************************************************)
(* What a whole card tells                                                 *)
(***************************************************************************)

(***************************************************************************)
(* What a card is warned about                                             *)
(***************************************************************************)

\* The lines that a reader has warned about, and those of a reader s that has
\* one more than r, or not.
Heard(r) == {r.warnings[k] : k \in 1..Len(r.warnings)}
Hears(r, s, w) == Heard(s) = Heard(r) \cup {i \in {at} : w}

LEMMA WarningIsHeard ==
  ASSUME NEW r, r.warnings \in Seq(Int), at \in Int, NEW s, s.warnings = Append(r.warnings, at)
  PROVE  Heard(s) = Heard(r) \cup {at}
<1> DEFINE p == r.warnings
           q == s.warnings
           n == Len(p)
<1>1. /\ n \in Nat /\ Len(q) = n + 1 /\ q[n + 1] = at
      /\ \A k \in 1..n : q[k] = p[k]
  OBVIOUS
<1> HIDE DEF p, q, n
<1>2. \A k \in 1..(n + 1) : k \in 1..n \/ k = n + 1
  BY <1>1
<1>3. n + 1 \in 1..(n + 1) /\ \A k \in 1..n : k \in 1..(n + 1)
  BY <1>1
<1>4. Heard(r) = {p[k] : k \in 1..n} /\ Heard(s) = {q[k] : k \in 1..(n + 1)}
  BY <1>1 DEF Heard, p, q, n
<1>5. {q[k] : k \in 1..(n + 1)} = {p[k] : k \in 1..n} \cup {at}
  BY <1>1, <1>2, <1>3
<1> QED
  BY <1>4, <1>5

\* With the warning, and without it.
LEMMA HearsIfWarned ==
  ASSUME NEW r \in MpsReaders, at \in Int, NEW s, NEW w \in BOOLEAN,
         s.warnings = IF w THEN Append(r.warnings, at) ELSE r.warnings
  PROVE  Hears(r, s, w)
<1>1. r.warnings \in Seq(Int)
  BY DEF MpsReaders, MpsMembers
<1>2. CASE w
  BY <1>1, <1>2, WarningIsHeard DEF Hears
<1>3. CASE ~w
  BY <1>3 DEF Hears, Heard
<1> QED
  BY <1>2, <1>3

\* A pair about a free row, and the lines of such pairs.
ForFree(W, m) ==
  \E c \in RCardsOf(W) :
    TypeOn(W, c) = "N" /\ (m \in OfCard(W, "RHS", c) \/ m \in OfCard(W, "RANGES", c))
FreeLines(W) == {m[1] : m \in {p \in Places(W) : ForFree(W, p)}}
PairHeard(r, s, W, m) == Hears(r, s, ForFree(W, m))
HeardTo(r, W, i, k) == Heard(r) \cup {c \in {at} : \E l \in 1..k : ForFree(W, <<i, l>>)}

LEMMA HeardNext ==
  ASSUME NEW r, NEW u, NEW v, NEW W, NEW i, NEW k \in Int, 1 <= k,
         Heard(u) = HeardTo(r, W, i, k - 1), PairHeard(u, v, W, <<i, k>>)
  PROVE  Heard(v) = HeardTo(r, W, i, k)
<1>1. \A l \in 1..k : l \in 1..(k - 1) \/ l = k
  OBVIOUS
<1>2. k \in 1..k /\ \A l \in 1..(k - 1) : l \in 1..k
  OBVIOUS
<1>3. (\E l \in 1..k : ForFree(W, <<i, l>>)) <=>
        (\E l \in 1..(k - 1) : ForFree(W, <<i, l>>)) \/ ForFree(W, <<i, k>>)
  BY <1>1, <1>2
<1> QED
  BY <1>3 DEF HeardTo, PairHeard, Hears

\* The row of a card that was read.
LEMMA CardHasRow ==
  ASSUME NEW W, IsSheet(W), NEW i \in Nat, NEW r, RowsAre(r, W, i), NEW c \in RCardsOf(W), c < i
  PROVE  \E q \in 1..Len(r.rows) : CardOf(W, q) = c
<1> DEFINE e == Cardinality(Earlier(W, c))
<1>1. e \in Nat /\ CardOf(W, e + 1) = c /\ Cardinality(Earlier(W, c + 1)) = e + 1
  BY RankFinds
<1>2. W.lines \in Nat /\ RCardsOf(W) \in SUBSET (1..W.lines)
  BY LineOfSheet DEF IsSheet, RCardsOf, CardSections
<1>3. \A d \in RCardsOf(W) : d \in Nat
  BY <1>2
<1>4. Earlier(W, c + 1) \in SUBSET Earlier(W, i)
  <2>1. \A d \in RCardsOf(W) : d < c + 1 => d < i
    BY <1>3
  <2> QED
    BY <2>1 DEF Earlier
<1>5. IsFiniteSet(Earlier(W, i))
  <2> DEFINE n == W.lines
  <2>1. n \in Nat /\ Earlier(W, i) \in SUBSET (1..n)
    BY <1>2 DEF Earlier
  <2> HIDE DEF n
  <2>2. IsFiniteSet(1..n)
    BY <2>1, FS_Interval
  <2> QED
    BY <2>1, <2>2, FS_Subset
<1>6. Cardinality(Earlier(W, i)) \in Nat /\ Cardinality(Earlier(W, c + 1)) <= Cardinality(Earlier(W, i))
  BY <1>4, <1>5, FS_Subset, FS_CardinalityType
<1>7. Len(r.rows) = Cardinality(Earlier(W, i))
  BY DEF RowsAre
<1> HIDE DEF e
<1>8. e + 1 \in 1..Len(r.rows)
  BY <1>1, <1>6, <1>7
<1> QED
  BY <1>1, <1>8

\* A pair is about a free row if the row of its name is one.
LEMMA WhoseIsFree ==
  ASSUME NEW W, IsSheet(W), NCardsOf(W) # {}, NEW section \in {"RHS", "RANGES"},
         NEW i \in PairCardsOf(W, section), NEW k \in DOMAIN PairsOf(W, section, i),
         NEW r \in MpsReaders, RowsAre(r, W, i), NamesAre(r, W, i),
         NEW name, name = PairsOf(W, section, i)[k][1]
  PROVE  ForFree(W, <<i, k>>) <=>
           /\ M!find_row(r, name) # 0 /\ r.row_sense[M!find_row(r, name)] = "N"
           /\ ~(section # "RANGES" /\ name = r.objective_name)
<1> DEFINE m == <<i, k>>
           z == M!find_row(r, name)
           ofObjective == section # "RANGES" /\ name = r.objective_name
<1>1. section \in PairSections /\ {"RHS", "RANGES"} \in SUBSET PairSections
  BY DEF PairSections
<1>2. i \in Nat
  <2>1. i \in W.cards[section] /\ section \in CardSections
    BY <1>1 DEF PairCardsOf, CardSections
  <2> QED
    BY <2>1, LineOfSheet
<1>3. \A q \in 1..Len(r.rows) : m \in OfCard(W, section, CardOf(W, q)) <=> q = z /\ ~ofObjective
  BY <1>1, WhoseMention
<1>4. \A other \in {"RHS", "RANGES"} \ {section} : \A c : m \notin OfCard(W, other, c)
  BY <1>1, MentionedOnce
<1>5. \A q \in 1..Len(r.rows) : CardOf(W, q) \in RCardsOf(W) /\ r.row_sense[q] = TypeOn(W, CardOf(W, q))
  BY DEF RowsAre
<1>6. z \in 0..Len(r.rows) /\ Len(r.rows) \in Nat
  <2>1. r \in MpsMembers
    BY DEF MpsReaders
  <2>2. z \in 0..Len(r.rows)
    BY RowFound
  <2> QED
    BY <2>1, <2>2 DEF MpsMembers
<1>7. ASSUME NEW c, m \in OfCard(W, section, c) PROVE c < i
  <2>1. c < m[1] /\ m[1] = i
    BY <1>7 DEF OfCard, AfterOf
  <2> QED
    BY <2>1
<1> HIDE DEF m, z, ofObjective
<1>8. ASSUME z # 0, r.row_sense[z] = "N", ~ofObjective PROVE ForFree(W, m)
  <2>1. z \in 1..Len(r.rows)
    BY <1>6, <1>8
  <2> QED
    BY <1>3, <1>5, <1>8, <2>1 DEF ForFree
<1>9. ASSUME ForFree(W, m) PROVE z # 0 /\ r.row_sense[z] = "N" /\ ~ofObjective
  <2>1. PICK c \in RCardsOf(W) : TypeOn(W, c) = "N" /\ m \in OfCard(W, section, c)
    BY <1>4, <1>9 DEF ForFree
  <2>2. PICK q \in 1..Len(r.rows) : CardOf(W, q) = c
    BY <1>2, <1>7, <2>1, CardHasRow
  <2>3. q = z /\ ~ofObjective /\ q # 0
    BY <1>3, <2>1, <2>2
  <2> QED
    BY <1>5, <2>1, <2>2, <2>3
<1> QED
  BY <1>8, <1>9 DEF m, z, ofObjective

\* What a right-hand side is warned of.
LEMMA RightHandSideHeeds ==
  ASSUME NEW r \in MpsReaders, NEW pair, NEW s, s = M!RightHandSide(r, pair), ~s.error,
         NEW z, z = M!find_row(r, pair[1])
  PROVE  /\ pair[1] = r.objective_name => s.warnings = r.warnings
         /\ pair[1] # r.objective_name /\ z = 0 => s.warnings = r.warnings
         /\ pair[1] # r.objective_name /\ z # 0 =>
              /\ r.row_sense[z] = "N" => s.warnings = Append(r.warnings, at)
              /\ r.row_sense[z] # "N" => s.warnings = r.warnings
<1> DEFINE v == Number[pair[2]]
<1>1. /\ ~r.error /\ v \in Int /\ SameNames(r, s) /\ s.cols = r.cols /\ s.entries = r.entries
      /\ pair[1] = r.objective_name =>
           SameRows(r, s) /\ s.objective_constant = -v /\ s.warnings = r.warnings
      /\ pair[1] # r.objective_name /\ z = 0 =>
           /\ SameRows(r, s) /\ s.objective_constant = r.objective_constant
           /\ pair[1] \in r.dropped_rows /\ s.warnings = r.warnings
      /\ pair[1] # r.objective_name /\ z # 0 =>
           /\ z \in 1..Len(r.rows) /\ s.objective_constant = r.objective_constant
           /\ s.row_rhs = [r.row_rhs EXCEPT ![z] = v]
           /\ r.row_sense[z] = "N" => s.rows = r.rows /\ s.warnings = Append(r.warnings, at)
           /\ r.row_sense[z] # "N" => /\ Sided(r.rows, s.rows, z, M!Sides(r.row_sense[z], v))
                                      /\ s.warnings = r.warnings
  BY RightHandSideDoes
<1> QED
  BY <1>1

\* A right-hand side is warned about if it is for a free row.
LEMMA RightHandSideWarns ==
  ASSUME NEW W, IsSheet(W), NCardsOf(W) # {}, at \in Int,
         NEW i \in PairCardsOf(W, "RHS"), NEW k \in DOMAIN PairsOf(W, "RHS", i),
         NEW r \in MpsReaders, NEW D, Knows(r, W, i, D),
         NEW s, s = M!RightHandSide(r, PairsOf(W, "RHS", i)[k]), ~s.error
  PROVE  PairHeard(r, s, W, <<i, k>>)
<1> DEFINE pair == PairsOf(W, "RHS", i)[k]
           name == pair[1]
           z == M!find_row(r, name)
           w == z # 0 /\ r.row_sense[z] = "N" /\ name # r.objective_name
<1>1. RowsAre(r, W, i) /\ NamesAre(r, W, i)
  BY DEF Knows
<1>2. ForFree(W, <<i, k>>) <=> w
  BY <1>1, WhoseIsFree
<1>3. /\ name = r.objective_name => s.warnings = r.warnings
      /\ name # r.objective_name /\ z = 0 => s.warnings = r.warnings
      /\ name # r.objective_name /\ z # 0 =>
           /\ r.row_sense[z] = "N" => s.warnings = Append(r.warnings, at)
           /\ r.row_sense[z] # "N" => s.warnings = r.warnings
  BY RightHandSideHeeds
<1> HIDE DEF pair
<1>4. s.warnings = IF w THEN Append(r.warnings, at) ELSE r.warnings
  <2> HIDE DEF name, z
  <2> QED
    BY <1>3
<1> HIDE DEF w
<1>5. w \in BOOLEAN
  BY DEF w
<1>6. Hears(r, s, w)
  BY <1>4, <1>5, HearsIfWarned
<1> QED
  BY <1>2, <1>6 DEF PairHeard, Hears

\* So is a range.
LEMMA RangeWarns ==
  ASSUME NEW W, IsSheet(W), NCardsOf(W) # {}, at \in Int,
         NEW i \in PairCardsOf(W, "RANGES"), NEW k \in DOMAIN PairsOf(W, "RANGES", i),
         NEW r \in MpsReaders, NEW D, Knows(r, W, i, D),
         NEW s, s = M!apply_range(r, PairsOf(W, "RANGES", i)[k]), ~s.error
  PROVE  PairHeard(r, s, W, <<i, k>>)
<1> DEFINE pair == PairsOf(W, "RANGES", i)[k]
           name == pair[1]
           z == M!find_row(r, name)
           w == z # 0 /\ r.row_sense[z] = "N"
<1>1. RowsAre(r, W, i) /\ NamesAre(r, W, i)
  BY DEF Knows
<1>2. ForFree(W, <<i, k>>) <=> w
  BY <1>1, WhoseIsFree
<1>3. s = M!apply_range(r, pair)
  OBVIOUS
<1> HIDE DEF pair
<1>4. s.warnings = IF w THEN Append(r.warnings, at) ELSE r.warnings
  <2>1. /\ z = 0 => s.warnings = r.warnings
        /\ z # 0 =>
             /\ r.row_sense[z] = "N" => s.warnings = Append(r.warnings, at)
             /\ r.row_sense[z] # "N" => s.warnings = r.warnings
    BY <1>3, RangeDoes
  <2> HIDE DEF z
  <2> QED
    BY <2>1
<1> HIDE DEF w
<1>5. w \in BOOLEAN
  BY DEF w
<1>6. Hears(r, s, w)
  BY <1>4, <1>5, HearsIfWarned
<1> QED
  BY <1>2, <1>6 DEF PairHeard, Hears

\* The pairs of a line are those of its card.
LEMMA LineIsFree ==
  ASSUME NEW W, IsSheet(W), NEW section \in PairSections, NEW i \in PairCardsOf(W, section),
         NEW K \in Nat, DOMAIN PairsOf(W, section, i) = 1..K
  PROVE  i \in FreeLines(W) <=> \E l \in 1..K : ForFree(W, <<i, l>>)
<1>1. \A l \in 1..K : <<i, l>> \in Places(W)
  BY PlaceIsPair DEF Places, PairSections
<1>2. ASSUME NEW m \in Places(W), m[1] = i PROVE m[2] \in 1..K /\ m = <<i, m[2]>>
  <2>1. PICK other \in PairSections : m \in PlacesIn(W, other)
    BY <1>2 DEF Places, PairSections
  <2>2. m[2] \in DOMAIN PairsOf(W, other, m[1]) /\ m = <<m[1], m[2]>> /\ m[1] \in W.cards[other]
    BY <2>1, PlaceIsPair
  <2>3. i \in W.cards[section] /\ section \in CardSections /\ other \in CardSections
    BY DEF PairCardsOf, CardSections
  <2>4. other = section
    BY <1>2, <2>2, <2>3 DEF IsSheet
  <2> QED
    BY <1>2, <2>2, <2>4
<1>3. i \in FreeLines(W) <=> \E m \in Places(W) : ForFree(W, m) /\ m[1] = i
  BY DEF FreeLines
<1>4. \A l : <<i, l>>[1] = i
  OBVIOUS
<1> QED
  BY <1>1, <1>2, <1>3, <1>4

\* The places before a pair.
LEMMA PairIsPlaced ==
  ASSUME NEW W, IsSheet(W), NEW section \in PairSections, NEW i \in PairCardsOf(W, section),
         NEW K \in Nat, DOMAIN PairsOf(W, section, i) = 1..K, NEW k \in 1..K
  PROVE  IsPlaced(DoneTo(W, i, k - 1), i, k)
<1>1. \A n \in DoneTo(W, i, k - 1) : M!Before(n, <<i, k>>)
  BY PairIsDone DEF Adds
<1>2. \A m \in Places(W) : m[1] \in Int /\ m[2] \in Int
  BY PlaceIsPair DEF Places, PairSections
<1>3. i \in Int
  <2>1. i \in W.cards[section] /\ section \in CardSections
    BY DEF PairCardsOf, CardSections
  <2>2. i \in Nat
    BY <2>1, LineOfSheet
  <2> QED
    BY <2>2
<1>4. ArePlaces(DoneTo(W, i, k - 1))
  BY <1>2 DEF ArePlaces, DoneTo
<1> QED
  BY <1>1, <1>3, <1>4 DEF IsPlaced

\* A reader that has failed stays so.
LEMMA FailureStays ==
  ASSUME NEW r \in MpsReaders, NEW pair, r.error
  PROVE  /\ M!RightHandSide(r, pair).error /\ M!apply_range(r, pair).error
         /\ \A j \in 1..Len(r.cols) : M!Coefficient(r, j, pair).error
<1> DEFINE i == M!find_row(r, pair[1])
           v == Number[pair[2]]
<1>1. M!RightHandSide(r, pair).error
  <2> DEFINE s == M!RightHandSide(r, pair)
  <2>1. ~s.error => ~r.error
    BY RightHandSideDoes
  <2> QED
    BY <2>1
<1>2. M!apply_range(r, pair).error
  <2> DEFINE s == M!apply_range(r, pair)
  <2>1. ~s.error => ~r.error
    BY RangeDoes
  <2> QED
    BY <2>1
<1>3. \A j \in 1..Len(r.cols) : M!Coefficient(r, j, pair).error
  BY CoefficientIsMade
<1> QED
  BY <1>1, <1>2, <1>3

LEMMA RightHandSidesKnow ==
  ASSUME NEW W, IsSheet(W), NCardsOf(W) # {}, at \in Int,
         NEW i \in PairCardsOf(W, "RHS"), NEW seq, seq = PairsOf(W, "RHS", i),
         NEW K \in Nat, DOMAIN seq = 1..K,
         NEW r \in MpsReaders, Knows(r, W, i, DoneTo(W, i, 0)),
         ~FoldOfRightHandSides(r, seq)[1..K].error
  PROVE  /\ Knows(FoldOfRightHandSides(r, seq)[1..K], W, i, DoneTo(W, i, K))
         /\ Heard(FoldOfRightHandSides(r, seq)[1..K]) = HeardTo(r, W, i, K)
<1> DEFINE h == FoldOfRightHandSides(r, seq)
           Good == [k \in 0..K |-> {u \in MpsReaders : u.error \/ (/\ Knows(u, W, i, DoneTo(W, i, k))
                                                                  /\ Heard(u) = HeardTo(r, W, i, k))}]
<1>1. RightHandSidesInTurn(r, seq, K, h)
  BY RightHandSidesAreFolded
<1>2. h[{}] = r /\ \A k \in 1..K : h[1..k] = M!RightHandSide(h[(1..k) \ {k}], seq[k])
  BY <1>1 DEF RightHandSidesInTurn
<1> HIDE DEF h
<1>3. h[{}] \in Good[0]
  <2>1. 1..0 = {}
    OBVIOUS
  <2>2. Heard(r) = HeardTo(r, W, i, 0)
    BY <2>1 DEF HeardTo
  <2> QED
    BY <1>2, <2>2
<1>4. ASSUME NEW k \in 1..K, h[(1..k) \ {k}] \in Good[k - 1] PROVE h[1..k] \in Good[k]
  <2> DEFINE u == h[(1..k) \ {k}]
             v == h[1..k]
             D == DoneTo(W, i, k - 1)
             E == DoneTo(W, i, k)
  <2>1. k - 1 \in 0..K /\ k \in 0..K /\ k \in DOMAIN PairsOf(W, "RHS", i)
    BY <1>4
  <2>2. u \in MpsReaders /\ (u.error \/ (Knows(u, W, i, D) /\ Heard(u) = HeardTo(r, W, i, k - 1)))
    BY <1>4, <2>1
  <2>3. v = M!RightHandSide(u, PairsOf(W, "RHS", i)[k])
    BY <1>2
  <2>4. "RHS" \in PairSections
    BY DEF PairSections
  <2>5. Adds(D, E, <<i, k>>) /\ IsPlaced(D, i, k)
    BY <2>4, PairIsDone, PairIsPlaced
  <2> HIDE DEF u, v, D, E
  <2>6. v \in MpsReaders
    BY <2>2, <2>3, RightHandSideKeeps DEF Keeps, KeepsColumns
  <2>7. ASSUME ~v.error PROVE Knows(v, W, i, E) /\ Heard(v) = HeardTo(r, W, i, k)
    <3>1. Knows(u, W, i, D) /\ Heard(u) = HeardTo(r, W, i, k - 1)
      BY <2>2, <2>3, <2>7, FailureStays
    <3>2. Knows(v, W, i, E)
      BY <2>1, <2>2, <2>3, <2>5, <2>7, <3>1, RightHandSideStep
    <3>3. PairHeard(u, v, W, <<i, k>>)
      BY <2>1, <2>2, <2>3, <2>7, <3>1, RightHandSideWarns
    <3> HIDE DEF Good
    <3>4. Heard(u) = HeardTo(r, W, i, k - 1)
      BY <3>1
    <3>5. Heard(v) = HeardTo(r, W, i, k)
      <4>1. k \in Int /\ 1 <= k
        OBVIOUS
      <4> QED
        BY <3>3, <3>4, <4>1, HeardNext
    <3> QED
      BY <3>2, <3>5
  <2> QED
    BY <2>1, <2>6, <2>7 DEF v, E
<1>5. h[1..K] \in Good[K]
  <2> HIDE DEF Good
  <2> QED
    BY <1>3, <1>4, FoldInvariant
<1> QED
  BY <1>5 DEF h

LEMMA RangesKnow ==
  ASSUME NEW W, IsSheet(W), NCardsOf(W) # {}, at \in Int,
         NEW i \in PairCardsOf(W, "RANGES"), NEW seq, seq = PairsOf(W, "RANGES", i),
         NEW K \in Nat, DOMAIN seq = 1..K,
         NEW r \in MpsReaders, Knows(r, W, i, DoneTo(W, i, 0)),
         ~FoldOfRanges(r, seq)[1..K].error
  PROVE  /\ Knows(FoldOfRanges(r, seq)[1..K], W, i, DoneTo(W, i, K))
         /\ Heard(FoldOfRanges(r, seq)[1..K]) = HeardTo(r, W, i, K)
<1> DEFINE h == FoldOfRanges(r, seq)
           Good == [k \in 0..K |-> {u \in MpsReaders : u.error \/ (/\ Knows(u, W, i, DoneTo(W, i, k))
                                                                  /\ Heard(u) = HeardTo(r, W, i, k))}]
<1>1. RangesInTurn(r, seq, K, h)
  BY RangesAreFolded
<1>2. h[{}] = r /\ \A k \in 1..K : h[1..k] = M!apply_range(h[(1..k) \ {k}], seq[k])
  BY <1>1 DEF RangesInTurn
<1> HIDE DEF h
<1>3. h[{}] \in Good[0]
  <2>1. 1..0 = {}
    OBVIOUS
  <2>2. Heard(r) = HeardTo(r, W, i, 0)
    BY <2>1 DEF HeardTo
  <2> QED
    BY <1>2, <2>2
<1>4. ASSUME NEW k \in 1..K, h[(1..k) \ {k}] \in Good[k - 1] PROVE h[1..k] \in Good[k]
  <2> DEFINE u == h[(1..k) \ {k}]
             v == h[1..k]
             D == DoneTo(W, i, k - 1)
             E == DoneTo(W, i, k)
  <2>1. k - 1 \in 0..K /\ k \in 0..K /\ k \in DOMAIN PairsOf(W, "RANGES", i)
    BY <1>4
  <2>2. u \in MpsReaders /\ (u.error \/ (Knows(u, W, i, D) /\ Heard(u) = HeardTo(r, W, i, k - 1)))
    BY <1>4, <2>1
  <2>3. v = M!apply_range(u, PairsOf(W, "RANGES", i)[k])
    BY <1>2
  <2>4. "RANGES" \in PairSections
    BY DEF PairSections
  <2>5. Adds(D, E, <<i, k>>) /\ IsPlaced(D, i, k)
    BY <2>4, PairIsDone, PairIsPlaced
  <2> HIDE DEF u, v, D, E
  <2>6. v \in MpsReaders
    BY <2>2, <2>3, RangeKeeps DEF Keeps, KeepsColumns
  <2>7. ASSUME ~v.error PROVE Knows(v, W, i, E) /\ Heard(v) = HeardTo(r, W, i, k)
    <3>1. Knows(u, W, i, D) /\ Heard(u) = HeardTo(r, W, i, k - 1)
      BY <2>2, <2>3, <2>7, FailureStays
    <3>2. Knows(v, W, i, E)
      BY <2>1, <2>2, <2>3, <2>5, <2>7, <3>1, RangeStep
    <3>3. PairHeard(u, v, W, <<i, k>>)
      BY <2>1, <2>2, <2>3, <2>7, <3>1, RangeWarns
    <3> HIDE DEF Good
    <3>4. Heard(u) = HeardTo(r, W, i, k - 1)
      BY <3>1
    <3>5. Heard(v) = HeardTo(r, W, i, k)
      <4>1. k \in Int /\ 1 <= k
        OBVIOUS
      <4> QED
        BY <3>3, <3>4, <4>1, HeardNext
    <3> QED
      BY <3>2, <3>5
  <2> QED
    BY <2>1, <2>6, <2>7 DEF v, E
<1>5. h[1..K] \in Good[K]
  <2> HIDE DEF Good
  <2> QED
    BY <1>3, <1>4, FoldInvariant
<1> QED
  BY <1>5 DEF h

LEMMA CoefficientsKnow ==
  ASSUME NEW W, IsSheet(W), NCardsOf(W) # {},
         NEW i \in PairCardsOf(W, "COLUMNS"), NEW seq, seq = PairsOf(W, "COLUMNS", i),
         NEW K \in Nat, DOMAIN seq = 1..K,
         NEW r \in MpsReaders, Knows(r, W, i, DoneTo(W, i, 0)),
         NEW j \in 1..Len(r.cols), Distinct(r.cols), r.cols[j].name = W.F[i][1],
         ~FoldOfCoefficients(r, j, seq)[1..K].error
  PROVE  /\ Knows(FoldOfCoefficients(r, j, seq)[1..K], W, i, DoneTo(W, i, K))
         /\ FoldOfCoefficients(r, j, seq)[1..K].warnings = r.warnings
<1> DEFINE h == FoldOfCoefficients(r, j, seq)
           Found(u) == Distinct(u.cols) /\ u.cols[j].name = W.F[i][1] /\ u.warnings = r.warnings
           Good == [k \in 0..K |-> {u \in MpsReaders : /\ j \in 1..Len(u.cols)
                                                       /\ u.error \/ (Knows(u, W, i, DoneTo(W, i, k)) /\ Found(u))}]
<1>1. CoefficientsInTurn(r, j, seq, K, h)
  BY CoefficientsAreFolded
<1>2. h[{}] = r /\ \A k \in 1..K : h[1..k] = M!Coefficient(h[(1..k) \ {k}], j, seq[k])
  BY <1>1 DEF CoefficientsInTurn
<1> HIDE DEF h
<1>3. h[{}] \in Good[0]
  BY <1>2
<1>4. ASSUME NEW k \in 1..K, h[(1..k) \ {k}] \in Good[k - 1] PROVE h[1..k] \in Good[k]
  <2> DEFINE u == h[(1..k) \ {k}]
             v == h[1..k]
             D == DoneTo(W, i, k - 1)
             E == DoneTo(W, i, k)
  <2>1. k - 1 \in 0..K /\ k \in 0..K /\ k \in DOMAIN PairsOf(W, "COLUMNS", i)
    BY <1>4
  <2>2. u \in MpsReaders /\ j \in 1..Len(u.cols) /\ (u.error \/ (Knows(u, W, i, D) /\ Found(u)))
    BY <1>4, <2>1
  <2>3. v = M!Coefficient(u, j, PairsOf(W, "COLUMNS", i)[k])
    BY <1>2
  <2>4. "COLUMNS" \in PairSections
    BY DEF PairSections
  <2>5. Adds(D, E, <<i, k>>) /\ IsPlaced(D, i, k)
    BY <2>4, PairIsDone, PairIsPlaced
  <2> HIDE DEF u, v, D, E
  <2>6. v \in MpsReaders /\ Len(v.cols) = Len(u.cols)
    BY <2>2, <2>3, CoefficientKeeps DEF Keeps, KeepsColumns, SameColumns
  <2>7. ASSUME ~v.error PROVE Knows(v, W, i, E) /\ Found(v)
    <3>1. Knows(u, W, i, D) /\ Found(u)
      BY <2>2, <2>3, <2>7, FailureStays
    <3>2. v.warnings = u.warnings
      BY <2>2, <2>3, <2>7, CoefficientIsMade DEF CoefficientMakes
    <3>3. Distinct(u.cols) /\ u.cols[j].name = W.F[i][1] /\ u.warnings = r.warnings
      BY <3>1
    <3> HIDE DEF Found
    <3>4. Knows(v, W, i, E) /\ Distinct(v.cols) /\ v.cols[j].name = W.F[i][1]
      BY <2>1, <2>2, <2>3, <2>5, <2>7, <3>1, <3>3, CoefficientStep
    <3> QED
      BY <3>2, <3>3, <3>4 DEF Found
  <2>8. j \in 1..Len(v.cols)
    BY <2>2, <2>6
  <2> QED
    BY <2>1, <2>6, <2>7, <2>8 DEF v, E
<1>5. h[1..K] \in Good[K]
  <2> HIDE DEF Good
  <2> QED
    BY <1>3, <1>4, FoldInvariant
<1> QED
  BY <1>5 DEF h


\* A line that declares no row.
LEMMA KnowsNext ==
  ASSUME NEW W, IsSheet(W), NCardsOf(W) # {}, NEW i \in Nat, i \notin RCardsOf(W), i # ObjCard(W),
         NEW r, NEW D, Knows(r, W, i, D)
  PROVE  Knows(r, W, i + 1, D)
<1>1. RowsAre(r, W, i + 1)
  BY RowsStay DEF SameRows, Knows
<1>2. ObjCard(W) \in Nat /\ \A c \in W.cards["ROWS"] : c \in Nat
  BY ObjectiveIsFirst, LineOfSheet DEF CardSections
<1>3. (ObjCard(W) < i + 1 <=> ObjCard(W) < i) /\ \A c \in W.cards["ROWS"] : c < i => c < i + 1
  BY <1>2
<1>4. NamesAre(r, W, i + 1)
  BY <1>3 DEF NamesAre, Knows
<1> QED
  BY <1>1, <1>4 DEF Knows

\* Columns that were there have the same costs, and the others have none.
Adding(p, q) ==
  /\ Len(p) \in Nat /\ Len(q) \in Nat /\ Len(p) <= Len(q)
  /\ \A j \in 1..Len(p) : q[j].name = p[j].name /\ q[j].cost = p[j].cost
  /\ \A j \in 1..Len(q) : j \notin 1..Len(p) => q[j].cost = 0 /\ ~Has(p, q[j].name)

LEMMA ColumnsGrow ==
  ASSUME NEW W, NEW D, NEW p, NEW q, Adding(p, q), CostsAre(p, W, D), ColumnsAre(p, W, D)
  PROVE  CostsAre(q, W, D) /\ ColumnsAre(q, W, D)
<1>1. ASSUME NEW j \in 1..Len(q) PROVE CostIs(q[j], W, D)
  <2>1. CASE j \in 1..Len(p)
    BY <2>1 DEF Adding, CostsAre, CostIs
  <2>2. CASE j \notin 1..Len(p)
    <3>1. q[j].cost = 0 /\ ~Has(p, q[j].name)
      BY <2>2 DEF Adding
    <3>2. CostsOf(W, q[j].name) \cap D = {}
      <4> SUFFICES ASSUME NEW m \in CostsOf(W, q[j].name) \cap D PROVE FALSE
        OBVIOUS
      <4>1. m \in PlacesIn(W, "COLUMNS") /\ m \in D /\ W.F[m[1]][1] = q[j].name
        BY DEF CostsOf, OfObj, AfterOf, MentionsOf
      <4> QED
        BY <3>1, <4>1 DEF ColumnsAre
    <3> QED
      BY <3>1, <3>2 DEF CostIs
  <2> QED
    BY <2>1, <2>2
<1>2. \A name : Has(p, name) => Has(q, name)
  <2>1. \A j \in 1..Len(p) : j \in 1..Len(q) /\ q[j].name = p[j].name
    BY DEF Adding
  <2> QED
    BY <2>1 DEF Has
<1> QED
  BY <1>1, <1>2 DEF CostsAre, ColumnsAre

\* What keeps the table keeps what is known of it.
LEMMA KnowsStill ==
  ASSUME NEW W, NEW i, NEW D, NEW r, NEW s, Knows(r, W, i, D), SameTable(r, s), Adding(r.cols, s.cols)
  PROVE  Knows(s, W, i, D)
<1>1. CostsAre(s.cols, W, D) /\ ColumnsAre(s.cols, W, D)
  BY ColumnsGrow DEF Knows
<1>2. RowsAre(s, W, i) /\ NamesAre(s, W, i)
  BY DEF Knows, SameTable, RowsAre, NamesAre
<1>3. RowsHave(s, W, D)
  BY DEF Knows, SameTable, RowsHave, RowHas
<1> QED
  BY <1>1, <1>2, <1>3 DEF Knows, SameTable

\* All that a reader knows when the lines before i are read.
KnowsTo(r, W, i) == Knows(r, W, i, DoneTo(W, i, 0))

\* A line without rows and pairs.
LEMMA QuietKnows ==
  ASSUME NEW W, IsSheet(W), NCardsOf(W) # {}, NEW i \in Nat, i \notin W.cards["ROWS"],
         \A section \in PairSections : i \notin PairCardsOf(W, section),
         NEW r, NEW s, KnowsTo(r, W, i), SameTable(r, s), Adding(r.cols, s.cols)
  PROVE  KnowsTo(s, W, i + 1)
<1>1. DoneTo(W, i + 1, 0) = DoneTo(W, i, 0)
  BY NothingIsDone
<1>2. i \notin RCardsOf(W) /\ i # ObjCard(W)
  BY ObjectiveIsFirst DEF RCardsOf, NCardsOf
<1>3. Knows(s, W, i, DoneTo(W, i, 0))
  BY KnowsStill DEF KnowsTo
<1> QED
  BY <1>1, <1>2, <1>3, KnowsNext DEF KnowsTo

\* The end of a card of pairs.
LEMMA CardEnds ==
  ASSUME NEW W, IsSheet(W), NCardsOf(W) # {}, NEW section \in PairSections, NEW i \in PairCardsOf(W, section),
         NEW K \in Nat, DOMAIN PairsOf(W, section, i) = 1..K, NEW s, Knows(s, W, i, DoneTo(W, i, K))
  PROVE  KnowsTo(s, W, i + 1)
<1>1. DoneTo(W, i + 1, 0) = DoneTo(W, i, K)
  BY PairIsDone
<1>2. i \in W.cards[section] /\ section \in CardSections /\ section # "ROWS" /\ "ROWS" \in CardSections
  BY DEF PairCardsOf, CardSections, PairSections
<1>3. i \notin W.cards["ROWS"] /\ i \in Nat
  BY <1>2, LineOfSheet DEF IsSheet
<1>4. i \notin RCardsOf(W) /\ i # ObjCard(W)
  BY <1>3, ObjectiveIsFirst DEF RCardsOf, NCardsOf
<1> QED
  BY <1>1, <1>3, <1>4, KnowsNext DEF KnowsTo

LEMMA RhsCardKnows ==
  ASSUME NEW W, IsSheet(W), NCardsOf(W) # {}, at \in Int, NEW i \in W.cards["RHS"],
         NEW r \in MpsReaders, KnowsTo(r, W, i), ~M!handle_rhs(r, W.F[i]).error
  PROVE  /\ KnowsTo(M!handle_rhs(r, W.F[i]), W, i + 1)
         /\ Hears(r, M!handle_rhs(r, W.F[i]), i \in FreeLines(W))
<1> DEFINE t == W.F[i]
           l == Len(t)
           k == IF l % 2 = 1 THEN 2 ELSE 1
           pairs == M!PairsAfterSetName(t)
<1>1. "RHS" \in CardSections /\ "RHS" \in PairSections
  BY DEF CardSections, PairSections
<1>2. t \in Seq(STRING) /\ l \in Nat
  BY <1>1, LineOfSheet
<1>3. ~(l < 2)
  <2>1. M!Failed(r).error
    BY DEF M!Failed, MpsMembers, MpsReaders
  <2> QED
    BY <2>1 DEF M!handle_rhs
<1>4. pairs = PairsOf(W, "RHS", i) /\ pairs = M!Pairs(t, k) /\ i \in PairCardsOf(W, "RHS")
  BY DEF PairsOf, M!PairsAfterSetName, PairCardsOf
<1>5. M!handle_rhs(r, t) = FoldOfRightHandSides(r, pairs)[DOMAIN pairs]
  BY <1>3 DEF M!handle_rhs, M!FoldLeft, M!MapThenFoldSet, FoldOfRightHandSides,
     IsFoldOfRightHandSides
<1> DEFINE s == M!handle_rhs(r, t)
<1>6. ~s.error
  OBVIOUS
<1> HIDE DEF pairs, s
<1>7. k \in 1..2 /\ l >= k
  <2> HIDE DEF l
  <2> QED
    BY <1>2, <1>3
<1> HIDE DEF k
<1>8. PICK K \in Nat : DOMAIN pairs = 1..K
  BY <1>2, <1>4, <1>7, PairsOfCard
<1>9. s = FoldOfRightHandSides(r, pairs)[1..K]
  BY <1>5, <1>8 DEF s
<1> HIDE DEF t, l
<1>10. Knows(r, W, i, DoneTo(W, i, 0))
  BY DEF KnowsTo
<1>11. Knows(s, W, i, DoneTo(W, i, K)) /\ Heard(s) = HeardTo(r, W, i, K)
  BY <1>4, <1>6, <1>8, <1>9, <1>10, RightHandSidesKnow
<1>12. KnowsTo(s, W, i + 1)
  BY <1>1, <1>4, <1>8, <1>11, CardEnds
<1>13. Hears(r, s, i \in FreeLines(W))
  <2>1. i \in FreeLines(W) <=> \E n \in 1..K : ForFree(W, <<i, n>>)
    BY <1>1, <1>4, <1>8, LineIsFree
  <2> QED
    BY <1>11, <2>1 DEF Hears, HeardTo
<1> QED
  BY <1>12, <1>13 DEF s, t

LEMMA RangesCardKnows ==
  ASSUME NEW W, IsSheet(W), NCardsOf(W) # {}, at \in Int, NEW i \in W.cards["RANGES"],
         NEW r \in MpsReaders, KnowsTo(r, W, i), ~M!handle_ranges(r, W.F[i]).error
  PROVE  /\ KnowsTo(M!handle_ranges(r, W.F[i]), W, i + 1)
         /\ Hears(r, M!handle_ranges(r, W.F[i]), i \in FreeLines(W))
<1> DEFINE t == W.F[i]
           l == Len(t)
           k == IF l % 2 = 1 THEN 2 ELSE 1
           pairs == M!PairsAfterSetName(t)
<1>1. "RANGES" \in CardSections /\ "RANGES" \in PairSections
  BY DEF CardSections, PairSections
<1>2. t \in Seq(STRING) /\ l \in Nat
  BY <1>1, LineOfSheet
<1>3. ~(l < 2)
  <2>1. M!Failed(r).error
    BY DEF M!Failed, MpsMembers, MpsReaders
  <2> QED
    BY <2>1 DEF M!handle_ranges
<1>4. pairs = PairsOf(W, "RANGES", i) /\ pairs = M!Pairs(t, k) /\ i \in PairCardsOf(W, "RANGES")
  BY DEF PairsOf, M!PairsAfterSetName, PairCardsOf
<1>5. M!handle_ranges(r, t) = FoldOfRanges(r, pairs)[DOMAIN pairs]
  BY <1>3 DEF M!handle_ranges, M!FoldLeft, M!MapThenFoldSet, FoldOfRanges, IsFoldOfRanges
<1> DEFINE s == M!handle_ranges(r, t)
<1>6. ~s.error
  OBVIOUS
<1> HIDE DEF pairs, s
<1>7. k \in 1..2 /\ l >= k
  <2> HIDE DEF l
  <2> QED
    BY <1>2, <1>3
<1> HIDE DEF k
<1>8. PICK K \in Nat : DOMAIN pairs = 1..K
  BY <1>2, <1>4, <1>7, PairsOfCard
<1>9. s = FoldOfRanges(r, pairs)[1..K]
  BY <1>5, <1>8 DEF s
<1> HIDE DEF t, l
<1>10. Knows(r, W, i, DoneTo(W, i, 0))
  BY DEF KnowsTo
<1>11. Knows(s, W, i, DoneTo(W, i, K)) /\ Heard(s) = HeardTo(r, W, i, K)
  BY <1>4, <1>6, <1>8, <1>9, <1>10, RangesKnow
<1>12. KnowsTo(s, W, i + 1)
  BY <1>1, <1>4, <1>8, <1>11, CardEnds
<1>13. Hears(r, s, i \in FreeLines(W))
  <2>1. i \in FreeLines(W) <=> \E n \in 1..K : ForFree(W, <<i, n>>)
    BY <1>1, <1>4, <1>8, LineIsFree
  <2> QED
    BY <1>11, <2>1 DEF Hears, HeardTo
<1> QED
  BY <1>12, <1>13 DEF s, t


\* A column that is made for a card.
LEMMA WithAdds ==
  ASSUME NEW p \in Seq(ColumnFields), NEW name \in STRING, Distinct(p)
  PROVE  Adding(p, With(p, name))
<1> DEFINE q == With(p, name)
<1>1. /\ q \in Seq(ColumnFields) /\ Len(p) <= Len(q) /\ \A j \in 1..Len(p) : q[j] = p[j]
      /\ \A j \in 1..Len(q) : j \notin 1..Len(p) => q[j] = Fresh(name) /\ ~Has(p, name)
  BY WithHas
<1>2. Fresh(name).cost = 0 /\ Fresh(name).name = name
  BY DEF Fresh
<1> HIDE DEF q
<1>3. Len(p) \in Nat /\ Len(q) \in Nat
  BY <1>1
<1>4. Adding(p, q)
  BY <1>1, <1>2, <1>3 DEF Adding
<1> QED
  BY <1>4 DEF q

LEMMA AddingThrough ==
  ASSUME NEW p, NEW q, NEW c, Adding(p, q), Len(c) = Len(q),
         \A j \in 1..Len(q) : c[j].name = q[j].name /\ c[j].cost = q[j].cost
  PROVE  Adding(p, c)
<1>1. \A j \in 1..Len(p) : j \in 1..Len(q)
  BY DEF Adding
<1> QED
  BY <1>1 DEF Adding

LEMMA AddingNothing ==
  ASSUME NEW p \in Seq(ColumnFields)
  PROVE  Adding(p, p)
<1>1. Len(p) \in Nat
  OBVIOUS
<1> QED
  BY <1>1 DEF Adding

\* A card of coefficients.
LEMMA ColumnsCardKnows ==
  ASSUME NEW W, IsSheet(W), NCardsOf(W) # {}, NEW i \in PairCardsOf(W, "COLUMNS"),
         NEW r \in MpsReaders, Distinct(r.cols), KnowsTo(r, W, i), ~M!handle_columns(r, W.F[i]).error
  PROVE  /\ KnowsTo(M!handle_columns(r, W.F[i]), W, i + 1)
         /\ M!handle_columns(r, W.F[i]).warnings = r.warnings
<1> DEFINE t == W.F[i]
           pairs == M!Pairs(t, 2)
           s == M!handle_columns(r, t)
           name == t[1]
           q == With(r.cols, name)
<1>1. "COLUMNS" \in CardSections /\ "COLUMNS" \in PairSections
  BY DEF CardSections, PairSections
<1>2. i \in W.cards["COLUMNS"] /\ ~M!IsMarker(t)
  BY DEF PairCardsOf
<1>3. t \in Seq(STRING)
  BY <1>1, <1>2, LineOfSheet
<1>4. pairs = PairsOf(W, "COLUMNS", i)
  BY DEF PairsOf
<1>5. PICK b, j : \E K \in Nat : /\ HasColumn(r, name, b, j) /\ DOMAIN pairs = 1..K
                                 /\ s = FoldOfCoefficients(b, j, pairs)[1..K]
  BY <1>2, <1>3, ColumnIsPrepared
<1>6. PICK K \in Nat : /\ HasColumn(r, name, b, j) /\ DOMAIN pairs = 1..K
                       /\ s = FoldOfCoefficients(b, j, pairs)[1..K]
  BY <1>5
<1>7. ~s.error
  OBVIOUS
<1>8. r.cols \in Seq(ColumnFields)
  BY DEF MpsReaders, MpsMembers
<1> HIDE DEF pairs, s, q
<1>9. /\ b \in MpsReaders /\ SameTable(r, b) /\ b.warnings = r.warnings /\ name \in STRING /\ Distinct(q) /\ j \in 1..Len(q)
      /\ q[j].name = name /\ Len(b.cols) = Len(q)
      /\ \A k \in 1..Len(q) : b.cols[k].name = q[k].name /\ b.cols[k].cost = q[k].cost
  BY <1>6 DEF HasColumn, q
<1>10. Adding(r.cols, b.cols)
  <2>1. Adding(r.cols, q)
    BY <1>8, <1>9, WithAdds DEF q
  <2> QED
    BY <1>9, <2>1, AddingThrough
<1>11. Knows(b, W, i, DoneTo(W, i, 0))
  BY <1>9, <1>10, KnowsStill DEF KnowsTo
<1>12. j \in 1..Len(b.cols) /\ Distinct(b.cols) /\ b.cols[j].name = W.F[i][1]
  BY <1>9 DEF Distinct
<1>13. Knows(s, W, i, DoneTo(W, i, K)) /\ s.warnings = r.warnings
  <2>1. ~FoldOfCoefficients(b, j, pairs)[1..K].error
    BY <1>6, <1>7
  <2>2. /\ Knows(FoldOfCoefficients(b, j, pairs)[1..K], W, i, DoneTo(W, i, K))
        /\ FoldOfCoefficients(b, j, pairs)[1..K].warnings = b.warnings
    BY <1>4, <1>6, <1>9, <1>11, <1>12, <2>1, CoefficientsKnow
  <2> QED
    BY <1>6, <1>9, <2>2
<1>14. KnowsTo(s, W, i + 1)
  BY <1>1, <1>4, <1>6, <1>13, CardEnds
<1> QED
  BY <1>13, <1>14 DEF s, t

\* A row card.
LEMMA RowsCardKnows ==
  ASSUME NEW W, IsSheet(W), NCardsOf(W) # {}, W.keep = opt.keep_free_rows, NEW i \in W.cards["ROWS"],
         NEW r \in MpsReaders, KnowsTo(r, W, i), ~M!handle_rows(r, W.F[i]).error
  PROVE  KnowsTo(M!handle_rows(r, W.F[i]), W, i + 1)
<1> DEFINE s == M!handle_rows(r, W.F[i])
           D == DoneTo(W, i, 0)
<1>1. /\ RowsAre(s, W, i + 1) /\ NamesAre(s, W, i + 1) /\ SameRest(r, s) /\ TypeOn(W, i) \in RowTypes
      /\ i \in RCardsOf(W) => /\ NewRow(r, s, TypeOn(W, i), NameOn(W, i)) /\ Len(s.rows) = Len(r.rows) + 1
                              /\ CardOf(W, Len(r.rows) + 1) = i
      /\ i \notin RCardsOf(W) => SameRows(r, s)
  BY RowsCardDeclares DEF KnowsTo, Knows
<1>2. i \in Nat
  BY LineOfSheet DEF CardSections
<1>3. \A section \in PairSections : i \notin PairCardsOf(W, section)
  <2> SUFFICES ASSUME NEW section \in PairSections, i \in PairCardsOf(W, section) PROVE FALSE
    OBVIOUS
  <2>1. i \in W.cards[section] /\ section \in CardSections /\ section # "ROWS" /\ "ROWS" \in CardSections
    BY DEF PairCardsOf, CardSections, PairSections
  <2> QED
    BY <2>1 DEF IsSheet
<1>4. DoneTo(W, i + 1, 0) = D
  BY <1>2, <1>3, NothingIsDone
<1>5. RowsHave(r, W, D) /\ ConstantIs(r.objective_constant, W, D) /\ CostsAre(r.cols, W, D)
      /\ ColumnsAre(r.cols, W, D) /\ DeclaredTo(W, D)
  BY DEF KnowsTo, Knows
<1> HIDE DEF s
<1>6. CASE i \notin RCardsOf(W)
  <2>1. RowsHave(s, W, D)
    BY <1>1, <1>5, <1>6 DEF RowsHave, RowHas, SameRows
  <2> QED
    BY <1>1, <1>4, <1>5, <2>1 DEF KnowsTo, Knows, SameRest, s
<1>7. CASE i \in RCardsOf(W)
  <2> DEFINE n == Len(r.rows)
             type == TypeOn(W, i)
  <2>1. n \in Nat /\ Len(s.rows) = n + 1 /\ CardOf(W, n + 1) = i /\ NewRow(r, s, type, NameOn(W, i))
    BY <1>1, <1>7 DEF MpsReaders, MpsMembers
  <2>2. /\ \A q \in 1..n : s.rows[q] = r.rows[q] /\ s.row_sense[q] = r.row_sense[q] /\ s.row_rhs[q] = r.row_rhs[q]
        /\ IsSided(s.rows[n + 1], M!Sides(type, 0)) /\ s.row_sense[n + 1] = type /\ s.row_rhs[n + 1] = 0
    <3> DEFINE new == [name |-> NameOn(W, i), lower |-> M!Sides(type, 0)[1], upper |-> M!Sides(type, 0)[2]]
    <3>1. IsSided(new, M!Sides(type, 0))
      BY DEF IsSided
    <3>2. s.rows = Append(r.rows, new) /\ s.row_sense = Append(r.row_sense, type) /\ s.row_rhs = Append(r.row_rhs, 0)
      BY <2>1 DEF NewRow
    <3>3. /\ r.rows \in Seq(RowFields) /\ r.row_sense \in Seq(RowTypes) /\ r.row_rhs \in Seq(Int)
          /\ Len(r.row_sense) = n /\ Len(r.row_rhs) = n
      BY DEF MpsReaders, MpsMembers
    <3> HIDE DEF new, type
    <3>4. s.rows[n + 1] = new /\ \A q \in 1..n : s.rows[q] = r.rows[q]
      BY <3>2, <3>3
    <3>5. s.row_sense[n + 1] = type /\ \A q \in 1..n : s.row_sense[q] = r.row_sense[q]
      BY <3>2, <3>3
    <3>6. s.row_rhs[n + 1] = 0 /\ \A q \in 1..n : s.row_rhs[q] = r.row_rhs[q]
      BY <3>2, <3>3
    <3> QED
      BY <3>1, <3>4, <3>5, <3>6
  <2>3. \A section : OfCard(W, section, i) \cap D = {}
    <3> SUFFICES ASSUME NEW section, NEW m \in OfCard(W, section, i) \cap D PROVE FALSE
      OBVIOUS
    <3>1. i < m[1] /\ m \in Places(W) /\ (m[1] < i \/ (m[1] = i /\ m[2] <= 0))
      BY DEF OfCard, AfterOf, DoneTo
    <3>2. m[1] \in Nat
      BY <3>1, PlaceIsPair DEF Places, PairSections
    <3> QED
      BY <1>2, <3>1, <3>2
  <2> HIDE DEF D, n, type
  <2>4. RowHas(s, W, D, n + 1)
    <3>1. OpenRanges({}, {}) = {}
      BY DEF OpenRanges
    <3> QED
      BY <2>1, <2>2, <2>3, <3>1 DEF RowHas, SidesFrom
  <2>5. ASSUME NEW q \in 1..n PROVE RowHas(s, W, D, q)
    <3>1. RowHas(r, W, D, q)
      BY <1>5 DEF RowsHave, n
    <3> QED
      BY <2>2, <3>1 DEF RowHas
  <2>6. \A q \in 1..Len(s.rows) : q \in 1..n \/ q = n + 1
    BY <2>1
  <2>7. RowsHave(s, W, D)
    BY <2>4, <2>5, <2>6 DEF RowsHave
  <2> QED
    BY <1>1, <1>4, <1>5, <2>7 DEF KnowsTo, Knows, SameRest, s, D
<1> QED
  BY <1>6, <1>7

\* A card of a bound.
LEMMA BoundsCardKnows ==
  ASSUME NEW W, IsSheet(W), NCardsOf(W) # {}, NEW i \in Nat, i \notin W.cards["ROWS"],
         \A section \in PairSections : i \notin PairCardsOf(W, section),
         at \in Int, NEW t \in Seq(STRING),
         NEW r \in MpsReaders, Distinct(r.cols), KnowsTo(r, W, i), ~M!handle_bounds(r, t).error
  PROVE  KnowsTo(M!handle_bounds(r, t), W, i + 1)
<1> DEFINE s == M!handle_bounds(r, t)
           name == M!BoundedColumn(t)
           q == With(r.cols, name)
<1>1. /\ SameTable(r, s) /\ name \in STRING /\ Len(s.cols) = Len(q)
      /\ \A j \in 1..Len(q) : s.cols[j].name = q[j].name /\ s.cols[j].cost = q[j].cost
  BY BoundsCardDoes
<1>2. r.cols \in Seq(ColumnFields)
  BY DEF MpsReaders, MpsMembers
<1> HIDE DEF s, name
<1>3. Adding(r.cols, q)
  BY <1>1, <1>2, WithAdds
<1> HIDE DEF q
<1>4. Adding(r.cols, s.cols)
  BY <1>1, <1>3, AddingThrough
<1>5. KnowsTo(s, W, i + 1)
  BY <1>1, <1>4, QuietKnows
<1> QED
  BY <1>5 DEF s


(***************************************************************************)
(* The table of the file that is read                                      *)
(***************************************************************************)

TheSheet ==
  [lines |-> Len(file), F |-> TheFields, cards |-> [section \in CardSections |-> M!Cards(section)],
   keep |-> opt.keep_free_rows]

LEMMA SheetMembers ==
  /\ TheSheet.lines = Len(file) /\ TheSheet.F = TheFields /\ TheSheet.keep = opt.keep_free_rows
  /\ TheSheet.cards = [section \in CardSections |-> M!Cards(section)]
  /\ \A section \in CardSections : TheSheet.cards[section] = M!Cards(section)
BY DEF TheSheet

LEMMA FileIsSheet ==
  ASSUME file \in Seq(Lines), opt.keep_free_rows \in BOOLEAN
  PROVE  IsSheet(TheSheet)
<1>1. Len(file) \in Nat /\ DOMAIN file = 1..Len(file)
  OBVIOUS
<1>2. ASSUME NEW i \in 1..Len(file)
      PROVE  /\ TheFields[i] \in Seq(STRING)
             /\ \A k \in 1..Len(TheFields[i]) : TheFields[i][k] # ""
  <2>1. file[i] \in Lines
    BY <1>1
  <2>2. M!Fields(i) \in Seq(Tokens) /\ TheFields[i] = M!Fields(i)
    <3>1. file[i].free \in Seq(Tokens) \ {<<>>} /\ file[i].fixed \in Seq(Tokens)
      BY <2>1 DEF Lines
    <3> QED
      BY <1>1, <3>1 DEF M!Fields, TheFields
  <2> DEFINE t == TheFields[i]
  <2>3. t \in Seq(Tokens)
    BY <2>2
  <2> HIDE DEF t
  <2>4. Len(t) \in Nat /\ t \in [1..Len(t) -> Tokens]
    BY <2>3
  <2>5. t \in [1..Len(t) -> STRING]
    BY <2>4, Zenon DEF Tokens
  <2>6. \A k \in 1..Len(t) : t[k] # ""
    BY <2>4, Zenon DEF Tokens
  <2>7. t \in Seq(STRING)
    BY <2>4, <2>5
  <2> QED
    BY <2>6, <2>7 DEF t
<1>3. TheFields \in [1..Len(file) -> Seq(STRING)]
  <2>1. TheFields = [i \in 1..Len(file) |-> TheFields[i]]
    BY <1>1 DEF TheFields
  <2> QED
    BY <1>2, <2>1
<1>4. \A section : M!Cards(section) \in SUBSET (1..Len(file))
  BY <1>1 DEF M!Cards, M!Visible
<1>5. ASSUME NEW s, NEW t, NEW i, i \in M!Cards(s), i \in M!Cards(t) PROVE s = t
  <2>1. i \in 1..Len(file)
    BY <1>4, <1>5
  <2>2. PICK h \in 1..i : /\ file[h].header /\ M!Fields(h)[1] = s
                          /\ \A k \in (h + 1)..i : ~file[k].header
    BY <1>5 DEF M!Cards
  <2>3. PICK g \in 1..i : /\ file[g].header /\ M!Fields(g)[1] = t
                          /\ \A k \in (g + 1)..i : ~file[k].header
    BY <1>5 DEF M!Cards
  <2>4. g \notin (h + 1)..i /\ h \notin (g + 1)..i
    BY <2>2, <2>3
  <2>5. g = h
    BY <2>1, <2>4
  <2> QED
    BY <2>2, <2>3, <2>5
<1> DEFINE A == [section \in CardSections |-> M!Cards(section)]
<1>6. /\ A \in [CardSections -> SUBSET (1..Len(file))]
      /\ \A s, t \in CardSections : \A i \in A[s] : i \in A[t] => s = t
  BY <1>4, <1>5
<1> HIDE DEF A
<1>7. TheSheet.cards = A
  BY SheetMembers DEF A
<1> QED
  BY <1>1, <1>2, <1>3, <1>6, <1>7, SheetMembers DEF IsSheet

\* What a reader knows that has read the lines before line i.
Informed(r, i) ==
  /\ \A section \in CardSections : r.section = section <=> Under(file, TheFields, section, i)
  /\ IF NCardsOf(TheSheet) = {} THEN r.objective_name = "" ELSE KnowsTo(r, TheSheet, i)

\* The line that is read next is a card of the section it stands in.
LEMMA NextCard ==
  ASSUME file \in Seq(Lines), Follows, M!Reading, Informed(reader, at)
  PROVE  /\ at \in Nat
         /\ \A section \in CardSections :
              at \in TheSheet.cards[section] <=>
                ~file[at].header /\ M!Tokens # <<>> /\ reader.section = section
<1>1. at \in 1..Len(file)
  BY NextLine
<1>2. \A section : at \in M!Cards(section) <=>
        ~file[at].header /\ M!Tokens # <<>> /\ Under(file, TheFields, section, at)
  BY NextLine
<1>3. at \in Nat
  BY <1>1
<1> QED
  BY <1>2, <1>3, SheetMembers DEF Informed

\* The line behind it stands in the section that the reader is in then.
LEMMA SectionFollows ==
  ASSUME file \in Seq(Lines), Follows, M!Reading, Informed(reader, at), NEW s,
         \A section \in CardSections :
           s.section = section <=> IF file[at].header THEN M!Tokens[1] = section ELSE reader.section = section
  PROVE  \A section \in CardSections : s.section = section <=> Under(file, TheFields, section, at + 1)
<1>1. at \in 1..Len(file) /\ TheFields[at] = M!Tokens
  BY NextLine
<1>2. at \in Nat /\ at # 0
  BY <1>1
<1>3. \A section : /\ file[at].header => (Under(file, TheFields, section, at + 1) <=> TheFields[at][1] = section)
                   /\ ~file[at].header => (Under(file, TheFields, section, at + 1) <=> Under(file, TheFields, section, at))
  BY <1>2, UnderStep
<1> QED
  BY <1>1, <1>3 DEF Informed

\* The reader takes a line and knows what it says.
Learns(s) ==
  /\ reader' = s /\ at' = at + 1 /\ Informed(s, at + 1)
  /\ UNCHANGED <<file, opt, fixed, matrix, outcome>>

\* A reader that may read the next line.
Prepared ==
  /\ file \in Seq(Lines) /\ opt.keep_free_rows \in BOOLEAN /\ Follows /\ M!Reading /\ Informed(reader, at)

\* A line that says nothing about the table.
LEMMA QuietLineLearns ==
  ASSUME Prepared, NEW s,
         file[at].header \/ M!Tokens = <<>> \/ reader.section \notin CardSections,
         \A section \in CardSections :
           s.section = section <=> IF file[at].header THEN M!Tokens[1] = section ELSE reader.section = section,
         SameTable(reader, s), s.cols = reader.cols
  PROVE  Informed(s, at + 1)
<1>1. at \in Nat /\ \A section \in CardSections : at \notin TheSheet.cards[section]
  BY NextCard DEF Prepared
<1>2. \A section \in CardSections : s.section = section <=> Under(file, TheFields, section, at + 1)
  BY SectionFollows DEF Prepared
<1>3. at \notin TheSheet.cards["ROWS"] /\ \A section \in PairSections : at \notin PairCardsOf(TheSheet, section)
  BY <1>1 DEF CardSections, PairCardsOf
<1>4. Adding(reader.cols, s.cols)
  <2>1. reader.cols \in Seq(ColumnFields)
    BY NextLine DEF Prepared, MpsReaders, MpsMembers
  <2> QED
    BY <2>1, AddingNothing
<1>5. IsSheet(TheSheet)
  BY FileIsSheet DEF Prepared
<1>6. CASE NCardsOf(TheSheet) = {}
  BY <1>2, <1>6 DEF Prepared, Informed, SameTable
<1>7. CASE NCardsOf(TheSheet) # {}
  <2>1. KnowsTo(reader, TheSheet, at)
    BY <1>7 DEF Prepared, Informed
  <2>2. KnowsTo(s, TheSheet, at + 1)
    BY <1>1, <1>3, <1>4, <1>5, <1>7, <2>1, QuietKnows
  <2> QED
    BY <1>2, <1>7, <2>2 DEF Informed
<1> QED
  BY <1>6, <1>7

\* A card of one of the five sections.
LEMMA CardLearns ==
  ASSUME Prepared, NEW s, ~file[at].header, reader.section \in CardSections, s.section = reader.section,
         NCardsOf(TheSheet) = {} => s.objective_name = reader.objective_name,
         NCardsOf(TheSheet) # {} => KnowsTo(s, TheSheet, at + 1)
  PROVE  Informed(s, at + 1)
<1>1. \A section \in CardSections : s.section = section <=> Under(file, TheFields, section, at + 1)
  BY SectionFollows DEF Prepared
<1> QED
  BY <1>1 DEF Prepared, Informed


LEMMA ContinueLearns ==
  ASSUME NEW s, M!Continue(s), ~s.error => Informed(s, at + 1)
  PROVE  M!Throw \/ \E u : Learns(u)
BY DEF M!Continue, Learns

LEMMA HeaderLearns ==
  ASSUME Prepared, M!Header
  PROVE  M!Throw \/ \E s : Learns(s)
<1> DEFINE head == M!Tokens[1]
           inner == [reader EXCEPT !.section = head]
           sensed == [reader EXCEPT !.section = "OBJSENSE"]
           told == M!apply_objsense(reader, M!Tokens[2])
           w == M!warn(reader)
           ignored == [w EXCEPT !.section = "Ignored"]
<1>1. file[at].header
  BY DEF M!Header
<1>2. reader \in MpsReaders /\ at \in Int
  BY NextLine DEF Prepared
<1>3. CardSections \in SUBSET M!Sections /\ CardSections \cap M!ObjSenseHeads = {}
      /\ \A section \in CardSections : section \notin {"OBJSENSE", "Ignored", "None"}
  BY DEF CardSections, PairSections, M!Sections, M!ObjSenseHeads
<1>4. {"OBJSENSE", "Ignored"} \in SUBSET SectionNames /\ M!Sections \in SUBSET SectionNames
  BY DEF SectionNames
<1>5. w \in MpsReaders /\ SameTable(reader, w) /\ w.cols = reader.cols
  <2>1. Keeps(reader, w) /\ reader \in MpsMembers
    BY <1>2, WarnKeeps DEF MpsReaders
  <2> QED
    BY <2>1 DEF Keeps, KeepsColumns, M!warn, MpsMembers, SameTable
<1> HIDE DEF w, head
<1>6. CASE head \in M!Sections /\ M!Continue(inner)
  <2>1. SameTable(reader, inner) /\ inner.cols = reader.cols /\ inner.section = head
    BY <1>2, <1>4, <1>6, SectionDoes
  <2> HIDE DEF inner
  <2>2. Informed(inner, at + 1)
    BY <1>1, <2>1, QuietLineLearns DEF head
  <2> QED
    BY <1>6, <2>2, ContinueLearns
<1>7. CASE head \in M!ObjSenseHeads /\ M!Continue(sensed)
  <2>1. SameTable(reader, sensed) /\ sensed.cols = reader.cols /\ sensed.section = "OBJSENSE"
    BY <1>2, <1>4, SectionDoes
  <2> HIDE DEF sensed
  <2>2. Informed(sensed, at + 1)
    BY <1>1, <1>3, <1>7, <2>1, QuietLineLearns DEF head
  <2> QED
    BY <1>7, <2>2, ContinueLearns
<1>8. CASE head \in M!ObjSenseHeads /\ M!Continue(told)
  <2>1. ASSUME ~told.error PROVE Informed(told, at + 1)
    <3>1. SameTable(reader, told) /\ told.cols = reader.cols /\ told.section = "None"
      BY <1>2, <2>1, ObjSenseDoes
    <3> HIDE DEF told
    <3> QED
      BY <1>1, <1>3, <1>8, <3>1, QuietLineLearns DEF head
  <2> HIDE DEF told
  <2> QED
    BY <1>8, <2>1, ContinueLearns
<1>9. CASE head \notin M!Sections \cup M!ObjSenseHeads /\ M!Continue(ignored)
  <2>1. SameTable(w, ignored) /\ ignored.cols = w.cols /\ ignored.section = "Ignored"
    BY <1>4, <1>5, SectionDoes
  <2> HIDE DEF ignored
  <2>2. SameTable(reader, ignored) /\ ignored.cols = reader.cols
    BY <1>5, <2>1 DEF SameTable
  <2>3. Informed(ignored, at + 1)
    BY <1>1, <1>3, <1>9, <2>1, <2>2, QuietLineLearns DEF head
  <2> QED
    BY <1>9, <2>3, ContinueLearns
<1>10. \/ head \in M!Sections /\ M!Continue(inner)
       \/ head \in M!ObjSenseHeads /\ M!Continue(sensed)
       \/ head \in M!ObjSenseHeads /\ M!Continue(told)
       \/ head \notin M!Sections \cup M!ObjSenseHeads /\ M!Continue(ignored)
  BY DEF M!Header, head, w
<1> QED
  BY <1>6, <1>7, <1>8, <1>9, <1>10

\* A card that the table has nothing of.
LEMMA OtherCardLearns ==
  ASSUME Prepared, M!ObjSenseCard \/ M!SkippedCard
  PROVE  M!Throw \/ \E s : Learns(s)
<1>1. ~file[at].header /\ reader \in MpsReaders
  BY NextLine DEF M!ObjSenseCard, M!SkippedCard, M!Card, Prepared
<1>2. \A section \in CardSections : section \notin {"OBJSENSE", "Ignored", "None", "NAME"}
  BY DEF CardSections, PairSections
<1>3. CASE M!ObjSenseCard
  <2> DEFINE s == M!apply_objsense(reader, M!Tokens[1])
  <2>1. M!Continue(s) /\ reader.section = "OBJSENSE"
    BY <1>3 DEF M!ObjSenseCard, M!Card
  <2>2. ASSUME ~s.error PROVE Informed(s, at + 1)
    <3>1. SameTable(reader, s) /\ s.cols = reader.cols /\ s.section = "None"
      BY <1>1, <2>2, ObjSenseDoes
    <3> HIDE DEF s
    <3> QED
      BY <1>1, <1>2, <2>1, <3>1, QuietLineLearns
  <2> HIDE DEF s
  <2> QED
    BY <2>1, <2>2, ContinueLearns
<1>4. CASE M!SkippedCard
  <2>1. M!Continue(reader) /\ (reader.section \in {"NAME", "Ignored"} \/ M!Tokens = <<>>)
    BY <1>4 DEF M!SkippedCard, M!Card
  <2>2. SameTable(reader, reader)
    BY DEF SameTable
  <2>3. Informed(reader, at + 1)
    BY <1>1, <1>2, <2>1, <2>2, QuietLineLearns
  <2> QED
    BY <2>1, <2>3, ContinueLearns
<1> QED
  BY <1>3, <1>4

\* The card that is read next.
LEMMA CardOfSheet ==
  ASSUME Prepared, NEW section \in CardSections, M!Card(section)
  PROVE  /\ IsSheet(TheSheet) /\ TheSheet.keep = opt.keep_free_rows
         /\ at \in Nat /\ at \in Int /\ at \in TheSheet.cards[section]
         /\ \A other \in CardSections \ {section} : at \notin TheSheet.cards[other]
         /\ TheSheet.F[at] = M!Tokens /\ M!Tokens \in Seq(STRING)
         /\ reader \in MpsReaders /\ Distinct(reader.cols) /\ ~file[at].header /\ reader.section = section
         /\ IF NCardsOf(TheSheet) = {} THEN reader.objective_name = "" ELSE KnowsTo(reader, TheSheet, at)
<1>1. IsSheet(TheSheet) /\ TheSheet.keep = opt.keep_free_rows /\ TheSheet.F = TheFields
  BY FileIsSheet, SheetMembers DEF Prepared
<1>2. ~file[at].header /\ M!Tokens # <<>> /\ reader.section = section
  BY DEF M!Card
<1>3. /\ at \in Nat
      /\ \A other \in CardSections :
           at \in TheSheet.cards[other] <=> ~file[at].header /\ M!Tokens # <<>> /\ reader.section = other
  BY NextCard DEF Prepared
<1>4. TheFields[at] = M!Tokens /\ M!Tokens \in Seq(STRING) /\ reader \in MpsReaders
  BY NextLine DEF Prepared
<1>5. Distinct(reader.cols)
  BY DEF Prepared, Follows, Following, Known
<1>6. IF NCardsOf(TheSheet) = {} THEN reader.objective_name = "" ELSE KnowsTo(reader, TheSheet, at)
  BY DEF Prepared, Informed
<1>7. at \in Int
  BY <1>3
<1> QED
  BY <1>1, <1>2, <1>3, <1>4, <1>5, <1>6, <1>7

LEMMA RowsCardLearns ==
  ASSUME Prepared, M!RowsCard
  PROVE  M!Throw \/ \E s : Learns(s)
<1> DEFINE W == TheSheet
           t == M!Tokens
           s == M!handle_rows(reader, t)
<1>1. "ROWS" \in CardSections /\ M!Card("ROWS") /\ M!Continue(s)
  BY DEF CardSections, M!RowsCard
<1>2. /\ IsSheet(W) /\ W.keep = opt.keep_free_rows /\ at \in Int /\ at \in W.cards["ROWS"]
      /\ W.F[at] = t /\ t \in Seq(STRING)
      /\ reader \in MpsReaders /\ ~file[at].header /\ reader.section \in CardSections
      /\ IF NCardsOf(W) = {} THEN reader.objective_name = "" ELSE KnowsTo(reader, W, at)
  BY <1>1, CardOfSheet
<1>3. s.section = reader.section
  BY <1>2, RowsKeep DEF KeepsColumns
<1>4. s = M!handle_rows(reader, W.F[at])
  BY <1>2
<1> HIDE DEF W, s, t
<1>5. ASSUME ~s.error PROVE Informed(s, at + 1)
  <2>1. NCardsOf(W) = {} => s.objective_name = reader.objective_name
    <3> SUFFICES ASSUME NCardsOf(W) = {} PROVE s.objective_name = reader.objective_name
      OBVIOUS
    <3>1. t[1] # "N"
      BY <1>2 DEF NCardsOf
    <3>2. NewRow(reader, s, t[1], t[2])
      BY <1>2, <1>5, <3>1, RowsCardDoes DEF s
    <3> QED
      BY <3>2 DEF NewRow
  <2>2. NCardsOf(W) # {} => KnowsTo(s, W, at + 1)
    BY <1>2, <1>4, <1>5, RowsCardKnows
  <2> QED
    BY <1>2, <1>3, <2>1, <2>2, CardLearns DEF W
<1> QED
  BY <1>1, <1>5, ContinueLearns

LEMMA RhsCardLearns ==
  ASSUME Prepared, M!RhsCard
  PROVE  M!Throw \/ \E s : Learns(s)
<1> DEFINE W == TheSheet
           t == M!Tokens
           s == M!handle_rhs(reader, t)
<1>1. "RHS" \in CardSections /\ M!Card("RHS") /\ M!Continue(s)
  BY DEF CardSections, PairSections, M!RhsCard
<1>2. /\ IsSheet(W) /\ at \in Int /\ at \in W.cards["RHS"]
      /\ W.F[at] = t /\ t \in Seq(STRING)
      /\ reader \in MpsReaders /\ ~file[at].header /\ reader.section \in CardSections
      /\ IF NCardsOf(W) = {} THEN reader.objective_name = "" ELSE KnowsTo(reader, W, at)
  BY <1>1, CardOfSheet
<1>3. s.section = reader.section /\ s.objective_name = reader.objective_name
  BY <1>2, SidesKeep DEF Keeps, KeepsColumns
<1>4. s = M!handle_rhs(reader, W.F[at])
  BY <1>2
<1> HIDE DEF W, s, t
<1>5. ASSUME ~s.error PROVE Informed(s, at + 1)
  <2>1. NCardsOf(W) # {} => KnowsTo(s, W, at + 1)
    BY <1>2, <1>4, <1>5, RhsCardKnows
  <2> QED
    BY <1>2, <1>3, <2>1, CardLearns DEF W
<1> QED
  BY <1>1, <1>5, ContinueLearns

LEMMA RangesCardLearns ==
  ASSUME Prepared, M!RangesCard
  PROVE  M!Throw \/ \E s : Learns(s)
<1> DEFINE W == TheSheet
           t == M!Tokens
           s == M!handle_ranges(reader, t)
<1>1. "RANGES" \in CardSections /\ M!Card("RANGES") /\ M!Continue(s)
  BY DEF CardSections, PairSections, M!RangesCard
<1>2. /\ IsSheet(W) /\ at \in Int /\ at \in W.cards["RANGES"]
      /\ W.F[at] = t /\ t \in Seq(STRING)
      /\ reader \in MpsReaders /\ ~file[at].header /\ reader.section \in CardSections
      /\ IF NCardsOf(W) = {} THEN reader.objective_name = "" ELSE KnowsTo(reader, W, at)
  BY <1>1, CardOfSheet
<1>3. s.section = reader.section /\ s.objective_name = reader.objective_name
  BY <1>2, SidesKeep DEF Keeps, KeepsColumns
<1>4. s = M!handle_ranges(reader, W.F[at])
  BY <1>2
<1> HIDE DEF W, s, t
<1>5. ASSUME ~s.error PROVE Informed(s, at + 1)
  <2>1. NCardsOf(W) # {} => KnowsTo(s, W, at + 1)
    BY <1>2, <1>4, <1>5, RangesCardKnows
  <2> QED
    BY <1>2, <1>3, <2>1, CardLearns DEF W
<1> QED
  BY <1>1, <1>5, ContinueLearns

LEMMA ColumnsCardLearns ==
  ASSUME Prepared, M!ColumnsCard
  PROVE  M!Throw \/ \E s : Learns(s)
<1> DEFINE W == TheSheet
           t == M!Tokens
           s == M!handle_columns(reader, t)
<1>1. "COLUMNS" \in CardSections /\ M!Card("COLUMNS") /\ M!Continue(s)
  BY DEF CardSections, PairSections, M!ColumnsCard
<1>2. /\ IsSheet(W) /\ at \in Int /\ at \in Nat /\ at \in W.cards["COLUMNS"]
      /\ \A other \in CardSections \ {"COLUMNS"} : at \notin W.cards[other]
      /\ W.F[at] = t /\ t \in Seq(STRING) /\ Distinct(reader.cols)
      /\ reader \in MpsReaders /\ ~file[at].header /\ reader.section \in CardSections
      /\ IF NCardsOf(W) = {} THEN reader.objective_name = "" ELSE KnowsTo(reader, W, at)
  BY <1>1, CardOfSheet
<1>3. s = M!handle_columns(reader, W.F[at])
  BY <1>2
<1>4. reader \in MpsMembers
  BY <1>2 DEF MpsReaders
<1> HIDE DEF W, t
<1>5. CASE M!IsMarker(t)
  <2> DEFINE b == M!Contains(t, "INTORG")
             m == [reader EXCEPT !.in_integer_block = b]
  <2>1. s = m
    BY <1>5 DEF M!handle_columns
  <2> HIDE DEF b
  <2>2. SameTable(reader, m) /\ m.cols = reader.cols /\ m.section = reader.section
    BY <1>4 DEF MpsMembers, SameTable
  <2> HIDE DEF m, s
  <2>3. Adding(reader.cols, m.cols)
    <3>1. reader.cols \in Seq(ColumnFields)
      BY <1>4 DEF MpsMembers
    <3> QED
      BY <2>2, <3>1, AddingNothing
  <2>4. at \notin W.cards["ROWS"] /\ \A section \in PairSections : at \notin PairCardsOf(W, section)
    BY <1>2, <1>5 DEF PairCardsOf, CardSections, PairSections
  <2>5. NCardsOf(W) # {} => KnowsTo(m, W, at + 1)
    BY <1>2, <2>2, <2>3, <2>4, QuietKnows
  <2>6. m.objective_name = reader.objective_name
    BY <2>2 DEF SameTable
  <2>7. Informed(m, at + 1)
    BY <1>2, <2>2, <2>5, <2>6, CardLearns DEF W
  <2> QED
    BY <1>1, <2>1, <2>7, ContinueLearns
<1>6. CASE ~M!IsMarker(t)
  <2>1. at \in PairCardsOf(W, "COLUMNS")
    BY <1>2, <1>6 DEF PairCardsOf
  <2>2. ~s.error => s.section = reader.section /\ s.objective_name = reader.objective_name
    BY <1>2, <1>6, ColumnsCardDoes
  <2> HIDE DEF s
  <2>3. ASSUME ~s.error PROVE Informed(s, at + 1)
    <3>1. NCardsOf(W) # {} => KnowsTo(s, W, at + 1)
      BY <1>2, <1>3, <2>1, <2>3, ColumnsCardKnows
    <3> QED
      BY <1>2, <2>2, <2>3, <3>1, CardLearns DEF W
  <2> QED
    BY <1>1, <2>3, ContinueLearns
<1> QED
  BY <1>5, <1>6

LEMMA BoundsCardLearns ==
  ASSUME Prepared, M!BoundsCard
  PROVE  M!Throw \/ \E s : Learns(s)
<1> DEFINE W == TheSheet
           t == M!Tokens
           s == M!handle_bounds(reader, t)
<1>1. "BOUNDS" \in CardSections /\ M!Card("BOUNDS") /\ M!Continue(s)
  BY DEF CardSections, M!BoundsCard
<1>2. /\ IsSheet(W) /\ at \in Int /\ at \in Nat
      /\ \A other \in CardSections \ {"BOUNDS"} : at \notin W.cards[other]
      /\ t \in Seq(STRING) /\ Distinct(reader.cols)
      /\ reader \in MpsReaders /\ ~file[at].header /\ reader.section \in CardSections
      /\ IF NCardsOf(W) = {} THEN reader.objective_name = "" ELSE KnowsTo(reader, W, at)
  BY <1>1, CardOfSheet
<1> HIDE DEF W, t
<1>3. at \notin W.cards["ROWS"] /\ \A section \in PairSections : at \notin PairCardsOf(W, section)
  BY <1>2 DEF PairCardsOf, CardSections, PairSections
<1>4. ASSUME ~s.error PROVE Informed(s, at + 1)
  <2>1. s.section = reader.section /\ SameTable(reader, s)
    BY <1>2, <1>4, BoundsCardDoes
  <2>2. NCardsOf(W) # {} => KnowsTo(s, W, at + 1)
    BY <1>2, <1>3, <1>4, BoundsCardKnows
  <2> HIDE DEF s
  <2>3. s.objective_name = reader.objective_name
    BY <2>1 DEF SameTable
  <2> QED
    BY <1>2, <2>1, <2>2, <2>3, CardLearns DEF W
<1> HIDE DEF s
<1> QED
  BY <1>1, <1>4, ContinueLearns


(***************************************************************************)
(* A reader that begins, and one that is done                              *)
(***************************************************************************)

\* The members of a new reader that rows are about.
LEMMA NewIsBlank ==
  /\ M!NewReader \in MpsReaders
  /\ M!NewReader.rows = <<>> /\ M!NewReader.row_sense = <<>> /\ M!NewReader.row_rhs = <<>>
  /\ M!NewReader.cols = <<>> /\ M!NewReader.objective_constant = 0
  /\ M!NewReader.objective_name = "" /\ M!NewReader.dropped_rows = {} /\ M!NewReader.section = "None"
BY NewIsReader DEF M!NewReader, M!NewBuilder

\* Before the first line there is nothing to know.
LEMMA NewKnows ==
  ASSUME NEW W, IsSheet(W), NCardsOf(W) # {}
  PROVE  KnowsTo(M!NewReader, W, 1)
<1> DEFINE r == M!NewReader
           D == DoneTo(W, 1, 0)
<1>1. /\ r.rows = <<>> /\ r.cols = <<>> /\ r.objective_constant = 0
      /\ r.objective_name = "" /\ r.dropped_rows = {}
  BY NewIsBlank
<1> HIDE DEF r
<1>a. Len(r.rows) = 0 /\ Len(r.cols) = 0
  BY <1>1
<1>2. Len(r.rows) = 0 /\ 1..Len(r.rows) = {} /\ 1..Len(r.cols) = {}
  <2>1. 1..0 = {}
    OBVIOUS
  <2> QED
    BY <1>a, <2>1
<1>3. D = {}
  <2> SUFFICES ASSUME NEW m \in Places(W), m[1] < 1 \/ (m[1] = 1 /\ m[2] <= 0) PROVE FALSE
    BY DEF DoneTo
  <2>1. PICK s \in PairSections : m \in PlacesIn(W, s)
    BY DEF Places, PairSections
  <2>2. m[1] \in W.cards[s] /\ s \in CardSections /\ m[2] \in Nat /\ m[2] >= 1
    BY <2>1, PlaceIsPair DEF CardSections
  <2>3. m[1] \in Nat /\ m[1] >= 1
    BY <2>2, LineOfSheet
  <2> QED
    BY <2>2, <2>3
<1>4. Earlier(W, 1) = {}
  <2>1. \A c \in W.cards["ROWS"] : c \in Nat /\ c >= 1
    BY LineOfSheet DEF CardSections
  <2>2. \A c \in RCardsOf(W) : ~(c < 1)
    BY <2>1 DEF RCardsOf
  <2> QED
    BY <2>2 DEF Earlier
<1>5. ~(ObjCard(W) < 1)
  <2>1. ObjCard(W) \in W.cards["ROWS"]
    BY ObjectiveIsFirst DEF NCardsOf
  <2>2. ObjCard(W) \in Nat /\ ObjCard(W) >= 1
    BY <2>1, LineOfSheet DEF CardSections
  <2> QED
    BY <2>2
<1> HIDE DEF D
<1>6. RowsAre(r, W, 1)
  <2>1. Cardinality(Earlier(W, 1)) = 0
    BY <1>4, FS_EmptySet
  <2> QED
    BY <1>2, <2>1 DEF RowsAre
<1>7. NamesAre(r, W, 1)
  BY <1>1, <1>5 DEF NamesAre
<1>8. RowsHave(r, W, D) /\ CostsAre(r.cols, W, D)
  BY <1>2 DEF RowsHave, CostsAre
<1>9. ConstantIs(r.objective_constant, W, D) /\ ColumnsAre(r.cols, W, D) /\ DeclaredTo(W, D)
  BY <1>1, <1>3 DEF ConstantIs, ColumnsAre, DeclaredTo
<1> QED
  BY <1>6, <1>7, <1>8, <1>9 DEF KnowsTo, Knows, r, D

\* A file that may be read, and a reader that begins it.
Readable == file \in Seq(Lines) /\ opt.keep_free_rows \in BOOLEAN
Begins == Informed(M!NewReader, 1)

LEMMA NewIsInformed == Readable => Begins
<1> SUFFICES ASSUME file \in Seq(Lines), opt.keep_free_rows \in BOOLEAN PROVE Begins
  BY DEF Readable
<1>1. IsSheet(TheSheet)
  BY FileIsSheet
<1>2. NCardsOf(TheSheet) # {} => KnowsTo(M!NewReader, TheSheet, 1)
  BY <1>1, NewKnows
<1>3. 1..(1 - 1) = {}
  OBVIOUS
<1>4. \A section \in CardSections : section # "None" /\ ~Under(file, TheFields, section, 1)
  BY <1>3 DEF CardSections, PairSections, Under
<1> QED
  BY <1>2, <1>4, NewIsBlank DEF Informed, Begins

LEMMA NextIsInformed == Readable' => Begins'
BY NewIsInformed, PTL

\* Behind the last card everything is known.
LEMMA AllIsKnown ==
  ASSUME NEW W, IsSheet(W), NCardsOf(W) # {}, NEW i, NEW n,
         \A section \in CardSections : \A c \in W.cards[section] : c < i /\ c < n,
         NEW r, KnowsTo(r, W, i)
  PROVE  Knows(r, W, n, Places(W))
<1>1. DoneTo(W, i, 0) = Places(W)
  <2>1. ASSUME NEW m \in Places(W) PROVE m[1] < i
    <3>1. PICK s \in PairSections : m \in PlacesIn(W, s)
      BY DEF Places, PairSections
    <3>2. m[1] \in W.cards[s] /\ s \in CardSections
      BY <3>1, PlaceIsPair DEF CardSections
    <3> QED
      BY <3>2
  <2> QED
    BY <2>1 DEF DoneTo
<1>2. Knows(r, W, i, Places(W))
  BY <1>1 DEF KnowsTo
<1>3. /\ \A c \in RCardsOf(W) : c < i /\ c < n
      /\ \A c \in W.cards["ROWS"] : c < i /\ c < n
  BY DEF RCardsOf, CardSections
<1>4. ObjCard(W) < i /\ ObjCard(W) < n
  BY <1>3, ObjectiveIsFirst DEF NCardsOf
<1>5. Earlier(W, n) = Earlier(W, i)
  BY <1>3 DEF Earlier
<1>6. RowsAre(r, W, n)
  BY <1>2, <1>3, <1>5 DEF RowsAre, Knows
<1>7. NamesAre(r, W, n)
  BY <1>2, <1>3, <1>4 DEF NamesAre, Knows
<1> QED
  BY <1>2, <1>6, <1>7 DEF Knows

\* All that a reader knows of the file that it has read.
TableIsRead ==
  /\ file \in Seq(Lines) /\ reader \in MpsReaders /\ NCardsOf(TheSheet) # {}
  /\ Knows(reader, TheSheet, Len(file) + 1, Places(TheSheet))

LEMMA EndIsKnown ==
  ASSUME file \in Seq(Lines), opt.keep_free_rows \in BOOLEAN, Follows, M!AtEnd, Informed(reader, at),
         reader.objective_name # ""
  PROVE  TableIsRead
<1>2. \A section : \A c \in M!Cards(section) : c < at /\ c < Len(file) + 1
  BY LinesBeforeEnd DEF M!Cards
<1>3. \A section \in CardSections : \A c \in TheSheet.cards[section] : c < at /\ c < Len(file) + 1
  BY <1>2, SheetMembers
<1>4. NCardsOf(TheSheet) # {} /\ KnowsTo(reader, TheSheet, at)
  BY DEF Informed
<1>5. IsSheet(TheSheet)
  BY FileIsSheet
<1>6. Knows(reader, TheSheet, Len(file) + 1, Places(TheSheet))
  BY <1>3, <1>4, <1>5, AllIsKnown
<1> QED
  BY <1>4, <1>6 DEF TableIsRead, Follows, Following

\* A reader that differs in its warnings knows the same.
LEMMA WarningsAside ==
  ASSUME NEW W, NEW n, NEW D, NEW r, NEW s, Knows(r, W, n, D), SameTable(r, s), s.cols = r.cols
  PROVE  Knows(s, W, n, D)
BY DEF Knows, SameTable, RowsAre, NamesAre, RowsHave, RowHas

(***************************************************************************)
(* The inductive invariant                                                 *)
(***************************************************************************)

TableInv ==
  /\ opt.keep_free_rows \in BOOLEAN
  /\ format = "mps" /\ outcome = "reading" => Informed(reader, at)
  /\ format = "mps" /\ outcome = "read" => TableIsRead

LEMMA SameSheet ==
  ASSUME file' = file, fixed' = fixed, opt' = opt
  PROVE  TheSheet' = TheSheet /\ TheFields' = TheFields
<1>1. \A section : M!Cards(section)' = M!Cards(section)
  BY DEF M!Cards, M!Visible, M!Fields
<1>2. TheFields' = TheFields
  BY SameFile
<1> QED
  BY <1>1, <1>2 DEF TheSheet

LEMMA ThrowInforms ==
  ASSUME ReaderInv, TableInv, format = "mps", format' = "mps", outcome = "reading", M!Throw
  PROVE  TableInv'
<1>1. file' \in Seq(Lines) /\ opt' = opt /\ opt'.keep_free_rows \in BOOLEAN
  BY DEF ReaderInv, TableInv, M!Throw
<1>2. outcome' = "failed" \/ (outcome' = "reading" /\ reader' = M!NewReader /\ at' = 1)
  BY DEF M!Throw
<1>3. outcome' = "reading" => Informed(reader, at)'
  BY <1>1, <1>2, NextIsInformed DEF Readable, Begins, Informed
<1> QED
  BY <1>1, <1>2, <1>3 DEF TableInv

LEMMA LearnsInforms ==
  ASSUME TableInv, format = "mps", format' = "mps", outcome = "reading", NEW s, Learns(s)
  PROVE  TableInv'
<1>1. /\ file' = file /\ fixed' = fixed /\ opt' = opt /\ outcome' = "reading"
      /\ reader' = s /\ at' = at + 1 /\ Informed(s, at + 1)
  BY DEF Learns
<1>2. TheSheet' = TheSheet /\ TheFields' = TheFields
  BY <1>1, SameSheet
<1>3. Informed(reader, at)'
  BY <1>1, <1>2 DEF Informed
<1> QED
  BY <1>1, <1>3 DEF TableInv

LEMMA FinishInforms ==
  ASSUME ReaderInv, TableInv, format = "mps", format' = "mps", M!Finish
  PROVE  TableInv'
<1>1. /\ outcome = "reading" /\ M!AtEnd /\ file \in Seq(Lines) /\ Follows
      /\ Informed(reader, at) /\ opt.keep_free_rows \in BOOLEAN
  BY DEF M!Finish, ReaderInv, TableInv
<1>2. CASE M!Throw
  BY <1>1, <1>2, ThrowInforms
<1>3. CASE /\ reader.objective_name # "" /\ reader' = M!Announced(reader) /\ outcome' = "read"
           /\ UNCHANGED <<file, opt, fixed, at>>
  <2>1. TableIsRead
    BY <1>1, <1>3, EndIsKnown
  <2>2. TheSheet' = TheSheet
    BY <1>3, SameSheet
  <2>3. reader \in MpsReaders /\ reader \in MpsMembers
    BY <1>1 DEF Follows, Following, MpsReaders
  <2>4. SameTable(reader, reader') /\ reader'.cols = reader.cols
    BY <1>3, <2>3 DEF M!Announced, MpsMembers, SameTable
  <2>5. reader' \in MpsReaders
    <3> DEFINE w == (IF fixed THEN <<0>> ELSE <<>>) \o reader.warnings
    <3>1. w \in Seq(Int)
      <4>1. reader.warnings \in Seq(Int)
        BY <2>3 DEF MpsMembers
      <4> QED
        BY <4>1
    <3>2. reader' = [reader EXCEPT !.warnings = w]
      BY <1>3 DEF M!Announced
    <3> HIDE DEF w
    <3> QED
      BY <2>3, <3>1, <3>2, MembersReplaced
  <2>6. Knows(reader', TheSheet, Len(file) + 1, Places(TheSheet))
    BY <2>1, <2>4, WarningsAside DEF TableIsRead
  <2>7. TableIsRead'
    BY <1>3, <2>1, <2>2, <2>5, <2>6 DEF TableIsRead
  <2> QED
    BY <1>1, <1>3, <2>7 DEF TableInv
<1> QED
  BY <1>2, <1>3 DEF M!Finish

LEMMA MpsInforms ==
  ASSUME ReaderInv, TableInv, ReadMps
  PROVE  TableInv'
<1>1. format = "mps" /\ format' = "mps" /\ M!Next /\ file \in Seq(Lines)
  BY DEF ReadMps, ReaderInv
<1>2. CASE M!Finish
  BY <1>1, <1>2, FinishInforms
<1>3. CASE ~M!Finish
  <2>1. outcome = "reading"
    BY <1>1, MpsStep
  <2>2. Follows /\ Informed(reader, at) /\ opt.keep_free_rows \in BOOLEAN
    BY <1>1, <2>1 DEF ReaderInv, TableInv
  <2>3. M!Reading
    BY <1>1, <1>3 DEF M!Next, M!Header, M!ObjSenseCard, M!RowsCard, M!ColumnsCard, M!RhsCard,
       M!RangesCard, M!BoundsCard, M!StrayCard, M!SkippedCard, M!Card
  <2>4. Prepared
    BY <1>1, <2>2, <2>3 DEF Prepared
  <2>5. M!Throw \/ \E s : Learns(s)
    <3>1. CASE M!Header
      BY <2>4, <3>1, HeaderLearns
    <3>2. CASE M!ObjSenseCard \/ M!SkippedCard
      BY <2>4, <3>2, OtherCardLearns
    <3>3. CASE M!RowsCard
      BY <2>4, <3>3, RowsCardLearns
    <3>4. CASE M!ColumnsCard
      BY <2>4, <3>4, ColumnsCardLearns
    <3>5. CASE M!RhsCard
      BY <2>4, <3>5, RhsCardLearns
    <3>6. CASE M!RangesCard
      BY <2>4, <3>6, RangesCardLearns
    <3>7. CASE M!BoundsCard
      BY <2>4, <3>7, BoundsCardLearns
    <3>8. CASE M!StrayCard
      BY <3>8 DEF M!StrayCard
    <3> QED
      BY <1>1, <1>3, <3>1, <3>2, <3>3, <3>4, <3>5, <3>6, <3>7, <3>8 DEF M!Next
  <2> QED
    BY <1>1, <2>1, <2>5, ThrowInforms, LearnsInforms
<1> QED
  BY <1>2, <1>3

LEMMA TableInvInit == Init => TableInv
<1> SUFFICES ASSUME Init PROVE TableInv
  OBVIOUS
<1>1. file \in Seq(Lines)
  <2>1. PICK k \in DOMAIN Jobs : job \in Jobs[k]
    BY DEF Init
  <2> QED
    BY <2>1, FilesAssumption DEF Init
<1>2. opt.keep_free_rows \in BOOLEAN
  <2>1. CASE job.call = "read_mps"
    BY <2>1 DEF Init
  <2>2. CASE job.call # "read_mps"
    <3>1. opt = DefaultOptions
      BY <2>2 DEF Init
    <3>2. DefaultOptions.keep_free_rows = TRUE
      BY DEF DefaultOptions
    <3> QED
      BY <3>1, <3>2
  <2> QED
    BY <2>1, <2>2
<1>3. outcome = "reading" /\ at = 1 /\ (format = "mps" => reader = M!NewReader)
  BY DEF Init
<1> QED
  BY <1>1, <1>2, <1>3, NewIsInformed DEF TableInv, Readable, Begins

LEMMA TableInvUnchanged == TableInv /\ UNCHANGED vars => TableInv'
<1> SUFFICES ASSUME TableInv, UNCHANGED vars PROVE TableInv'
  OBVIOUS
<1>1. /\ file' = file /\ fixed' = fixed /\ opt' = opt /\ format' = format /\ outcome' = outcome
      /\ at' = at /\ reader' = reader
  BY DEF vars
<1>2. TheSheet' = TheSheet /\ TheFields' = TheFields
  BY <1>1, SameSheet
<1>3. (Informed(reader, at)' <=> Informed(reader, at)) /\ (TableIsRead' <=> TableIsRead)
  BY <1>1, <1>2 DEF Informed, TableIsRead
<1> QED
  BY <1>1, <1>3 DEF TableInv

LEMMA TableInvStep ==
  ReaderInv /\ TableInv /\ [Reads]_vars => TableInv'
<1> SUFFICES ASSUME ReaderInv, TableInv, [Reads]_vars PROVE TableInv'
  OBVIOUS
<1>1. CASE Choose
  <2>1. /\ format = "none" /\ file' = file /\ opt' = opt /\ at' = at /\ outcome' \in {"reading", "failed"}
        /\ format' = "mps" => reader' = M!NewReader
    BY <1>1 DEF Choose
  <2>2. file' \in Seq(Lines) /\ at' = 1 /\ opt'.keep_free_rows \in BOOLEAN
    BY <2>1 DEF ReaderInv, TableInv
  <2>3. format' = "mps" => Informed(reader, at)'
    BY <2>1, <2>2, NextIsInformed DEF Readable, Begins, Informed
  <2> QED
    BY <2>1, <2>2, <2>3 DEF TableInv
<1>2. CASE ReadMps
  BY <1>2, MpsInforms
<1>3. CASE ReadLp
  BY <1>3 DEF ReadLp, TableInv
<1>4. CASE UNCHANGED vars
  BY <1>4, TableInvUnchanged
<1> QED
  BY <1>1, <1>2, <1>3, <1>4 DEF Reads

LEMMA TableInvHolds == ReadSpec => []TableInv
BY ReaderInvHolds, TableInvInit, TableInvStep, PTL DEF ReadSpec


(***************************************************************************)
(* The sheet is the table that the properties speak of                     *)
(***************************************************************************)

\* Of places there is a last one.
LEMMA LastIsElement ==
  ASSUME NEW n \in Nat, NEW T, T # {}, \A m \in T : m[1] \in 1..n /\ m = <<m[1], m[2]>>,
         \A i \in 1..n : \E K \in Nat : \A m \in T : m[1] = i => m[2] \in 1..K
  PROVE  M!LastOf(T) \in T
<1> DEFINE A == {m[1] : m \in T}
           a == Max(A)
<1>1. A \in SUBSET (1..n) /\ A # {}
  OBVIOUS
<1>2. a \in A /\ \A b \in A : a >= b
  <2> HIDE DEF A
  <2> QED
    BY <1>1, MaxIsElement
<1>3. a \in 1..n
  BY <1>1, <1>2
<1>4. \A m \in T : m[1] \in Int /\ a >= m[1]
  BY <1>2
<1>5. \E m \in T : m[1] = a
  BY <1>2
<1> HIDE DEF A, a
<1>6. PICK K \in Nat : \A m \in T : m[1] = a => m[2] \in 1..K
  BY <1>3
<1> DEFINE B == {m[2] : m \in {x \in T : x[1] = a}}
           b == Max(B)
<1>7. B \in SUBSET (1..K) /\ B # {}
  BY <1>5, <1>6
<1>8. b \in B /\ \A c \in B : b >= c
  <2> HIDE DEF B
  <2> QED
    BY <1>7, MaxIsElement
<1>9. \A m \in T : m[1] = a => m[2] \in Int /\ b >= m[2]
  BY <1>6, <1>8
<1>10. PICK x \in T : x[1] = a /\ x[2] = b
  BY <1>8
<1>11. b \in Int
  BY <1>7, <1>8
<1> HIDE DEF B, b
<1>12. ASSUME NEW m \in T \ {x} PROVE M!Before(m, x)
  <2>1. m[1] \in Int /\ a \in Int /\ a >= m[1]
    BY <1>3, <1>4
  <2>2. m[1] = a => m[2] \in Int /\ b >= m[2] /\ m[2] # b
    <3> SUFFICES ASSUME m[1] = a PROVE m[2] \in Int /\ b >= m[2] /\ m[2] # b
      OBVIOUS
    <3>1. m = <<m[1], m[2]>> /\ x = <<x[1], x[2]>>
      OBVIOUS
    <3>2. m[2] # b
      BY <1>10, <3>1
    <3> QED
      BY <1>9, <3>2
  <2>3. m[1] < a \/ (m[1] = a /\ m[2] < b)
    BY <1>11, <2>1, <2>2
  <2> QED
    BY <1>10, <2>3 DEF M!Before
<1> QED
  BY <1>12 DEF M!LastOf

\* So there is one of the places of a section.
LEMMA LastOfPlaces ==
  ASSUME NEW W, IsSheet(W), NEW section \in PairSections, NEW T \in SUBSET PlacesIn(W, section), T # {}
  PROVE  M!LastOf(T) \in T
<1> DEFINE n == W.lines
<1>1. n \in Nat
  BY DEF IsSheet
<1>2. \A m \in T : /\ m[1] \in 1..n /\ m = <<m[1], m[2]>>
                   /\ m[2] \in DOMAIN PairsOf(W, section, m[1])
  <2> TAKE m \in T
  <2>1. /\ m[1] \in W.cards[section] /\ section \in CardSections /\ m = <<m[1], m[2]>>
        /\ m[2] \in DOMAIN PairsOf(W, section, m[1])
    BY PlaceIsPair DEF CardSections
  <2>2. m[1] \in 1..n
    BY <2>1, LineOfSheet
  <2> QED
    BY <2>1, <2>2
<1>3. ASSUME NEW i \in 1..n PROVE \E K \in Nat : \A m \in T : m[1] = i => m[2] \in 1..K
  <2>1. PICK K \in Int : DOMAIN PairsOf(W, section, i) = 1..K
    BY PairsOfLine
  <2>2. CASE K \in Nat
    BY <1>2, <2>1, <2>2
  <2>3. CASE K \notin Nat
    <3>1. 1..K = 1..0
      BY <2>1, <2>3
    <3> QED
      BY <1>2, <2>1, <3>1
  <2> QED
    BY <2>2, <2>3
<1> HIDE DEF n
<1> QED
  BY <1>1, <1>2, <1>3, LastIsElement

\* The cards of the sheet, and what stands on them.
LEMMA SheetCards ==
  ASSUME Readable
  PROVE  /\ IsSheet(TheSheet)
         /\ \A section \in CardSections : M!Cards(section) = TheSheet.cards[section]
         /\ \A section \in CardSections : \A i \in M!Cards(section) : M!Fields(i) = TheSheet.F[i]
         /\ TheSheet.keep = opt.keep_free_rows
<1>1. IsSheet(TheSheet)
  BY FileIsSheet DEF Readable
<1>2. \A section : \A i \in M!Cards(section) : i \in DOMAIN file
  BY DEF M!Cards, M!Visible
<1>3. \A section : \A i \in M!Cards(section) : M!Fields(i) = TheFields[i]
  BY <1>2 DEF TheFields
<1> QED
  BY <1>1, <1>3, SheetMembers

LEMMA SameCount == ASSUME NEW T PROVE M!Cardinality(T) = Cardinality(T)
BY DEF M!Cardinality, Cardinality

LEMMA SheetRows ==
  ASSUME Readable
  PROVE  /\ M!ObjectiveCard = ObjCard(TheSheet) /\ M!RowCards = RCardsOf(TheSheet)
         /\ \A q : M!RowCard(q) = CardOf(TheSheet, q)
<1> DEFINE W == TheSheet
           C == M!Cards("ROWS")
<1>1. /\ "ROWS" \in CardSections /\ C = W.cards["ROWS"] /\ W.keep = opt.keep_free_rows
      /\ \A i \in C : M!Fields(i) = W.F[i]
  BY SheetCards DEF CardSections
<1> HIDE DEF W
<1>2. {i \in C : M!Fields(i)[1] = "N"} = NCardsOf(W)
  BY <1>1 DEF NCardsOf
<1>3. M!ObjectiveCard = ObjCard(W)
  BY <1>2 DEF M!ObjectiveCard, ObjCard
<1>4. M!RowCards = RCardsOf(W)
  BY <1>1, <1>3 DEF M!RowCards, RCardsOf
<1>5. \A q : M!RowCard(q) = CardOf(W, q)
  <2> DEFINE R == RCardsOf(W)
  <2>1. M!RowCards = R
    BY <1>4
  <2>2. \A q : CardOf(W, q) = CHOOSE c \in R : Cardinality({d \in R : d <= c}) = q
    BY DEF CardOf
  <2> HIDE DEF R
  <2>3. \A q, c : (M!Cardinality({d \in R : d <= c}) = q) <=> (Cardinality({d \in R : d <= c}) = q)
    BY SameCount
  <2>4. \A q : M!RowCard(q) = CHOOSE c \in R : M!Cardinality({d \in R : d <= c}) = q
    BY <2>1 DEF M!RowCard
  <2> QED
    BY <2>2, <2>3, <2>4
<1> QED
  BY <1>3, <1>4, <1>5 DEF W

LEMMA SheetPairs ==
  ASSUME Readable, NEW section \in PairSections
  PROVE  /\ M!PairCards(section) = PairCardsOf(TheSheet, section)
         /\ \A i \in PairCardsOf(TheSheet, section) : M!CardPairs(section, i) = PairsOf(TheSheet, section, i)
         /\ \A name : M!Mentions(section, name) = MentionsOf(TheSheet, section, name)
         /\ \A m \in PlacesIn(TheSheet, section) : M!Value(section, m) = ValueAt(TheSheet, section, m)
<1> DEFINE W == TheSheet
           C == M!Cards(section)
           P == PairCardsOf(W, section)
<1>1. /\ IsSheet(W) /\ C = W.cards[section] /\ \A i \in C : M!Fields(i) = W.F[i]
  BY SheetCards DEF CardSections
<1> HIDE DEF W
<1>2. M!PairCards(section) = P
  BY <1>1 DEF M!PairCards, PairCardsOf
<1>3. \A i \in P : M!CardPairs(section, i) = PairsOf(W, section, i)
  BY <1>1 DEF M!CardPairs, PairsOf, PairCardsOf
<1>4. UNION {{i} \X DOMAIN M!CardPairs(section, i) : i \in M!PairCards(section)} = PlacesIn(W, section)
  <2> DEFINE X(i) == {i} \X DOMAIN M!CardPairs(section, i)
             Y(i) == {i} \X DOMAIN PairsOf(W, section, i)
  <2>1. \A i \in P : X(i) = Y(i)
    BY <1>3
  <2>2. UNION {{i} \X DOMAIN M!CardPairs(section, i) : i \in M!PairCards(section)} = UNION {X(i) : i \in P}
    BY <1>2
  <2>3. PlacesIn(W, section) = UNION {Y(i) : i \in P}
    BY DEF PlacesIn
  <2> HIDE DEF X, Y, P
  <2>4. {X(i) : i \in P} = {Y(i) : i \in P}
    BY <2>1
  <2> QED
    BY <2>2, <2>3, <2>4
<1>5. \A m \in PlacesIn(W, section) : m[1] \in P
  BY <1>1, PlaceIsPair
<1> HIDE DEF P
<1>6. \A m \in PlacesIn(W, section) : M!CardPairs(section, m[1]) = PairsOf(W, section, m[1])
  BY <1>3, <1>5
<1>7. \A name : M!Mentions(section, name) = MentionsOf(W, section, name)
  BY <1>4, <1>6 DEF M!Mentions, MentionsOf, NamedAt
<1>8. \A m \in PlacesIn(W, section) : M!Value(section, m) = ValueAt(W, section, m)
  BY <1>6 DEF M!Value, ValueAt
<1> QED
  BY <1>2, <1>3, <1>7, <1>8 DEF W, P

\* Whose the places are.
LEMMA SheetMentions ==
  ASSUME Readable, NCardsOf(TheSheet) # {}, NEW section \in PairSections
  PROVE  /\ M!OfObjective(section) = OfObj(TheSheet, section)
         /\ OfObj(TheSheet, section) \in SUBSET PlacesIn(TheSheet, section)
         /\ \A q : CardOf(TheSheet, q) \in RCardsOf(TheSheet) =>
              /\ M!OfRow(section, q) = OfCard(TheSheet, section, CardOf(TheSheet, q))
              /\ OfCard(TheSheet, section, CardOf(TheSheet, q)) \in SUBSET PlacesIn(TheSheet, section)
<1> DEFINE W == TheSheet
           C == M!Cards("ROWS")
<1>1. /\ IsSheet(W) /\ C = W.cards["ROWS"] /\ \A i \in C : M!Fields(i) = W.F[i]
  BY SheetCards DEF CardSections
<1>2. M!ObjectiveCard = ObjCard(W) /\ \A q : M!RowCard(q) = CardOf(W, q)
  BY SheetRows
<1>3. \A name : M!Mentions(section, name) = MentionsOf(W, section, name)
  BY SheetPairs
<1>4. NCardsOf(W) # {}
  OBVIOUS
<1> HIDE DEF W
<1>5. \A c \in C : M!After(c, section) = AfterOf(W, c, section)
  BY <1>1, <1>3 DEF M!After, AfterOf, NameOn
<1>6. ObjCard(W) \in C
  BY <1>1, <1>4, ObjectiveIsFirst DEF NCardsOf
<1>7. M!OfObjective(section) = OfObj(W, section)
  BY <1>2, <1>5, <1>6 DEF M!OfObjective, OfObj
<1>8. \A c : AfterOf(W, c, section) \in SUBSET PlacesIn(W, section)
  BY DEF AfterOf, MentionsOf
<1>9. OfObj(W, section) \in SUBSET PlacesIn(W, section)
  BY <1>8 DEF OfObj
<1>10. ASSUME NEW q, CardOf(W, q) \in RCardsOf(W)
       PROVE  /\ M!OfRow(section, q) = OfCard(W, section, CardOf(W, q))
              /\ OfCard(W, section, CardOf(W, q)) \in SUBSET PlacesIn(W, section)
  <2>1. CardOf(W, q) \in C
    BY <1>1, <1>10 DEF RCardsOf
  <2>2. M!OfRow(section, q) = OfCard(W, section, CardOf(W, q))
    BY <1>2, <1>5, <1>7, <2>1 DEF M!OfRow, OfCard
  <2> QED
    BY <1>8, <2>2 DEF OfCard
<1> QED
  BY <1>7, <1>9, <1>10 DEF W

(***************************************************************************)
(* What is known is what the properties say                                *)
(***************************************************************************)

\* The sides of a row without a range and with one.
LEMMA SidesAsStated ==
  ASSUME NEW row, NEW type \in RowTypes, NEW rhs \in Int, IsSided(row, M!Sides(type, rhs))
  PROVE  /\ type = "N" => row.lower = -kInfinity /\ row.upper = kInfinity
         /\ type # "N" => /\ row.lower = IF type = "L" THEN -kInfinity ELSE rhs
                          /\ row.upper = IF type = "G" THEN kInfinity ELSE rhs
BY DEF IsSided, M!Sides, RowTypes

LEMMA RangesAsStated ==
  ASSUME NEW row, NEW type \in RowTypes \ {"N"}, NEW rhs \in Int, NEW range \in Int,
         IsSided(row, M!Ranged(type, rhs, range)), NEW end, end = rhs + range
  PROVE  /\ type \in {"L", "G"} =>
              /\ row.upper - row.lower = M!Abs(end - rhs)
              /\ rhs = IF type = "L" THEN row.upper ELSE row.lower
         /\ type = "E" => {row.lower, row.upper} = {rhs, end}
<1>1. CASE type = "L"
  <2>1. row.lower = rhs - M!Abs(range) /\ row.upper = rhs
    BY <1>1 DEF IsSided, M!Ranged
  <2>2. end - rhs = range
    OBVIOUS
  <2>3. M!Abs(range) \in Int
    BY DEF M!Abs
  <2>4. row.upper - row.lower = M!Abs(range)
    BY <2>1, <2>3
  <2> QED
    BY <1>1, <2>1, <2>2, <2>4
<1>2. CASE type = "G"
  <2>1. row.lower = rhs /\ row.upper = rhs + M!Abs(range)
    BY <1>2 DEF IsSided, M!Ranged
  <2>2. end - rhs = range
    OBVIOUS
  <2>3. M!Abs(range) \in Int
    BY DEF M!Abs
  <2>4. row.upper - row.lower = M!Abs(range)
    BY <2>1, <2>3
  <2> QED
    BY <1>2, <2>1, <2>2, <2>4
<1>3. CASE type = "E"
  <2>1. (row.lower = rhs /\ row.upper = end) \/ (row.lower = end /\ row.upper = rhs)
    BY <1>3 DEF IsSided, M!Ranged
  <2> QED
    BY <1>3, <2>1
<1> QED
  BY <1>1, <1>2, <1>3 DEF RowTypes

LEMMA RowsAsStated ==
  ASSUME Readable, TableIsRead, outcome = "read"
  PROVE  M!RowsFollowTheTable
<1> DEFINE W == TheSheet
           r == reader
           D == Places(W)
           n == Len(file) + 1
<1>1. /\ IsSheet(W) /\ NCardsOf(W) # {} /\ r \in MpsReaders /\ Knows(r, W, n, D)
  BY SheetCards DEF TableIsRead
<1>2. /\ Len(r.rows) \in Nat /\ DOMAIN r.rows = 1..Len(r.rows)
      /\ \A i \in 1..Len(r.rows) : r.row_rhs[i] \in Int /\ r.row_sense[i] \in RowTypes
  <2>1. /\ r.rows \in Seq(RowFields) /\ r.row_rhs \in Seq(Int) /\ r.row_sense \in Seq(RowTypes)
        /\ Len(r.row_sense) = Len(r.rows) /\ Len(r.row_rhs) = Len(r.rows)
    BY <1>1 DEF MpsReaders, MpsMembers
  <2> QED
    BY <2>1
<1>3. Earlier(W, n) = RCardsOf(W)
  <2>1. \A c \in RCardsOf(W) : c \in 1..Len(file)
    <3>1. W.lines = Len(file) /\ "ROWS" \in CardSections
      BY SheetMembers DEF CardSections
    <3> HIDE DEF W
    <3>2. \A c \in W.cards["ROWS"] : c \in 1..W.lines
      BY <1>1, <3>1, LineOfSheet
    <3> QED
      BY <3>1, <3>2 DEF RCardsOf
  <2>2. Len(file) \in Nat
    BY DEF Readable
  <2>3. \A c \in RCardsOf(W) : c < n
    <3> HIDE DEF W
    <3> QED
      BY <2>1, <2>2
  <2> HIDE DEF W, n
  <2> QED
    BY <2>3 DEF Earlier
<1>4. Len(r.rows) = M!Cardinality(M!RowCards)
  BY <1>1, <1>3, SheetRows, SameCount DEF Knows, RowsAre
<1>5. ASSUME NEW i \in DOMAIN reader.rows
      PROVE  LET type == M!Fields(M!RowCard(i))[1]
                 name == M!Fields(M!RowCard(i))[2]
                 told == M!OfRow("RHS", i)
                 rhs == IF told = {} THEN 0 ELSE M!Value("RHS", M!LastOf(told))
                 ranges == {m \in M!OfRow("RANGES", i) : \A k \in told : M!Before(k, m)}
                 end == rhs + M!Value("RANGES", M!LastOf(ranges))
                 span == M!Abs(end - rhs)
                 row == reader.rows[i]
             IN  /\ row.name = name
                 /\ type = "N" => row.lower = -kInfinity /\ row.upper = kInfinity
                 /\ type # "N" /\ ranges = {} =>
                      /\ row.lower = IF type = "L" THEN -kInfinity ELSE rhs
                      /\ row.upper = IF type = "G" THEN kInfinity ELSE rhs
                 /\ type \in {"L", "G"} /\ ranges # {} =>
                      /\ row.upper - row.lower = span
                      /\ rhs = IF type = "L" THEN row.upper ELSE row.lower
                 /\ type = "E" /\ ranges # {} => {row.lower, row.upper} = {rhs, end}
  <2> DEFINE c == CardOf(W, i)
             type == M!Fields(M!RowCard(i))[1]
             name == M!Fields(M!RowCard(i))[2]
             told == M!OfRow("RHS", i)
             rhs == IF told = {} THEN 0 ELSE M!Value("RHS", M!LastOf(told))
             G == M!OfRow("RANGES", i)
             ranges == {m \in G : \A k \in told : M!Before(k, m)}
             range == M!Value("RANGES", M!LastOf(ranges))
             row == reader.rows[i]
             TW == OfCard(W, "RHS", c)
             GW == OfCard(W, "RANGES", c)
  <2>a. i \in 1..Len(r.rows)
    BY <1>2
  <2>1. c \in RCardsOf(W) /\ row.name = NameOn(W, c) /\ r.row_sense[i] = TypeOn(W, c)
    BY <1>1, <2>a DEF Knows, RowsAre
  <2>2. M!RowCard(i) = c /\ c \in M!Cards("ROWS") /\ M!Fields(c) = W.F[c]
    BY <2>1, SheetRows, SheetCards DEF RCardsOf, CardSections
  <2>3. type = r.row_sense[i] /\ row.name = name /\ type \in RowTypes
    BY <1>2, <2>a, <2>1, <2>2 DEF TypeOn, NameOn
  <2>4. /\ "RHS" \in PairSections /\ "RANGES" \in PairSections
        /\ told = TW /\ TW \in SUBSET PlacesIn(W, "RHS")
        /\ G = GW /\ GW \in SUBSET PlacesIn(W, "RANGES")
    BY <1>1, <2>1, SheetMentions DEF PairSections
  <2>5. TW \cap D = TW /\ GW \cap D = GW
    BY <2>4 DEF Places
  <2>6. SidesFrom(W, r.row_sense[i], TW, GW, row, r.row_rhs[i])
    BY <1>1, <2>a, <2>5 DEF Knows, RowsHave, RowHas
  <2>7. \A m \in PlacesIn(W, "RHS") : M!Value("RHS", m) = ValueAt(W, "RHS", m)
    BY <2>4, SheetPairs
  <2>8. \A m \in PlacesIn(W, "RANGES") : M!Value("RANGES", m) = ValueAt(W, "RANGES", m)
    BY <2>4, SheetPairs
  <2>9. told # {} => M!LastOf(told) \in told
    BY <1>1, <2>4, LastOfPlaces
  <2>10. rhs = r.row_rhs[i]
    <3>1. r.row_rhs[i] = IF TW = {} THEN 0 ELSE ValueAt(W, "RHS", M!LastOf(TW))
      BY <2>6 DEF SidesFrom
    <3> HIDE DEF W, TW, told
    <3>2. CASE told = {}
      BY <2>4, <3>1, <3>2
    <3>3. CASE told # {}
      BY <2>4, <2>7, <2>9, <3>1, <3>3
    <3> QED
      BY <3>2, <3>3
  <2>11. ranges = OpenRanges(TW, GW)
    BY <2>4 DEF OpenRanges
  <2>12. ranges # {} => M!LastOf(ranges) \in ranges /\ range = ValueAt(W, "RANGES", M!LastOf(ranges))
    <3> SUFFICES ASSUME ranges # {}
                 PROVE  M!LastOf(ranges) \in ranges /\ range = ValueAt(W, "RANGES", M!LastOf(ranges))
      OBVIOUS
    <3>1. ranges \in SUBSET PlacesIn(W, "RANGES")
      BY <2>4
    <3> HIDE DEF W, ranges
    <3>2. M!LastOf(ranges) \in ranges
      BY <1>1, <2>4, <3>1, LastOfPlaces
    <3> QED
      BY <2>8, <3>1, <3>2
  <2>13. rhs \in Int
    BY <1>2, <2>a, <2>10
  <2> HIDE DEF W, D, n, c, type, name, told, rhs, ranges, range, row, TW, GW, G
  <2>14. IF type = "N" \/ ranges = {} THEN IsSided(row, M!Sides(type, rhs))
         ELSE range \in Int /\ IsSided(row, M!Ranged(type, rhs, range))
    <3>1. LET v == ValueAt(W, "RANGES", M!LastOf(OpenRanges(TW, GW)))
          IN  IF type = "N" \/ OpenRanges(TW, GW) = {} THEN IsSided(row, M!Sides(type, rhs))
              ELSE v \in Int /\ IsSided(row, M!Ranged(type, rhs, v))
      BY <2>3, <2>6, <2>10 DEF SidesFrom
    <3> QED
      BY <2>11, <2>12, <3>1
  <2>15. /\ row.name = name
         /\ type = "N" => row.lower = -kInfinity /\ row.upper = kInfinity
         /\ type # "N" /\ ranges = {} =>
              /\ row.lower = IF type = "L" THEN -kInfinity ELSE rhs
              /\ row.upper = IF type = "G" THEN kInfinity ELSE rhs
    BY <2>3, <2>13, <2>14, SidesAsStated
  <2> DEFINE end == rhs + range
  <2>16. ranges # {} /\ type # "N" =>
           /\ type \in {"L", "G"} =>
                /\ row.upper - row.lower = M!Abs(end - rhs)
                /\ rhs = IF type = "L" THEN row.upper ELSE row.lower
           /\ type = "E" => {row.lower, row.upper} = {rhs, end}
    <3> SUFFICES ASSUME ranges # {}, type # "N"
                 PROVE  /\ type \in {"L", "G"} =>
                            /\ row.upper - row.lower = M!Abs(end - rhs)
                            /\ rhs = IF type = "L" THEN row.upper ELSE row.lower
                        /\ type = "E" => {row.lower, row.upper} = {rhs, end}
      OBVIOUS
    <3>1. range \in Int /\ IsSided(row, M!Ranged(type, rhs, range)) /\ type \in RowTypes \ {"N"}
      BY <2>3, <2>14
    <3>2. end = rhs + range
      OBVIOUS
    <3> HIDE DEF end
    <3> QED
      BY <2>13, <3>1, <3>2, RangesAsStated
  <2> HIDE DEF end
  <2>17. type \in {"L", "G", "E"} => type # "N"
    OBVIOUS
  <2>18. /\ row.name = name
         /\ type = "N" => row.lower = -kInfinity /\ row.upper = kInfinity
         /\ type # "N" /\ ranges = {} =>
              /\ row.lower = IF type = "L" THEN -kInfinity ELSE rhs
              /\ row.upper = IF type = "G" THEN kInfinity ELSE rhs
         /\ type \in {"L", "G"} /\ ranges # {} =>
              /\ row.upper - row.lower = M!Abs(end - rhs)
              /\ rhs = IF type = "L" THEN row.upper ELSE row.lower
         /\ type = "E" /\ ranges # {} => {row.lower, row.upper} = {rhs, end}
    BY <2>15, <2>16, <2>17
  <2> QED
    BY <2>18 DEF type, name, told, rhs, ranges, range, row, G, end
<1> QED
  BY <1>4, <1>5 DEF M!RowsFollowTheTable

LEMMA ObjectiveAsStated ==
  ASSUME Readable, TableIsRead, outcome = "read"
  PROVE  M!ObjectiveFollowsTheCards
<1> DEFINE W == TheSheet
           r == reader
           D == Places(W)
<1>1. /\ IsSheet(W) /\ NCardsOf(W) # {} /\ r \in MpsReaders
      /\ ConstantIs(r.objective_constant, W, D) /\ CostsAre(r.cols, W, D)
  BY SheetCards DEF TableIsRead, Knows
<1>2. /\ "RHS" \in PairSections /\ "COLUMNS" \in PairSections
  BY DEF PairSections
<1>3. \A section \in PairSections : /\ M!OfObjective(section) = OfObj(W, section)
                                  /\ OfObj(W, section) \in SUBSET PlacesIn(W, section)
  BY <1>1, SheetMentions
<1>4. \A section \in PairSections : \A m \in PlacesIn(W, section) : M!Value(section, m) = ValueAt(W, section, m)
  BY SheetPairs
<1>5. \A m \in PlacesIn(W, "COLUMNS") : M!Fields(m[1]) = W.F[m[1]]
  <2> TAKE m \in PlacesIn(W, "COLUMNS")
  <2>1. m[1] \in W.cards["COLUMNS"] /\ "COLUMNS" \in CardSections
    BY <1>1, <1>2, PlaceIsPair DEF CardSections
  <2> QED
    BY <2>1, SheetCards
<1>6. OfObj(W, "RHS") \cap D = OfObj(W, "RHS") /\ OfObj(W, "COLUMNS") \in SUBSET D
  BY <1>2, <1>3 DEF Places
<1> HIDE DEF W, D
<1>7. r.objective_constant = LET constants == M!OfObjective("RHS")
                             IN  IF constants = {} THEN 0 ELSE -M!Value("RHS", M!LastOf(constants))
  <2> DEFINE T == OfObj(W, "RHS")
  <2>1. M!OfObjective("RHS") = T /\ T \in SUBSET PlacesIn(W, "RHS") /\ T \cap D = T
    BY <1>2, <1>3, <1>6
  <2>2. r.objective_constant = IF T = {} THEN 0 ELSE -ValueAt(W, "RHS", M!LastOf(T))
    BY <1>1, <2>1 DEF ConstantIs
  <2> HIDE DEF T
  <2>3. T # {} => M!LastOf(T) \in PlacesIn(W, "RHS")
    BY <1>1, <1>2, <2>1, LastOfPlaces
  <2>4. T # {} => M!Value("RHS", M!LastOf(T)) = ValueAt(W, "RHS", M!LastOf(T))
    BY <1>2, <1>4, <2>3
  <2> QED
    BY <2>1, <2>2, <2>4
<1>8. ASSUME NEW col \in M!ToSet(r.cols)
      PROVE  LET costs == M!OfColumn(M!OfObjective("COLUMNS"), col)
             IN  col.cost = IF costs = {} THEN 0 ELSE M!Value("COLUMNS", M!LastOf(costs))
  <2> DEFINE T == CostsOf(W, col.name)
             U == M!OfColumn(M!OfObjective("COLUMNS"), col)
  <2>1. PICK j \in 1..Len(r.cols) : r.cols[j] = col
    <3>1. r.cols \in Seq(ColumnFields)
      BY <1>1 DEF MpsReaders, MpsMembers
    <3> QED
      BY <3>1 DEF M!ToSet
  <2>2. T \in SUBSET PlacesIn(W, "COLUMNS") /\ T \cap D = T
    BY <1>2, <1>3, <1>6 DEF CostsOf
  <2>3. U = T
    BY <1>2, <1>3, <1>5 DEF M!OfColumn, CostsOf
  <2>4. CostIs(col, W, D)
    BY <1>1, <2>1 DEF CostsAre
  <2>5. col.cost = IF T = {} THEN 0 ELSE ValueAt(W, "COLUMNS", M!LastOf(T))
    BY <2>2, <2>4 DEF CostIs
  <2> HIDE DEF T, U
  <2>6. T # {} => M!LastOf(T) \in PlacesIn(W, "COLUMNS")
    BY <1>1, <1>2, <2>2, LastOfPlaces
  <2>7. T # {} => M!Value("COLUMNS", M!LastOf(T)) = ValueAt(W, "COLUMNS", M!LastOf(T))
    BY <1>2, <1>4, <2>6
  <2>8. col.cost = IF U = {} THEN 0 ELSE M!Value("COLUMNS", M!LastOf(U))
    BY <2>3, <2>5, <2>7
  <2> QED
    BY <2>8 DEF U
<1> QED
  BY <1>7, <1>8 DEF M!ObjectiveFollowsTheCards

LEMMA NamesAsStated ==
  ASSUME Readable, TableIsRead, outcome = "read"
  PROVE  M!NamesAreDeclared
<1> DEFINE W == TheSheet
<1>1. IsSheet(W) /\ DeclaredTo(W, Places(W)) /\ NCardsOf(W) # {}
  BY SheetCards DEF TableIsRead, Knows
<1>2. M!ObjectiveCard = ObjCard(W)
  BY SheetRows
<1>3. M!Cards("ROWS") = W.cards["ROWS"] /\ \A c \in W.cards["ROWS"] : M!Fields(c)[2] = NameOn(W, c)
  BY SheetCards DEF CardSections, NameOn
<1>4. ASSUME NEW section \in PairSections, NEW i \in M!PairCards(section),
             NEW pair \in M!ToSet(M!CardPairs(section, i))
      PROVE  \E c \in M!Cards("ROWS") :
               c < i /\ M!Fields(c)[2] = pair[1] /\ (section = "RANGES" => c # M!ObjectiveCard)
  <2>1. i \in PairCardsOf(W, section) /\ M!CardPairs(section, i) = PairsOf(W, section, i)
    BY SheetPairs
  <2> HIDE DEF W
  <2>2. PICK k \in DOMAIN PairsOf(W, section, i) : pair = PairsOf(W, section, i)[k]
    BY <2>1 DEF M!ToSet
  <2> DEFINE m == <<i, k>>
  <2>3. m \in PlacesIn(W, section) /\ m[1] = i /\ NamedAt(W, section, m) = pair[1]
    BY <1>1, <2>1, <2>2, PlaceIsPair DEF NamedAt
  <2>4. m \in Places(W)
    BY <2>3 DEF Places, PairSections
  <2> HIDE DEF m
  <2>5. PICK c \in W.cards["ROWS"] :
          c < m[1] /\ NameOn(W, c) = NamedAt(W, section, m) /\ (section = "RANGES" => c # ObjCard(W))
    BY <1>1, <2>3, <2>4 DEF DeclaredTo
  <2> QED
    BY <1>2, <1>3, <2>3, <2>5
<1> QED
  BY <1>4 DEF M!NamesAreDeclared, PairSections

LEMMA TableInvIsTheProperty == TableInv => RowsFollowTheTable
<1> SUFFICES ASSUME TableInv, format = "mps"
             PROVE  M!RowsFollowTheTable /\ M!ObjectiveFollowsTheCards /\ M!NamesAreDeclared
  BY DEF RowsFollowTheTable
<1>1. CASE outcome = "read"
  <2>1. Readable /\ TableIsRead
    BY <1>1 DEF TableInv, TableIsRead, Readable
  <2> QED
    BY <1>1, <2>1, RowsAsStated, ObjectiveAsStated, NamesAsStated
<1>2. CASE outcome # "read"
  BY <1>2 DEF M!RowsFollowTheTable, M!ObjectiveFollowsTheCards, M!NamesAreDeclared
<1> QED
  BY <1>1, <1>2

\* The rows and their bounds, the objective's constant and costs, and the names
\* on the cards are what the whole of an MPS file says, for every file: each of
\* handle_rows, handle_columns, handle_rhs and handle_ranges leaves the reader
\* at each line with what the lines before it say.
THEOREM TableFollowed == ReadSpec => []RowsFollowTheTable
BY TableInvHolds, TableInvIsTheProperty, PTL

(***************************************************************************)
(* What a whole file is warned about                                       *)
(***************************************************************************)

\* The lines that are warned about: a header of no section, a dropped row, a
\* pair about a free row, a bound on an unknown column, and a negative upper
\* bound above a lower one of zero.
IsNegative(t, lower) == t[1] = "UP" /\ M!ValueOf(t) < 0 /\ lower = 0
SeenBefore(name, i) ==
  \/ \E c \in ColumnsCards : c < i /\ ~M!IsMarker(TheFields[c]) /\ TheFields[c][1] = name
  \/ About(BoundsCards, TheFields, name, i) # {}
IgnoredHeads ==
  {i \in M!Visible : file[i].header /\ M!Fields(i)[1] \notin M!Sections \cup M!ObjSenseHeads}
DroppedRows == TheSheet.cards["ROWS"] \ (RCardsOf(TheSheet) \cup {ObjCard(TheSheet)})
Unknowns == {i \in BoundsCards : ~SeenBefore(M!BoundedColumn(TheFields[i]), i)}
Negatives ==
  {i \in BoundsCards :
     IsNegative(TheFields[i],
                Lower(BoundsCards, TheFields, Frees, M!BoundedColumn(TheFields[i]), i))}
WarnedLines == IgnoredHeads \cup DroppedRows \cup FreeLines(TheSheet) \cup Unknowns \cup Negatives

\* A reader at line i has warned about those before it, and has the columns
\* that were named before it.
ColumnsSeen(p, i) == \A j \in 1..Len(p) : SeenBefore(p[j].name, i)
Noted(r, i) ==
  NCardsOf(TheSheet) # {} =>
    Heard(r) = {c \in WarnedLines : c < i} /\ ColumnsSeen(r.cols, i)

\* What a line has to do for that.
Heeds(s) == Hears(reader, s, at \in WarnedLines) /\ ColumnsSeen(s.cols, at + 1)
Heeded == Prepared /\ Noted(reader, at)

\* The warnings of a reader whose columns have new bounds.
LEMMA BoundedWarnings ==
  ASSUME NEW r \in MpsReaders, NEW j, NEW bounds, NEW f
  PROVE  LET set == M!set_column_bounds(r, j, bounds)
         IN  /\ Kinded(set, j, f).warnings = r.warnings
             /\ Kinded(M!warn(set), j, f).warnings = Append(r.warnings, at)
<1> DEFINE p == [r.cols EXCEPT ![j].lower = bounds[1], ![j].upper = bounds[2]]
           set == [r EXCEPT !.cols = p]
           w == [set EXCEPT !.warnings = Append(@, at)]
<1>1. r \in MpsMembers
  BY DEF MpsReaders
<1>2. M!set_column_bounds(r, j, bounds) = set
  BY <1>1 DEF M!set_column_bounds, MpsMembers
<1> HIDE DEF p
<1>3. set.warnings = r.warnings /\ DOMAIN set = DOMAIN r /\ "warnings" \in DOMAIN r
  BY <1>1 DEF MpsMembers
<1> HIDE DEF set
<1>4. w.warnings = Append(r.warnings, at) /\ DOMAIN w = DOMAIN r
  BY <1>3
<1> HIDE DEF w
<1>5. \A u : DOMAIN u = DOMAIN r => Kinded(u, j, f).warnings = u.warnings
  BY <1>3 DEF Kinded
<1>6. M!warn(set) = w
  BY DEF M!warn, w
<1> QED
  BY <1>2, <1>3, <1>4, <1>5, <1>6

\* A bound is warned about if its column is unknown, and if it is an upper one
\* that is negative.
LEMMA BoundsCardWarns ==
  ASSUME NEW r \in MpsReaders, at \in Int, NEW t \in Seq(STRING), Distinct(r.cols),
         ~M!handle_bounds(r, t).error,
         NEW name, name = M!BoundedColumn(t), NEW q, q = With(r.cols, name),
         NEW k \in 1..Len(q), q[k].name = name
  PROVE  Hears(r, M!handle_bounds(r, t), ~Has(r.cols, name) \/ IsNegative(t, q[k].lower))
<1> DEFINE type == t[1]
           v == M!ValueOf(t)
           known == IF M!find_column(r, name) = 0 THEN M!column_for(M!warn(r), name) ELSE r
           j == M!find_column(known, name)
           s == M!handle_bounds(r, t)
           lower == q[k].lower
           upper == q[k].upper
           n == IsNegative(t, lower)
           f == type \in {"BV", "LI", "UI"}
<1>1. r \in MpsMembers /\ r.cols \in Seq(ColumnFields) /\ name \in STRING
  <2>1. M!BoundedColumn(t) \in STRING
    BY BoundsCardDoes
  <2> QED
    BY <2>1 DEF MpsReaders, MpsMembers
<1>2. M!Failed(r).error
  BY <1>1 DEF M!Failed, MpsMembers
<1>3. s = M!apply_bound(known, j, type, v)
  BY <1>2 DEF M!handle_bounds
<1>4. type = "UP" => v \in Int
  <2> SUFFICES ASSUME type = "UP" PROVE v \in Int
    OBVIOUS
  <2>1. M!IsNumber(t[Len(t)]) /\ v = Number[t[Len(t)]]
    <3>1. type \in M!Valued /\ type \notin M!Valueless
      BY DEF M!Valued, M!Valueless
    <3>2. ~(type \in M!Valued /\ ~M!IsNumber(t[Len(t)]))
      BY <1>2 DEF M!handle_bounds
    <3> QED
      BY <3>1, <3>2 DEF M!ValueOf
  <2> QED
    BY <2>1, NumberAssumption DEF M!IsNumber
<1>5. q \in Seq(ColumnFields) /\ Distinct(q)
  BY <1>1, WithHas
<1>6. /\ known \in MpsReaders /\ known.cols = q /\ j \in 1..Len(q) /\ q[j].name = name
      /\ Hears(r, known, ~Has(r.cols, name))
  <2>1. CASE M!find_column(r, name) # 0
    <3>1. Has(r.cols, name)
      BY <2>1, ColumnFound DEF Has
    <3>2. q = r.cols /\ known = r /\ Len(q) \in Nat
      BY <1>5, <2>1, <3>1 DEF With
    <3>3. Hears(r, known, ~Has(r.cols, name))
      BY <3>1, <3>2 DEF Hears
    <3> HIDE DEF known
    <3> QED
      BY <2>1, <3>2, <3>3, ColumnFound
  <2>2. CASE M!find_column(r, name) = 0
    <3> DEFINE w == M!warn(r)
    <3>1. w \in MpsReaders /\ w \in MpsMembers /\ w.cols = r.cols /\ w.warnings = Append(r.warnings, at)
      BY <1>1, WarnKeeps DEF Keeps, KeepsColumns, M!warn, MpsMembers, MpsReaders
    <3>2. known = M!column_for(w, name)
      BY <2>2
    <3>3. ~Has(r.cols, name)
      BY <2>2, ColumnFound DEF Has
    <3> HIDE DEF known, w
    <3>4. known = [w EXCEPT !.cols = q] /\ known \in MpsReaders /\ j \in 1..Len(q)
          /\ q[j].name = name
      BY <1>1, <3>1, <3>2, ColumnIsThere
    <3>5. known.cols = q /\ known.warnings = w.warnings
      BY <3>1, <3>4 DEF MpsMembers
    <3>6. Hears(r, known, TRUE)
      <4>1. known.warnings = IF TRUE THEN Append(r.warnings, at) ELSE r.warnings
        BY <3>1, <3>5
      <4> QED
        BY <4>1, HearsIfWarned
    <3> QED
      BY <3>3, <3>4, <3>5, <3>6 DEF Hears
  <2> QED
    BY <2>1, <2>2
<1> HIDE DEF known, j, s
<1>7. j = k
  BY <1>5, <1>6 DEF Distinct
<1>8. s.warnings = IF n THEN Append(known.warnings, at) ELSE known.warnings
  <2> DEFINE set(b) == M!set_column_bounds(known, j, b)
             x == IF opt.lower_becomes_minus_infinity THEN -kInfinity ELSE lower
             b == [LO |-> <<v, upper>>, FX |-> <<v, v>>, FR |-> <<-kInfinity, kInfinity>>,
                   MI |-> <<-kInfinity, upper>>, PL |-> <<lower, kInfinity>>, BV |-> <<0, 1>>,
                   LI |-> <<v, upper>>, UI |-> <<lower, v>>][type]
  <2>1. known.cols[j].lower = lower /\ known.cols[j].upper = upper
    BY <1>6, <1>7
  <2>2. s = Kinded(IF type = "UP" THEN M!UpperBound(known, j, lower, v) ELSE set(b), j, f)
    BY <1>3, <2>1 DEF M!apply_bound, Kinded
  <2> HIDE DEF b, f
  <2>3. \A c : /\ Kinded(set(c), j, f).warnings = known.warnings
               /\ Kinded(M!warn(set(c)), j, f).warnings = Append(known.warnings, at)
    BY <1>6, BoundedWarnings
  <2>4. n <=> type = "UP" /\ v < 0 /\ lower = 0
    BY DEF IsNegative
  <2> HIDE DEF type, v, lower, n
  <2>5. M!UpperBound(known, j, lower, v)
          = IF v >= 0 \/ lower # 0 THEN set(<<lower, v>>) ELSE M!warn(set(<<x, v>>))
    BY DEF M!UpperBound
  <2> HIDE DEF set, x
  <2>6. CASE type = "UP"
    <3>1. v \in Int
      BY <1>4, <2>6
    <3>2. n <=> ~(v >= 0 \/ lower # 0)
      BY <2>4, <2>6, <3>1
    <3> QED
      BY <2>2, <2>3, <2>5, <2>6, <3>2
  <2>7. CASE type # "UP"
    BY <2>2, <2>3, <2>4, <2>7
  <2> QED
    BY <2>6, <2>7
<1>9. Hears(known, s, n)
  <2>1. n \in BOOLEAN
    BY DEF IsNegative
  <2> HIDE DEF n
  <2> QED
    BY <1>6, <1>8, <2>1, HearsIfWarned
<1> HIDE DEF n
<1>10. Hears(r, s, ~Has(r.cols, name) \/ n)
  BY <1>6, <1>9 DEF Hears
<1> QED
  BY <1>10 DEF s, n

\* A name that was seen stays seen, and one on a card is from there on.
LEMMA SeenNext ==
  ASSUME Heeded, NEW name
  PROVE  /\ SeenBefore(name, at) => SeenBefore(name, at + 1)
         /\ at \in BoundsCards /\ M!BoundedColumn(TheFields[at]) = name => SeenBefore(name, at + 1)
         /\ at \in ColumnsCards /\ ~M!IsMarker(TheFields[at]) /\ TheFields[at][1] = name =>
              SeenBefore(name, at + 1)
<1>1. file \in Seq(Lines) /\ at \in 1..Len(file)
  BY NextLine DEF Heeded, Prepared
<1>2. BoundsCards \in SUBSET Nat /\ ColumnsCards \in SUBSET Nat /\ at \in Nat
  BY <1>1, CardsInFile
<1>3. \A c \in Nat : c < at \/ c = at => c < at + 1
  BY <1>2
<1> QED
  BY <1>2, <1>3 DEF SeenBefore, About

\* A column is known if a card before the line names it.
LEMMA SeenIsKnown ==
  ASSUME Heeded, NCardsOf(TheSheet) # {}, NEW name
  PROVE  Has(reader.cols, name) <=> SeenBefore(name, at)
<1>1. Known(reader.cols, BoundsCards, ColumnsCards, TheFields, Frees, at)
  BY DEF Heeded, Prepared, Follows, Following
<1>2. ColumnsSeen(reader.cols, at)
  BY DEF Heeded, Noted
<1> QED
  BY <1>1, <1>2 DEF Known, ColumnsSeen, SeenBefore, About, Has

\* The lines of pairs about free rows are cards of two sections.
LEMMA FreeLinesAre ==
  ASSUME NEW W, IsSheet(W)
  PROVE  FreeLines(W) \in SUBSET (W.cards["RHS"] \cup W.cards["RANGES"])
<1> SUFFICES ASSUME NEW m \in Places(W), ForFree(W, m)
             PROVE  m[1] \in W.cards["RHS"] \cup W.cards["RANGES"]
  BY DEF FreeLines
<1>1. PICK section \in {"RHS", "RANGES"} : \E c : m \in OfCard(W, section, c)
  BY DEF ForFree
<1>2. m \in PlacesIn(W, section) /\ section \in PairSections
  BY <1>1 DEF OfCard, AfterOf, MentionsOf, PairSections
<1> QED
  BY <1>1, <1>2, PlaceIsPair

LEMMA LineWarned ==
  ASSUME Heeded, NCardsOf(TheSheet) # {}
  PROVE  /\ WarnedLines \in SUBSET (1..Len(file))
         /\ file[at].header =>
              (at \in WarnedLines <=> M!Tokens[1] \notin M!Sections \cup M!ObjSenseHeads)
         /\ ~file[at].header =>
              (at \in WarnedLines <=>
                 /\ M!Tokens # <<>>
                 /\ \/ reader.section = "ROWS" /\ at \in DroppedRows
                    \/ reader.section \in {"RHS", "RANGES"} /\ at \in FreeLines(TheSheet)
                    \/ reader.section = "BOUNDS" /\ at \in Unknowns \cup Negatives)
<1> DEFINE W == TheSheet
           F == FreeLines(W)
           D == DroppedRows
           B == Unknowns \cup Negatives
           I == IgnoredHeads
           head == M!Tokens[1] \notin M!Sections \cup M!ObjSenseHeads
<1>1. /\ at \in 1..Len(file) /\ at \in M!Visible /\ file \in Seq(Lines)
      /\ \A section \in CardSections :
           at \in W.cards[section] <=> ~file[at].header /\ M!Tokens # <<>> /\ reader.section = section
  BY NextLine, NextCard DEF Heeded, Prepared
<1>2. IsSheet(W) /\ W.lines = Len(file) /\ BoundsCards = W.cards["BOUNDS"]
  BY FileIsSheet, SheetMembers DEF Heeded, Prepared, BoundsCards, CardSections
<1>3. F \in SUBSET (W.cards["RHS"] \cup W.cards["RANGES"])
  BY <1>2, FreeLinesAre
<1>4. D \in SUBSET W.cards["ROWS"]
  BY DEF DroppedRows
<1>5. B \in SUBSET W.cards["BOUNDS"]
  BY <1>2 DEF Unknowns, Negatives
<1>6. I \in SUBSET (1..Len(file)) /\ (at \in I <=> file[at].header /\ head)
  <2>1. DOMAIN file = 1..Len(file)
    BY <1>1
  <2> QED
    BY <1>1, <2>1 DEF IgnoredHeads, M!Visible, M!Tokens
<1>7. {"ROWS", "RHS", "RANGES", "BOUNDS"} \in SUBSET CardSections
  BY DEF CardSections, PairSections
<1>8. \A section \in CardSections : W.cards[section] \in SUBSET (1..Len(file))
  BY <1>2 DEF IsSheet
<1>9. WarnedLines = I \cup D \cup F \cup B
  BY DEF WarnedLines
<1> HIDE DEF W, F, D, B, I, head
<1>10. WarnedLines \in SUBSET (1..Len(file))
  BY <1>3, <1>4, <1>5, <1>6, <1>7, <1>8, <1>9
<1>11. /\ at \in W.cards["ROWS"] <=> ~file[at].header /\ M!Tokens # <<>> /\ reader.section = "ROWS"
       /\ at \in W.cards["RHS"] <=> ~file[at].header /\ M!Tokens # <<>> /\ reader.section = "RHS"
       /\ at \in W.cards["RANGES"] <=> ~file[at].header /\ M!Tokens # <<>> /\ reader.section = "RANGES"
       /\ at \in W.cards["BOUNDS"] <=> ~file[at].header /\ M!Tokens # <<>> /\ reader.section = "BOUNDS"
  BY <1>1, <1>7
<1>12. file[at].header => (at \in WarnedLines <=> head)
  BY <1>3, <1>4, <1>5, <1>6, <1>9, <1>11
<1>13. ~file[at].header =>
         (at \in WarnedLines <=>
            /\ M!Tokens # <<>>
            /\ \/ reader.section = "ROWS" /\ at \in D
               \/ reader.section \in {"RHS", "RANGES"} /\ at \in F
               \/ reader.section = "BOUNDS" /\ at \in B)
  BY <1>3, <1>4, <1>5, <1>6, <1>9, <1>11
<1> QED
  BY <1>10, <1>12, <1>13 DEF W, F, D, B, head

\* The reader has noted the line.
LEMMA NotedNext ==
  ASSUME Heeded, NEW s, NCardsOf(TheSheet) # {} => Heeds(s)
  PROVE  Noted(s, at + 1)
<1> SUFFICES ASSUME NCardsOf(TheSheet) # {} PROVE Heard(s) = {c \in WarnedLines : c < at + 1}
  BY DEF Noted, Heeds
<1> DEFINE T == WarnedLines
<1>1. Heard(s) = Heard(reader) \cup {i \in {at} : at \in T} /\ Heard(reader) = {c \in T : c < at}
  BY DEF Heeds, Hears, Heeded, Noted
<1>2. at \in Int /\ T \in SUBSET Int
  <2>1. T \in SUBSET (1..Len(file)) /\ at \in Int
    BY LineWarned, NextLine DEF Heeded, Prepared
  <2> QED
    BY <2>1
<1> HIDE DEF T
<1>3. \A c \in T : c < at + 1 <=> c < at \/ c = at
  BY <1>2
<1>4. {c \in T : c < at + 1} = {c \in T : c < at} \cup {i \in {at} : at \in T}
  BY <1>3
<1> QED
  BY <1>1, <1>4 DEF T

\* The reader takes a line and has noted it.
Notes(s) ==
  /\ reader' = s /\ at' = at + 1 /\ Noted(s, at + 1)
  /\ UNCHANGED <<file, opt, fixed, matrix, outcome>>

LEMMA ContinueNotes ==
  ASSUME Heeded, NEW s, M!Continue(s), ~s.error /\ NCardsOf(TheSheet) # {} => Heeds(s)
  PROVE  M!Throw \/ \E u : Notes(u)
<1>1. ~s.error => Noted(s, at + 1)
  BY NotedNext
<1> QED
  BY <1>1 DEF M!Continue, Notes

\* A line that changes no column's name.
LEMMA NamesStaySeen ==
  ASSUME Heeded, NCardsOf(TheSheet) # {}, NEW s, Len(s.cols) = Len(reader.cols),
         \A j \in 1..Len(reader.cols) : s.cols[j].name = reader.cols[j].name
  PROVE  ColumnsSeen(s.cols, at + 1)
<1>1. ColumnsSeen(reader.cols, at)
  BY DEF Heeded, Noted
<1> QED
  BY <1>1, SeenNext DEF ColumnsSeen

\* A line that is about a column of some name, which may be new.
LEMMA NameIsSeen ==
  ASSUME Heeded, NCardsOf(TheSheet) # {}, NEW s, NEW name \in STRING, SeenBefore(name, at + 1),
         Len(s.cols) = Len(With(reader.cols, name)),
         \A j \in 1..Len(s.cols) : s.cols[j].name = With(reader.cols, name)[j].name
  PROVE  ColumnsSeen(s.cols, at + 1)
<1> DEFINE p == reader.cols
           q == With(p, name)
<1>1. ColumnsSeen(p, at) /\ p \in Seq(ColumnFields) /\ Distinct(p)
  BY DEF Heeded, Noted, Prepared, Follows, Following, Known
<1>2. /\ \A j \in 1..Len(p) : q[j] = p[j]
      /\ \A j \in 1..Len(q) : j \notin 1..Len(p) => q[j] = Fresh(name)
  BY <1>1, WithHas
<1>3. Len(s.cols) = Len(q) /\ \A j \in 1..Len(s.cols) : s.cols[j].name = q[j].name
  OBVIOUS
<1> HIDE DEF p, q
<1>4. Fresh(name).name = name
  BY DEF Fresh
<1>5. \A j \in 1..Len(q) : SeenBefore(q[j].name, at + 1)
  BY <1>1, <1>2, <1>4, SeenNext DEF ColumnsSeen
<1> QED
  BY <1>3, <1>5 DEF ColumnsSeen

\* A line that is not warned about and leaves the columns alone.
LEMMA QuietHeeds ==
  ASSUME Heeded, NEW s, s.warnings = reader.warnings, s.cols = reader.cols, at \notin WarnedLines,
         NCardsOf(TheSheet) # {}
  PROVE  Heeds(s)
<1>1. ColumnsSeen(s.cols, at + 1)
  BY NamesStaySeen
<1> QED
  BY <1>1 DEF Heeds, Hears, Heard

LEMMA HeaderNotes ==
  ASSUME Heeded, M!Header
  PROVE  M!Throw \/ \E s : Notes(s)
<1> DEFINE head == M!Tokens[1]
           inner == [reader EXCEPT !.section = head]
           sensed == [reader EXCEPT !.section = "OBJSENSE"]
           told == M!apply_objsense(reader, M!Tokens[2])
           w == M!warn(reader)
           ignored == [w EXCEPT !.section = "Ignored"]
<1>1. file[at].header
  BY DEF M!Header
<1>2. reader \in MpsReaders /\ at \in Int
  BY NextLine DEF Heeded, Prepared
<1>3. NCardsOf(TheSheet) # {} => (at \in WarnedLines <=> head \notin M!Sections \cup M!ObjSenseHeads)
  BY <1>1, LineWarned
<1>4. {"OBJSENSE", "Ignored"} \in SUBSET SectionNames /\ M!Sections \in SUBSET SectionNames
  BY DEF SectionNames
<1>5. w \in MpsReaders /\ w.warnings = Append(reader.warnings, at) /\ w.cols = reader.cols
  <2>1. Keeps(reader, w) /\ reader \in MpsMembers
    BY <1>2, WarnKeeps DEF MpsReaders
  <2> QED
    BY <2>1 DEF Keeps, KeepsColumns, M!warn, MpsMembers
<1> HIDE DEF w, head
<1>6. CASE head \in M!Sections /\ M!Continue(inner)
  <2>1. inner.warnings = reader.warnings /\ inner.cols = reader.cols
    BY <1>2, <1>4, <1>6, SectionDoes
  <2> HIDE DEF inner
  <2>2. NCardsOf(TheSheet) # {} => Heeds(inner)
    BY <1>3, <1>6, <2>1, QuietHeeds
  <2> QED
    BY <1>6, <2>2, ContinueNotes
<1>7. CASE head \in M!ObjSenseHeads /\ M!Continue(sensed)
  <2>1. sensed.warnings = reader.warnings /\ sensed.cols = reader.cols
    BY <1>2, <1>4, SectionDoes
  <2> HIDE DEF sensed
  <2>2. NCardsOf(TheSheet) # {} => Heeds(sensed)
    BY <1>3, <1>7, <2>1, QuietHeeds
  <2> QED
    BY <1>7, <2>2, ContinueNotes
<1>8. CASE head \in M!ObjSenseHeads /\ M!Continue(told)
  <2>1. ~told.error => told.warnings = reader.warnings /\ told.cols = reader.cols
    BY <1>2, ObjSenseDoes
  <2> HIDE DEF told
  <2>2. ~told.error /\ NCardsOf(TheSheet) # {} => Heeds(told)
    BY <1>3, <1>8, <2>1, QuietHeeds
  <2> QED
    BY <1>8, <2>2, ContinueNotes
<1>9. CASE head \notin M!Sections \cup M!ObjSenseHeads /\ M!Continue(ignored)
  <2>1. ignored.warnings = w.warnings /\ ignored.cols = w.cols
    BY <1>4, <1>5, SectionDoes
  <2>2. ignored.warnings = IF TRUE THEN Append(reader.warnings, at) ELSE reader.warnings
    BY <1>5, <2>1
  <2> HIDE DEF ignored
  <2>3. Hears(reader, ignored, TRUE)
    BY <1>2, <2>2, HearsIfWarned
  <2>4. NCardsOf(TheSheet) # {} => ColumnsSeen(ignored.cols, at + 1)
    BY <1>5, <2>1, NamesStaySeen
  <2>5. NCardsOf(TheSheet) # {} => Heeds(ignored)
    BY <1>3, <1>9, <2>3, <2>4 DEF Heeds, Hears
  <2> QED
    BY <1>9, <2>5, ContinueNotes
<1>10. \/ head \in M!Sections /\ M!Continue(inner)
       \/ head \in M!ObjSenseHeads /\ M!Continue(sensed)
       \/ head \in M!ObjSenseHeads /\ M!Continue(told)
       \/ head \notin M!Sections \cup M!ObjSenseHeads /\ M!Continue(ignored)
  BY DEF M!Header, head, w
<1> QED
  BY <1>6, <1>7, <1>8, <1>9, <1>10

LEMMA OtherCardNotes ==
  ASSUME Heeded, M!ObjSenseCard \/ M!SkippedCard
  PROVE  M!Throw \/ \E s : Notes(s)
<1>1. ~file[at].header /\ reader \in MpsReaders
  BY NextLine DEF M!ObjSenseCard, M!SkippedCard, M!Card, Heeded, Prepared
<1>2. M!Tokens = <<>> \/ reader.section \in {"OBJSENSE", "NAME", "Ignored"}
  BY DEF M!ObjSenseCard, M!SkippedCard, M!Card
<1>3. NCardsOf(TheSheet) # {} => at \notin WarnedLines
  BY <1>1, <1>2, LineWarned
<1>4. CASE M!ObjSenseCard
  <2> DEFINE s == M!apply_objsense(reader, M!Tokens[1])
  <2>1. M!Continue(s)
    BY <1>4 DEF M!ObjSenseCard
  <2>2. ~s.error => s.warnings = reader.warnings /\ s.cols = reader.cols
    BY <1>1, ObjSenseDoes
  <2> HIDE DEF s
  <2>3. ~s.error /\ NCardsOf(TheSheet) # {} => Heeds(s)
    BY <1>3, <2>2, QuietHeeds
  <2> QED
    BY <2>1, <2>3, ContinueNotes
<1>5. CASE M!SkippedCard
  <2>1. M!Continue(reader)
    BY <1>5 DEF M!SkippedCard
  <2>2. NCardsOf(TheSheet) # {} => Heeds(reader)
    BY <1>3, QuietHeeds
  <2> QED
    BY <2>1, <2>2, ContinueNotes
<1> QED
  BY <1>4, <1>5

\* A card of one of the sections: when it is warned about.
LEMMA CardWarned ==
  ASSUME Heeded, NCardsOf(TheSheet) # {}, NEW section \in CardSections, M!Card(section)
  PROVE  at \in WarnedLines <=>
           \/ section = "ROWS" /\ at \in DroppedRows
           \/ section \in {"RHS", "RANGES"} /\ at \in FreeLines(TheSheet)
           \/ section = "BOUNDS" /\ at \in Unknowns \cup Negatives
<1>1. ~file[at].header /\ M!Tokens # <<>> /\ reader.section = section
  BY DEF M!Card
<1> QED
  BY <1>1, LineWarned

LEMMA RowsCardNotes ==
  ASSUME Heeded, M!RowsCard
  PROVE  M!Throw \/ \E s : Notes(s)
<1> DEFINE W == TheSheet
           t == M!Tokens
           s == M!handle_rows(reader, t)
           w == at \in DroppedRows
<1>1. "ROWS" \in CardSections /\ M!Card("ROWS") /\ M!Continue(s)
  BY DEF CardSections, M!RowsCard
<1>2. /\ IsSheet(W) /\ W.keep = opt.keep_free_rows /\ at \in Int /\ at \in W.cards["ROWS"]
      /\ W.F[at] = t /\ reader \in MpsReaders
      /\ IF NCardsOf(W) = {} THEN reader.objective_name = "" ELSE KnowsTo(reader, W, at)
  BY <1>1, CardOfSheet DEF Heeded
<1>3. s = M!handle_rows(reader, W.F[at])
  BY <1>2
<1>4. w <=> at \notin RCardsOf(W) \cup {ObjCard(W)}
  BY <1>2 DEF DroppedRows
<1>5. w \in BOOLEAN
  OBVIOUS
<1>6. NCardsOf(W) # {} => (at \in WarnedLines <=> w)
  BY <1>1, CardWarned
<1> HIDE DEF W, s, t, w
<1>7. ASSUME ~s.error, NCardsOf(W) # {} PROVE Heeds(s)
  <2>1. RowsAre(reader, W, at) /\ NamesAre(reader, W, at)
    BY <1>2, <1>7 DEF KnowsTo, Knows
  <2>2. /\ SameRest(reader, s)
        /\ s.warnings = IF at \in RCardsOf(W) \cup {ObjCard(W)} THEN reader.warnings
                        ELSE Append(reader.warnings, at)
    BY <1>2, <1>3, <1>7, <2>1, RowsCardDeclares
  <2>3. s.warnings = IF w THEN Append(reader.warnings, at) ELSE reader.warnings
    BY <1>4, <2>2
  <2>4. Hears(reader, s, w)
    BY <1>2, <1>5, <2>3, HearsIfWarned
  <2>5. ColumnsSeen(s.cols, at + 1)
    BY <1>7, <2>2, NamesStaySeen DEF SameRest, W
  <2> QED
    BY <1>6, <1>7, <2>4, <2>5 DEF Heeds, Hears
<1> QED
  BY <1>1, <1>7, ContinueNotes DEF W

LEMMA RhsCardNotes ==
  ASSUME Heeded, M!RhsCard
  PROVE  M!Throw \/ \E s : Notes(s)
<1> DEFINE W == TheSheet
           t == M!Tokens
           s == M!handle_rhs(reader, t)
<1>1. "RHS" \in CardSections /\ M!Card("RHS") /\ M!Continue(s)
  BY DEF CardSections, PairSections, M!RhsCard
<1>2. /\ IsSheet(W) /\ at \in Int /\ at \in W.cards["RHS"]
      /\ W.F[at] = t /\ t \in Seq(STRING) /\ reader \in MpsReaders
      /\ IF NCardsOf(W) = {} THEN reader.objective_name = "" ELSE KnowsTo(reader, W, at)
  BY <1>1, CardOfSheet DEF Heeded
<1>3. SameColumns(reader.cols, s.cols)
  BY <1>2, SidesKeep DEF Keeps, KeepsColumns
<1>4. s = M!handle_rhs(reader, W.F[at])
  BY <1>2
<1>5. NCardsOf(W) # {} => (at \in WarnedLines <=> at \in FreeLines(W))
  BY <1>1, CardWarned
<1> HIDE DEF W, s, t
<1>6. ASSUME ~s.error, NCardsOf(W) # {} PROVE Heeds(s)
  <2>1. Hears(reader, s, at \in FreeLines(W))
    BY <1>2, <1>4, <1>6, RhsCardKnows
  <2>2. ColumnsSeen(s.cols, at + 1)
    BY <1>3, <1>6, NamesStaySeen DEF SameColumns, W
  <2> QED
    BY <1>5, <1>6, <2>1, <2>2 DEF Heeds, Hears
<1> QED
  BY <1>1, <1>6, ContinueNotes DEF W

LEMMA RangesCardNotes ==
  ASSUME Heeded, M!RangesCard
  PROVE  M!Throw \/ \E s : Notes(s)
<1> DEFINE W == TheSheet
           t == M!Tokens
           s == M!handle_ranges(reader, t)
<1>1. "RANGES" \in CardSections /\ M!Card("RANGES") /\ M!Continue(s)
  BY DEF CardSections, PairSections, M!RangesCard
<1>2. /\ IsSheet(W) /\ at \in Int /\ at \in W.cards["RANGES"]
      /\ W.F[at] = t /\ t \in Seq(STRING) /\ reader \in MpsReaders
      /\ IF NCardsOf(W) = {} THEN reader.objective_name = "" ELSE KnowsTo(reader, W, at)
  BY <1>1, CardOfSheet DEF Heeded
<1>3. SameColumns(reader.cols, s.cols)
  BY <1>2, SidesKeep DEF Keeps, KeepsColumns
<1>4. s = M!handle_ranges(reader, W.F[at])
  BY <1>2
<1>5. NCardsOf(W) # {} => (at \in WarnedLines <=> at \in FreeLines(W))
  BY <1>1, CardWarned
<1> HIDE DEF W, s, t
<1>6. ASSUME ~s.error, NCardsOf(W) # {} PROVE Heeds(s)
  <2>1. Hears(reader, s, at \in FreeLines(W))
    BY <1>2, <1>4, <1>6, RangesCardKnows
  <2>2. ColumnsSeen(s.cols, at + 1)
    BY <1>3, <1>6, NamesStaySeen DEF SameColumns, W
  <2> QED
    BY <1>5, <1>6, <2>1, <2>2 DEF Heeds, Hears
<1> QED
  BY <1>1, <1>6, ContinueNotes DEF W

LEMMA ColumnsCardNotes ==
  ASSUME Heeded, M!ColumnsCard
  PROVE  M!Throw \/ \E s : Notes(s)
<1> DEFINE W == TheSheet
           t == M!Tokens
           s == M!handle_columns(reader, t)
<1>1. "COLUMNS" \in CardSections /\ M!Card("COLUMNS") /\ M!Continue(s)
  BY DEF CardSections, PairSections, M!ColumnsCard
<1>2. /\ IsSheet(W) /\ at \in Int /\ at \in W.cards["COLUMNS"]
      /\ W.F[at] = t /\ t \in Seq(STRING) /\ Distinct(reader.cols) /\ reader \in MpsReaders
      /\ IF NCardsOf(W) = {} THEN reader.objective_name = "" ELSE KnowsTo(reader, W, at)
  BY <1>1, CardOfSheet DEF Heeded
<1>3. s = M!handle_columns(reader, W.F[at]) /\ W.F = TheFields /\ at \in ColumnsCards
  BY <1>1, <1>2, SheetMembers DEF ColumnsCards
<1>4. NCardsOf(W) # {} => at \notin WarnedLines
  BY <1>1, CardWarned
<1> HIDE DEF W, t
<1>5. CASE M!IsMarker(t)
  <2> DEFINE b == M!Contains(t, "INTORG")
  <2>1. s = [reader EXCEPT !.in_integer_block = b]
    BY <1>5 DEF M!handle_columns
  <2> HIDE DEF b, s
  <2>2. s.warnings = reader.warnings /\ s.cols = reader.cols
    BY <1>2, <2>1 DEF MpsReaders, MpsMembers
  <2>3. NCardsOf(W) # {} => Heeds(s)
    BY <1>4, <2>2, QuietHeeds DEF W
  <2> QED
    BY <1>1, <2>3, ContinueNotes DEF W
<1>6. CASE ~M!IsMarker(t)
  <2> DEFINE name == t[1]
  <2>1. at \in PairCardsOf(W, "COLUMNS")
    BY <1>2, <1>6 DEF PairCardsOf
  <2>2. ASSUME ~s.error, NCardsOf(W) # {} PROVE Heeds(s)
    <3>1. s.warnings = reader.warnings
      <4> HIDE DEF s
      <4> QED
        BY <1>2, <1>3, <2>1, <2>2, ColumnsCardKnows
    <3>2. /\ name \in STRING /\ Len(s.cols) = Len(With(reader.cols, name))
          /\ \A j \in 1..Len(With(reader.cols, name)) : s.cols[j].name = With(reader.cols, name)[j].name
      BY <1>2, <1>6, <2>2, ColumnsCardDoes
    <3>3. name = TheFields[at][1] /\ ~M!IsMarker(TheFields[at])
      BY <1>2, <1>3, <1>6
    <3> HIDE DEF s, name
    <3>4. SeenBefore(name, at + 1)
      BY <1>3, <3>3, SeenNext
    <3>5. ColumnsSeen(s.cols, at + 1)
      BY <2>2, <3>2, <3>4, NameIsSeen DEF W
    <3> QED
      BY <1>4, <2>2, <3>1, <3>5 DEF Heeds, Hears, Heard
  <2> HIDE DEF s
  <2> QED
    BY <1>1, <2>2, ContinueNotes DEF W
<1> QED
  BY <1>5, <1>6

LEMMA BoundsCardNotes ==
  ASSUME Heeded, M!BoundsCard
  PROVE  M!Throw \/ \E s : Notes(s)
<1> DEFINE W == TheSheet
           t == M!Tokens
           s == M!handle_bounds(reader, t)
           name == M!BoundedColumn(t)
           p == reader.cols
           q == With(p, name)
<1>1. "BOUNDS" \in CardSections /\ M!Card("BOUNDS") /\ M!Continue(s)
  BY DEF CardSections, M!BoundsCard
<1>2. /\ at \in Int /\ at \in W.cards["BOUNDS"] /\ W.F[at] = t /\ t \in Seq(STRING)
      /\ Distinct(p) /\ reader \in MpsReaders
  BY <1>1, CardOfSheet DEF Heeded
<1>3. TheFields[at] = t /\ at \in BoundsCards
  BY <1>1, <1>2, SheetMembers DEF BoundsCards
<1>4. NCardsOf(W) # {} => (at \in WarnedLines <=> at \in Unknowns \cup Negatives)
  BY <1>1, CardWarned
<1> HIDE DEF W, t
<1>5. ASSUME ~s.error, NCardsOf(W) # {} PROVE Heeds(s)
  <2>1. /\ name \in STRING /\ Len(s.cols) = Len(q)
        /\ \A j \in 1..Len(q) : s.cols[j].name = q[j].name
    <3>1. \A j \in 1..Len(q) : s.cols[j] = q[j] => s.cols[j].name = q[j].name
      OBVIOUS
    <3> QED
      BY <1>2, <1>5, <3>1, BoundsCardDoes
  <2>2. SeenBefore(name, at + 1)
    BY <1>3, SeenNext
  <2>3. ColumnsSeen(s.cols, at + 1)
    <3> HIDE DEF s, name
    <3> QED
      BY <1>5, <2>1, <2>2, NameIsSeen DEF W
  <2>4. p \in Seq(ColumnFields)
    BY <1>2 DEF MpsReaders, MpsMembers
  <2>5. PICK k \in 1..Len(q) : q[k].name = name
    <3> HIDE DEF name, p
    <3>1. Has(q, name)
      BY <1>2, <2>1, <2>4, WithHas
    <3> HIDE DEF q
    <3> QED
      BY <3>1 DEF Has
  <2>6. Hears(reader, s, ~Has(p, name) \/ IsNegative(t, q[k].lower))
    BY <1>2, <1>5, <2>5, BoundsCardWarns
  <2>7. q[k].lower = Lower(BoundsCards, TheFields, Frees, name, at)
    <3>1. Known(p, BoundsCards, ColumnsCards, TheFields, Frees, at)
      BY DEF Heeded, Prepared, Follows, Following
    <3>2. BoundsCards \in SUBSET Nat /\ ColumnsCards \in SUBSET Nat
      <4>1. file \in Seq(Lines)
        BY DEF Heeded, Prepared
      <4> QED
        BY <4>1, CardsInFile
    <3> HIDE DEF name
    <3>3. Known(q, BoundsCards, ColumnsCards, TheFields, Frees, at)
      BY <2>1, <3>1, <3>2, WithIsKnown
    <3> HIDE DEF q
    <3> QED
      BY <2>5, <3>3 DEF Known, Tells
  <2>8. at \in Unknowns <=> ~Has(p, name)
    <3>1. Has(p, name) <=> SeenBefore(name, at)
      BY <1>5, SeenIsKnown DEF W
    <3> QED
      BY <1>3, <3>1 DEF Unknowns
  <2>9. at \in Negatives <=> IsNegative(t, q[k].lower)
    BY <1>3, <2>7 DEF Negatives
  <2> HIDE DEF s, name, p, q
  <2> QED
    BY <1>4, <1>5, <2>3, <2>6, <2>8, <2>9 DEF Heeds, Hears
<1> HIDE DEF s
<1> QED
  BY <1>1, <1>5, ContinueNotes DEF W

LEMMA WarnedInFile ==
  ASSUME Readable
  PROVE  WarnedLines \in SUBSET M!Visible /\ M!Visible \in SUBSET (1..Len(file))
<1> DEFINE W == TheSheet
           V == M!Visible
<1>1. IsSheet(W) /\ \A section \in CardSections : M!Cards(section) = W.cards[section]
  BY SheetCards
<1>2. V \in SUBSET (1..Len(file)) /\ \A section : M!Cards(section) \in SUBSET V
  <2>1. DOMAIN file = 1..Len(file)
    BY DEF Readable
  <2> QED
    BY <2>1 DEF M!Visible, M!Cards
<1>3. {"ROWS", "RHS", "RANGES", "BOUNDS"} \in SUBSET CardSections
  BY DEF CardSections, PairSections
<1>4. IgnoredHeads \in SUBSET V
  BY DEF IgnoredHeads
<1> HIDE DEF V
<1>5. DroppedRows \in SUBSET V
  BY <1>1, <1>2, <1>3 DEF DroppedRows
<1>6. Unknowns \in SUBSET V /\ Negatives \in SUBSET V
  BY <1>2 DEF Unknowns, Negatives, BoundsCards
<1>7. FreeLines(W) \in SUBSET V
  BY <1>1, <1>2, <1>3, FreeLinesAre
<1> QED
  BY <1>2, <1>4, <1>5, <1>6, <1>7 DEF WarnedLines, V

\* Before the first line there is nothing to warn about.
BeginsQuiet == Noted(M!NewReader, 1)

LEMMA NewIsQuiet == M!NewReader.warnings = <<>>
BY DEF M!NewReader

LEMMA NewIsNoted == Readable => BeginsQuiet
<1> SUFFICES ASSUME Readable PROVE BeginsQuiet
  OBVIOUS
<1> DEFINE r == M!NewReader
           p == r.warnings
           q == r.cols
<1>1. p = <<>> /\ q = <<>>
  BY NewIsQuiet, NewIsBlank
<1> HIDE DEF r, p, q
<1>2. 1..Len(p) = {} /\ 1..Len(q) = {}
  <2>1. Len(p) = 0 /\ Len(q) = 0
    BY <1>1
  <2>2. 1..0 = {}
    OBVIOUS
  <2> QED
    BY <2>1, <2>2
<1>3. \A c \in WarnedLines : ~(c < 1)
  <2>1. WarnedLines \in SUBSET (1..Len(file))
    BY WarnedInFile
  <2> QED
    BY <2>1
<1>4. Heard(r) = {}
  BY <1>2 DEF Heard, p
<1>5. ColumnsSeen(q, 1)
  BY <1>2 DEF ColumnsSeen
<1> QED
  BY <1>3, <1>4, <1>5 DEF BeginsQuiet, Noted, r, q

LEMMA NextIsNoted == Readable' => BeginsQuiet'
BY NewIsNoted, PTL

\* What the fixed layout explained is announced.
AllWarned == Heard(reader) = WarnedLines \cup {i \in {0} : fixed}

LEMMA ConcatIsPointwise ==
  ASSUME NEW a \in Seq(Int), NEW p \in Seq(Int)
  PROVE  /\ Len(a \o p) = Len(a) + Len(p)
         /\ \A k \in 1..(Len(a) + Len(p)) :
              (a \o p)[k] = IF k <= Len(a) THEN a[k] ELSE p[k - Len(a)]
OBVIOUS

LEMMA PutBefore ==
  ASSUME NEW p \in Seq(Int), NEW e \in Int
  PROVE  /\ Len(<<e>> \o p) = Len(p) + 1 /\ (<<e>> \o p)[1] = e
         /\ \A k \in 1..Len(p) : (<<e>> \o p)[k + 1] = p[k]
         /\ <<>> \o p = p
<1> DEFINE a == <<e>>
           b == <<>>
<1>1. /\ a \in Seq(Int) /\ Len(a) = 1 /\ a[1] = e /\ b \in Seq(Int) /\ Len(b) = 0
      /\ Len(p) \in Nat
  OBVIOUS
<1> HIDE DEF a, b
<1>2. Len(a \o p) = Len(p) + 1 /\ \A k \in 1..(Len(p) + 1) : (a \o p)[k] = IF k <= 1 THEN a[k] ELSE p[k - 1]
  <2>1. /\ Len(a \o p) = Len(a) + Len(p)
        /\ \A k \in 1..(Len(a) + Len(p)) :
             (a \o p)[k] = IF k <= Len(a) THEN a[k] ELSE p[k - Len(a)]
    BY <1>1, ConcatIsPointwise, Zenon
  <2>2. Len(a) + Len(p) = Len(p) + 1
    BY <1>1
  <2> DEFINE c == a \o p
  <2>3. /\ Len(c) = Len(p) + 1
        /\ \A k \in 1..(Len(p) + 1) : c[k] = IF k <= 1 THEN a[k] ELSE p[k - 1]
    BY <1>1, <2>1, <2>2, Zenon
  <2> QED
    BY <2>3
<1>3. 1 \in 1..(Len(p) + 1) /\ \A k \in 1..Len(p) : k + 1 \in 1..(Len(p) + 1) /\ ~(k + 1 <= 1) /\ (k + 1) - 1 = k
  BY <1>1
<1>4. \A k \in 1..Len(p) : (a \o p)[k + 1] = p[k]
  BY <1>2, <1>3
<1>5. b \o p = p
  BY <1>1
<1> QED
  BY <1>1, <1>2, <1>3, <1>4, <1>5 DEF a, b

LEMMA AnnouncedIsHeard ==
  ASSUME NEW r \in MpsReaders
  PROVE  Heard(M!Announced(r)) = Heard(r) \cup {i \in {0} : fixed}
<1> DEFINE p == r.warnings
           q == (IF fixed THEN <<0>> ELSE <<>>) \o p
           s == [r EXCEPT !.warnings = q]
           n == Len(p)
<1>1. r \in MpsMembers /\ p \in Seq(Int) /\ n \in Nat
  BY DEF MpsReaders, MpsMembers
<1>2. M!Announced(r) = s
  BY DEF M!Announced
<1>3. s.warnings = q
  <2> HIDE DEF q
  <2> QED
    BY <1>1 DEF MpsMembers
<1>4. CASE fixed
  <2>1. /\ Len(q) = n + 1 /\ q[1] = 0
        /\ \A k \in 1..n : q[k + 1] = p[k]
    <3>1. q = <<0>> \o p
      BY <1>4
    <3> HIDE DEF q
    <3> QED
      BY <1>1, <3>1, PutBefore
  <2> HIDE DEF p, q, n
  <2>2. \A k \in 1..(n + 1) : k = 1 \/ (k - 1 \in 1..n /\ k = (k - 1) + 1)
    BY <1>1
  <2>3. 1 \in 1..(n + 1) /\ \A k \in 1..n : k + 1 \in 1..(n + 1)
    BY <1>1
  <2>4. {q[k] : k \in 1..(n + 1)} = {p[k] : k \in 1..n} \cup {0}
    BY <2>1, <2>2, <2>3
  <2>5. Heard(s) = {q[k] : k \in 1..Len(q)} /\ Heard(r) = {p[k] : k \in 1..n}
    BY <1>3 DEF Heard, p, n
  <2> HIDE DEF s
  <2> QED
    BY <1>2, <1>4, <2>1, <2>4, <2>5
<1>5. CASE ~fixed
  <2>1. q = <<>> \o p
    BY <1>5
  <2>2. q = p
    <3> HIDE DEF q
    <3> QED
      BY <1>1, <2>1, PutBefore
  <2> HIDE DEF q
  <2> QED
    BY <1>2, <1>3, <1>5, <2>2 DEF Heard
<1> QED
  BY <1>4, <1>5

\* The inductive invariant of the warnings.
WarnInv ==
  /\ format = "mps" /\ outcome = "reading" => Noted(reader, at)
  /\ format = "mps" /\ outcome = "read" => AllWarned

LEMMA SameLines ==
  ASSUME file' = file, fixed' = fixed, opt' = opt
  PROVE  /\ WarnedLines' = WarnedLines /\ TheSheet' = TheSheet
         /\ \A p, i : ColumnsSeen(p, i)' <=> ColumnsSeen(p, i)
<1>1. /\ TheFields' = TheFields /\ BoundsCards' = BoundsCards /\ ColumnsCards' = ColumnsCards
      /\ Frees' = Frees
  BY SameFile
<1>2. TheSheet' = TheSheet
  BY SameSheet
<1>3. \A name, i : SeenBefore(name, i)' <=> SeenBefore(name, i)
  BY <1>1 DEF SeenBefore
<1>4. IgnoredHeads' = IgnoredHeads
  BY DEF IgnoredHeads, M!Visible, M!Fields
<1>5. DroppedRows' = DroppedRows
  BY <1>2 DEF DroppedRows
<1>6. Unknowns' = Unknowns
  BY <1>1 DEF Unknowns, SeenBefore
<1>7. Negatives' = Negatives
  BY <1>1 DEF Negatives
<1>8. FreeLines(TheSheet)' = FreeLines(TheSheet)
  BY <1>2
<1>9. \A p, i : ColumnsSeen(p, i)' <=> ColumnsSeen(p, i)
  BY <1>1 DEF ColumnsSeen, SeenBefore
<1>10. WarnedLines' = WarnedLines
  BY <1>4, <1>5, <1>6, <1>7, <1>8 DEF WarnedLines
<1> QED
  BY <1>2, <1>9, <1>10

LEMMA ThrowNotes ==
  ASSUME ReaderInv, TableInv, format = "mps", format' = "mps", outcome = "reading", M!Throw
  PROVE  WarnInv'
<1>1. Readable'
  BY DEF ReaderInv, TableInv, M!Throw, Readable
<1>2. outcome' = "failed" \/ (outcome' = "reading" /\ reader' = M!NewReader /\ at' = 1)
  BY DEF M!Throw
<1>3. outcome' = "reading" => Noted(reader, at)'
  BY <1>1, <1>2, NextIsNoted DEF BeginsQuiet, Noted
<1>4. outcome' # "read"
  BY <1>2
<1> QED
  BY <1>3, <1>4 DEF WarnInv

LEMMA NotesKeeps ==
  ASSUME outcome = "reading", NEW s, Notes(s)
  PROVE  WarnInv'
<1>1. /\ file' = file /\ fixed' = fixed /\ opt' = opt /\ outcome' = "reading"
      /\ reader' = s /\ at' = at + 1 /\ Noted(s, at + 1)
  BY DEF Notes
<1>2. /\ WarnedLines' = WarnedLines /\ TheSheet' = TheSheet
      /\ \A p, i : ColumnsSeen(p, i)' <=> ColumnsSeen(p, i)
  BY <1>1, SameLines
<1>3. Noted(reader, at)'
  BY <1>1, <1>2 DEF Noted
<1> QED
  BY <1>1, <1>3 DEF WarnInv

LEMMA FinishNotes ==
  ASSUME ReaderInv, TableInv, WarnInv, format = "mps", format' = "mps", M!Finish
  PROVE  WarnInv'
<1>1. /\ outcome = "reading" /\ M!AtEnd /\ file \in Seq(Lines) /\ Follows
      /\ Informed(reader, at) /\ opt.keep_free_rows \in BOOLEAN /\ Noted(reader, at)
  BY DEF M!Finish, ReaderInv, TableInv, WarnInv
<1>2. CASE M!Throw
  BY <1>1, <1>2, ThrowNotes
<1>3. CASE /\ reader.objective_name # "" /\ reader' = M!Announced(reader) /\ outcome' = "read"
           /\ UNCHANGED <<file, opt, fixed, at>>
  <2>1. NCardsOf(TheSheet) # {}
    BY <1>1, <1>3, EndIsKnown DEF TableIsRead
  <2>2. WarnedLines' = WarnedLines
    BY <1>3, SameLines
  <2>3. reader \in MpsReaders
    BY <1>1 DEF Follows, Following
  <2>4. \A c \in WarnedLines : c < at
    BY <1>1, WarnedInFile, LinesBeforeEnd DEF Readable
  <2>5. Heard(reader) = WarnedLines
    BY <1>1, <2>1, <2>4 DEF Noted
  <2>6. Heard(M!Announced(reader)) = WarnedLines \cup {i \in {0} : fixed}
    BY <2>3, <2>5, AnnouncedIsHeard
  <2>7. AllWarned'
    BY <1>3, <2>2, <2>6 DEF AllWarned, Heard
  <2> QED
    BY <1>3, <2>7 DEF WarnInv
<1> QED
  BY <1>2, <1>3 DEF M!Finish

LEMMA MpsNotes ==
  ASSUME ReaderInv, TableInv, WarnInv, ReadMps
  PROVE  WarnInv'
<1>1. format = "mps" /\ format' = "mps" /\ M!Next /\ file \in Seq(Lines)
  BY DEF ReadMps, ReaderInv
<1>2. CASE M!Finish
  BY <1>1, <1>2, FinishNotes
<1>3. CASE ~M!Finish
  <2>1. outcome = "reading"
    BY <1>1, MpsStep
  <2>2. Follows /\ Informed(reader, at) /\ opt.keep_free_rows \in BOOLEAN /\ Noted(reader, at)
    BY <1>1, <2>1 DEF ReaderInv, TableInv, WarnInv
  <2>3. M!Reading
    BY <1>1, <1>3 DEF M!Next, M!Header, M!ObjSenseCard, M!RowsCard, M!ColumnsCard, M!RhsCard,
       M!RangesCard, M!BoundsCard, M!StrayCard, M!SkippedCard, M!Card
  <2>4. Heeded
    BY <1>1, <2>2, <2>3 DEF Prepared, Heeded
  <2>5. M!Throw \/ \E s : Notes(s)
    <3>1. CASE M!Header
      BY <2>4, <3>1, HeaderNotes
    <3>2. CASE M!ObjSenseCard \/ M!SkippedCard
      BY <2>4, <3>2, OtherCardNotes
    <3>3. CASE M!RowsCard
      BY <2>4, <3>3, RowsCardNotes
    <3>4. CASE M!ColumnsCard
      BY <2>4, <3>4, ColumnsCardNotes
    <3>5. CASE M!RhsCard
      BY <2>4, <3>5, RhsCardNotes
    <3>6. CASE M!RangesCard
      BY <2>4, <3>6, RangesCardNotes
    <3>7. CASE M!BoundsCard
      BY <2>4, <3>7, BoundsCardNotes
    <3>8. CASE M!StrayCard
      BY <3>8 DEF M!StrayCard
    <3> QED
      BY <1>1, <1>3, <3>1, <3>2, <3>3, <3>4, <3>5, <3>6, <3>7, <3>8 DEF M!Next
  <2> QED
    BY <1>1, <2>1, <2>5, ThrowNotes, NotesKeeps
<1> QED
  BY <1>2, <1>3

LEMMA WarnInvInit == Init => WarnInv
<1> SUFFICES ASSUME Init PROVE WarnInv
  OBVIOUS
<1>1. Readable
  BY ReaderInvInit, TableInvInit DEF Init, ReaderInv, TableInv, Readable
<1>2. outcome = "reading" /\ at = 1 /\ (format = "mps" => reader = M!NewReader)
  BY DEF Init
<1> QED
  BY <1>1, <1>2, NewIsNoted DEF WarnInv, BeginsQuiet

LEMMA WarnInvUnchanged == WarnInv /\ UNCHANGED vars => WarnInv'
<1> SUFFICES ASSUME WarnInv, UNCHANGED vars PROVE WarnInv'
  OBVIOUS
<1>1. /\ file' = file /\ fixed' = fixed /\ opt' = opt /\ format' = format /\ outcome' = outcome
      /\ at' = at /\ reader' = reader
  BY DEF vars
<1>2. /\ WarnedLines' = WarnedLines /\ TheSheet' = TheSheet
      /\ \A p, i : ColumnsSeen(p, i)' <=> ColumnsSeen(p, i)
  BY <1>1, SameLines
<1>3. (Noted(reader, at)' <=> Noted(reader, at)) /\ (AllWarned' <=> AllWarned)
  BY <1>1, <1>2 DEF Noted, AllWarned
<1> QED
  BY <1>1, <1>3 DEF WarnInv

LEMMA WarnInvStep ==
  ReaderInv /\ TableInv /\ WarnInv /\ [Reads]_vars => WarnInv'
<1> SUFFICES ASSUME ReaderInv, TableInv, WarnInv, [Reads]_vars PROVE WarnInv'
  OBVIOUS
<1>1. CASE Choose
  <2>1. /\ format = "none" /\ file' = file /\ opt' = opt /\ at' = at /\ outcome' \in {"reading", "failed"}
        /\ format' = "mps" => reader' = M!NewReader
    BY <1>1 DEF Choose
  <2>2. Readable' /\ at' = 1 /\ outcome' # "read"
    BY <2>1 DEF ReaderInv, TableInv, Readable
  <2>3. format' = "mps" => Noted(reader, at)'
    BY <2>1, <2>2, NextIsNoted DEF BeginsQuiet, Noted
  <2> QED
    BY <2>2, <2>3 DEF WarnInv
<1>2. CASE ReadMps
  BY <1>2, MpsNotes
<1>3. CASE ReadLp
  BY <1>3 DEF ReadLp, WarnInv
<1>4. CASE UNCHANGED vars
  BY <1>4, WarnInvUnchanged
<1> QED
  BY <1>1, <1>2, <1>3, <1>4 DEF Reads

LEMMA WarnInvHolds == ReadSpec => []WarnInv
BY ReaderInvHolds, TableInvHolds, WarnInvInit, WarnInvStep, PTL DEF ReadSpec

\* The lines of pairs about free rows, as the property finds them.
LEMMA FreeAsStated ==
  ASSUME Readable, TableIsRead
  PROVE  UNION {{m[1] : m \in M!OfRow("RHS", i) \cup M!OfRow("RANGES", i)} :
                  i \in {k \in DOMAIN reader.rows : M!Fields(M!RowCard(k))[1] = "N"}}
           = FreeLines(TheSheet)
<1> DEFINE W == TheSheet
           n == Len(file) + 1
           R == DOMAIN reader.rows
           X(q) == M!OfRow("RHS", q) \cup M!OfRow("RANGES", q)
           free == UNION {{m[1] : m \in X(i)} : i \in {k \in R : M!Fields(M!RowCard(k))[1] = "N"}}
<1>1. IsSheet(W) /\ NCardsOf(W) # {} /\ RowsAre(reader, W, n) /\ n \in Nat
  <2>1. Len(file) \in Nat
    BY DEF Readable
  <2> QED
    BY <2>1, SheetCards DEF TableIsRead, Knows
<1>2. R = 1..Len(reader.rows)
  BY DEF TableIsRead, MpsReaders, MpsMembers
<1>3. {"RHS", "RANGES"} \in SUBSET PairSections
  BY DEF PairSections
<1>4. ASSUME NEW q \in R
      PROVE  /\ CardOf(W, q) \in RCardsOf(W) /\ M!Fields(M!RowCard(q))[1] = TypeOn(W, CardOf(W, q))
             /\ X(q) = OfCard(W, "RHS", CardOf(W, q)) \cup OfCard(W, "RANGES", CardOf(W, q))
             /\ X(q) \in SUBSET Places(W)
  <2>1. CardOf(W, q) \in RCardsOf(W)
    BY <1>1, <1>2 DEF RowsAre
  <2>2. CardOf(W, q) \in M!Cards("ROWS") /\ M!RowCard(q) = CardOf(W, q)
    BY <2>1, SheetRows, SheetCards DEF RCardsOf, CardSections
  <2>3. M!Fields(M!RowCard(q))[1] = TypeOn(W, CardOf(W, q))
    BY <2>2, SheetCards DEF TypeOn, CardSections
  <2>4. \A section \in PairSections : /\ M!OfRow(section, q) = OfCard(W, section, CardOf(W, q))
                                      /\ OfCard(W, section, CardOf(W, q)) \in SUBSET PlacesIn(W, section)
    BY <1>1, <2>1, SheetMentions
  <2> QED
    BY <1>3, <2>1, <2>3, <2>4 DEF Places
<1> HIDE DEF W, X, n, R
<1>5. ASSUME NEW q \in R, M!Fields(M!RowCard(q))[1] = "N", NEW m \in X(q) PROVE m[1] \in FreeLines(W)
  <2>1. m \in Places(W) /\ ForFree(W, m)
    BY <1>4, <1>5 DEF ForFree
  <2> QED
    BY <2>1 DEF FreeLines
<1>6. ASSUME NEW m \in Places(W), ForFree(W, m)
      PROVE  \E q \in R : M!Fields(M!RowCard(q))[1] = "N" /\ m \in X(q)
  <2>1. PICK c \in RCardsOf(W) :
          TypeOn(W, c) = "N" /\ (m \in OfCard(W, "RHS", c) \/ m \in OfCard(W, "RANGES", c))
    BY <1>6 DEF ForFree
  <2>2. c < n
    <3>1. c \in M!Cards("ROWS")
      BY <2>1, SheetCards DEF RCardsOf, CardSections, W
    <3>2. c \in 1..Len(file)
      <4>1. DOMAIN file = 1..Len(file)
        BY DEF Readable
      <4> QED
        BY <3>1, <4>1 DEF M!Cards, M!Visible
    <3> QED
      BY <3>2 DEF n
  <2>3. PICK q \in 1..Len(reader.rows) : CardOf(W, q) = c
    BY <1>1, <2>2, CardHasRow
  <2> QED
    BY <1>2, <1>4, <2>1, <2>3
<1>7. free = FreeLines(W)
  <2>1. free \in SUBSET FreeLines(W)
    BY <1>5
  <2>2. FreeLines(W) \in SUBSET free
    BY <1>6 DEF FreeLines
  <2> QED
    BY <2>1, <2>2
<1> QED
  BY <1>7 DEF X, R, W

LEMMA WarningsAsStated ==
  ASSUME Readable, TableIsRead, AllWarned, outcome = "read"
  PROVE  M!WarningsAreExact
<1> DEFINE seen(name, i) ==
             \/ \E c \in M!Cards("COLUMNS") :
                  c < i /\ ~M!IsMarker(M!Fields(c)) /\ M!Fields(c)[1] = name
             \/ \E c \in M!BoundCards(name) : c < i
           unsupported == {i \in M!Visible : /\ file[i].header
                                             /\ M!Fields(i)[1] \notin M!Sections \cup M!ObjSenseHeads}
           dropped == M!Cards("ROWS") \ (M!RowCards \cup {M!ObjectiveCard})
           free == UNION {{m[1] : m \in M!OfRow("RHS", i) \cup M!OfRow("RANGES", i)} :
                            i \in {k \in DOMAIN reader.rows : M!Fields(M!RowCard(k))[1] = "N"}}
           unknown == {i \in M!Cards("BOUNDS") : ~seen(M!BoundedColumn(M!Fields(i)), i)}
           negative == {i \in M!Cards("BOUNDS") :
                          /\ M!Fields(i)[1] = "UP" /\ M!ValueOf(M!Fields(i)) < 0
                          /\ M!LowerBefore(M!BoundedColumn(M!Fields(i)), i) = 0}
<1>1. file \in Seq(Lines)
  BY DEF Readable
<1>2. \A c \in BoundsCards \cup ColumnsCards : TheFields[c] = M!Fields(c)
  BY <1>1, CardsInFile DEF TheFields
<1>3. unsupported = IgnoredHeads
  BY DEF IgnoredHeads
<1>4. dropped = DroppedRows
  BY SheetRows, SheetCards DEF DroppedRows, CardSections
<1>5. free = FreeLines(TheSheet)
  BY FreeAsStated
<1>6. \A name, i : seen(name, i) <=> SeenBefore(name, i)
  BY <1>2 DEF SeenBefore, About, BoundsCards, ColumnsCards, M!BoundCards
<1> HIDE DEF seen
<1>7. unknown = Unknowns
  BY <1>2, <1>6 DEF Unknowns, BoundsCards
<1>8. negative = Negatives
  <2>1. \A name, i : M!LowerBefore(name, i) = Lower(BoundsCards, TheFields, Frees, name, i)
    BY <1>1, LowerIsStated
  <2> QED
    BY <1>2, <2>1 DEF Negatives, BoundsCards, IsNegative
<1>9. M!ToSet(reader.warnings) = Heard(reader)
  <2>1. DOMAIN reader.warnings = 1..Len(reader.warnings)
    BY DEF TableIsRead, MpsReaders, MpsMembers
  <2> QED
    BY <2>1 DEF M!ToSet, Heard
<1>10. {i \in {0} : fixed} = IF fixed THEN {0} ELSE {}
  OBVIOUS
<1> HIDE DEF unsupported, dropped, free, unknown, negative
<1>11. M!ToSet(reader.warnings) = unsupported \cup dropped \cup free \cup unknown \cup negative
         \cup (IF fixed THEN {0} ELSE {})
  BY <1>3, <1>4, <1>5, <1>7, <1>8, <1>9, <1>10 DEF AllWarned, WarnedLines
<1> QED
  BY <1>11 DEF M!WarningsAreExact, seen, unsupported, dropped, free, unknown, negative

LEMMA WarnInvIsTheProperty == TableInv /\ WarnInv => WarningsAreExact
<1> SUFFICES ASSUME TableInv, WarnInv, format = "mps", outcome = "read" PROVE M!WarningsAreExact
  BY DEF WarningsAreExact, M!WarningsAreExact
<1>1. Readable /\ TableIsRead /\ AllWarned
  BY DEF TableInv, TableIsRead, Readable, WarnInv
<1> QED
  BY <1>1, WarningsAsStated

\* Whatever a file says and the problem that was read does not is warned about
\* at its line, and nothing else is, for every file: the header loop, handle_rows,
\* handle_rhs, apply_range and apply_bound warn exactly there.
THEOREM WarningsFollowed == ReadSpec => []WarningsAreExact
BY TableInvHolds, WarnInvHolds, WarnInvIsTheProperty, PTL
===============================================================================
