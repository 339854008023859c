-------------------------------- MODULE ReadModel --------------------------------
(***************************************************************************)
(* Reading a model: read_model (src/io/lp_reader.cpp) chooses one of the   *)
(* two readers by the name of the file or by a look at its lines, and the  *)
(* reader makes a problem of it; a program that has the text may also call *)
(* the MPS reader itself, with options of its own.                         *)
(***************************************************************************)
EXTENDS ProblemBuilder

CONSTANTS
  Jobs,        \* a sequence of sets: the files that may be given, how, and what
               \* they were made from
  Number, Stem,
  Looks        \* the formats that the beginnings of some tokens give away

\* Tokens are not empty, and a line has some in the free layout: blank ones are
\* not in a file.
Tokens == STRING \ {""}
Lines == [header : BOOLEAN, free : Seq(Tokens) \ {<<>>}, fixed : Seq(Tokens)]

ASSUME FilesAssumption == \A k \in DOMAIN Jobs : \A given \in Jobs[k] : given.lines \in Seq(Lines)
ASSUME NumberAssumption ==
  kInfinity \in Nat \ {0} /\ \A token \in DOMAIN Number : Number[token] \in Int

VARIABLES
  job,         \* the arguments; format and program say what the file is
  format,      \* of the reader chosen
  file, opt, fixed, at, reader, matrix, outcome

vars == <<job, format, file, opt, fixed, at, reader, matrix, outcome>>

M == INSTANCE MpsReader
L == INSTANCE LpReader

DefaultOptions == [keep_free_rows |-> TRUE, lower_becomes_minus_infinity |-> TRUE]

Init ==
  /\ \E k \in DOMAIN Jobs : job \in Jobs[k]
  /\ file = job.lines
  /\ opt \in IF job.call = "read_mps"
             THEN [keep_free_rows : BOOLEAN, lower_becomes_minus_infinity : BOOLEAN]
             ELSE {DefaultOptions}
  /\ format = IF job.call = "read_mps" THEN "mps" ELSE "none"
  /\ reader = IF job.call = "read_mps" THEN M!NewReader ELSE <<>>
  /\ fixed = FALSE
  /\ at = 1
  /\ matrix = <<>>
  /\ outcome = "reading"

\* Mutant: a word for an objective anywhere makes it an LP file.
SniffObjective(lines) ==
  LET telling == {i \in DOMAIN lines : lines[i].free[1] \in DOMAIN Looks}
  IN  IF telling = {} THEN "none"
      ELSE IF \E i \in telling : Looks[lines[i].free[1]] = "lp" THEN "lp" ELSE "mps"

\* The first line that gives a format away decides.
Sniff(lines) ==
  LET i == SelectInSeq(lines, LAMBDA line : line.free[1] \in DOMAIN Looks)
  IN  IF i = 0 THEN "none" ELSE Looks[lines[i].free[1]]

\* read_model(): the extension decides if it is known.
Choose ==
  /\ format = "none" /\ outcome = "reading"
  /\ LET chosen == IF job.extension \in {"mps", "lp"} THEN job.extension ELSE Sniff(file)
     IN  /\ format' = chosen
         /\ \/ chosen = "mps" /\ reader' = M!NewReader /\ UNCHANGED outcome
            \/ chosen = "lp" /\ reader' = L!NewReader /\ UNCHANGED outcome
            \/ chosen = "none" /\ outcome' = "failed" /\ UNCHANGED reader
  /\ UNCHANGED <<job, file, opt, fixed, at, matrix>>

ReadMps == format = "mps" /\ M!Next /\ UNCHANGED <<job, format>>
ReadLp == format = "lp" /\ L!Next /\ UNCHANGED <<job, format, opt, fixed>>

Reads == Choose \/ ReadMps \/ ReadLp

ReadSpec == Init /\ [][Reads]_vars
-------------------------------------------------------------------------------
(* What the program means that an LP file was written from: its rows,      *)
(* bounds and declarations in their order.  A row keeps the constants of   *)
(* its body, a bound gives one value or two, each <<>> or <<v>>.           *)

program == job.program
ReadAs(kind) == outcome = "read" /\ format = kind

NameOf(i) ==
  IF program.rows[i].name # <<>> THEN program.rows[i].name
  ELSE <<"c" \o ToString(Cardinality({k \in 1..i : program.rows[k].name = <<>>}))>>

Variables(terms) == {t.variable : t \in ToSet(terms)} \ {<<>>}
Mentioned ==
  Variables(program.objective) \cup UNION {Variables(row.terms) : row \in ToSet(program.rows)}
    \cup {b.name : b \in ToSet(program.bounds)} \cup program.general \cup program.binary

SumOf(terms, variable) ==
  FoldLeft(LAMBDA v, t : IF t.variable = variable THEN v + t.coefficient ELSE v, 0, terms)

\* The last value given to one side of a column.
Given(name, side, default) ==
  LET k == SelectLastInSeq(program.bounds, LAMBDA b : b.name = name /\ b[side] # <<>>)
  IN  IF k = 0 THEN default ELSE program.bounds[k][side][1]
ColumnBounds(name) ==
  IF name \in program.binary THEN <<0, 1>>
  ELSE <<Given(name, "lower", 0), Given(name, "upper", kInfinity)>>

Shifted(bound, by) == IF is_finite_bound(bound) THEN bound - by ELSE bound
RowBounds(row) ==
  <<Shifted(row.lower, SumOf(row.terms, <<>>)), Shifted(row.upper, SumOf(row.terms, <<>>))>>

IsSound ==
  /\ \A i, k \in DOMAIN program.rows : i # k => NameOf(i) # NameOf(k)
  /\ \A row \in ToSet(program.rows) : RowBounds(row)[1] <= RowBounds(row)[2]
  /\ \A name \in Mentioned : ColumnBounds(name)[1] <= ColumnBounds(name)[2]
-------------------------------------------------------------------------------
(* Properties of the MPS reader are those of its module.                   *)

\* What was read of an MPS file is what the whole of it says: the rows and
\* their bounds, the constant and the costs of its objective, and that no
\* card is about a row which was not declared before it.
RowsFollowTheTable ==
  format = "mps" => M!RowsFollowTheTable /\ M!ObjectiveFollowsTheCards /\ M!NamesAreDeclared

\* Each bound and kind of a column is what the last card about it says.
BoundsFollowTheCards == format = "mps" => M!BoundsFollowTheCards

\* Exactly the lines of an MPS file that change what others say, in the ways
\* that the reader looks for, are warned about.
WarningsAreExact == format = "mps" => M!WarningsAreExact

\* A problem read from an LP file is the program the file was written from,
\* however its statements are laid out and its sections ordered: rows in
\* their order, with the names and the bounds written or the ones they have
\* by default, no column that the program does not mention, and the matrix.
LpReadsAsWritten ==
  ReadAs("lp") =>
    /\ reader.sense = program.sense
    /\ reader.objective_name = program.name
    /\ reader.objective_constant = SumOf(program.objective, <<>>)
    /\ [i \in DOMAIN reader.rows |-> reader.rows[i].name] = [i \in DOMAIN program.rows |-> NameOf(i)]
    /\ \A i \in DOMAIN reader.rows :
         <<reader.rows[i].lower, reader.rows[i].upper>> = RowBounds(program.rows[i])
    /\ {col.name : col \in ToSet(reader.cols)} = Mentioned
    /\ \A col \in ToSet(reader.cols) :
         /\ <<col.lower, col.upper>> = ColumnBounds(col.name)
         /\ col.integer <=> col.name \in program.general \cup program.binary
         /\ col.cost = SumOf(program.objective, col.name)
    /\ \A i \in DOMAIN reader.rows : \A j \in DOMAIN reader.cols :
         LET stored == {k \in Positions(matrix, i) : matrix.index[k] = j}
         IN  SumOf(program.rows[i].terms, reader.cols[j].name) =
               MapThenSumSet(LAMBDA k : matrix.values[k], stored)

\* Each file is read as what it is.  No reader makes a problem of a file of
\* the other format, whatever the file is called, and a file that says its
\* format in its first line is given to its reader, unless its name says
\* otherwise.  An LP file that was written from a program is read, unless two
\* rows get the same name (one given, one by default) or bounds cross; one
\* that was not is refused.  A model is never half read.
FilesAreRecognized ==
  /\ outcome = "read" => format = job.format
  /\ format # "none" /\ file # <<>> /\ job.extension \notin {"mps", "lp"} /\ file[1].free[1] \in DOMAIN Looks =>
       format = Looks[file[1].free[1]]
  /\ format = "lp" /\ job.format = "lp" =>
       /\ outcome = "read" => program # <<>> /\ IsSound
       /\ outcome = "failed" => program = <<>> \/ ~IsSound

\* Each entry of the matrix of an MPS file is the sum of its cards'.
CoefficientsAreSummed == format = "mps" => M!CoefficientsAreSummed

\* The matrix that was read is the same in both layouts: the other one is well
\* formed, the conversion back gives the first, entry by entry, and the
\* products of each layout with a vector are the other's.
LayoutsAgree ==
  outcome = "read" =>
    LET csc == Reordered(matrix)
    IN  /\ WellFormed(csc) /\ Reordered(csc) = matrix
        /\ \A x \in [1..matrix.across -> {0, 1}] : multiply_transpose(csc, x) = multiply(matrix, x)
        /\ \A y \in [1..matrix.lines -> {0, 1}] : multiply_transpose(matrix, y) = multiply(csc, y)
===============================================================================
