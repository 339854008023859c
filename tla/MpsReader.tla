------------------------------- MODULE MpsReader -------------------------------
(***************************************************************************)
(* The MPS reader (src/io/mps_reader.cpp): one card at a time, each by the *)
(* handler of the section it is in, and the second reading of a file that  *)
(* the free layout does not explain.                                       *)
(*                                                                         *)
(* A file is a sequence of lines, without blank ones and comments.  A line *)
(* is a header or a data card and has two readings, the tokens of the free *)
(* and of the fixed layout.  Tokens are values; Number is what parse_real  *)
(* makes of those that are numbers, with kInfinity for the spellings of an *)
(* infinite bound.  Letter case is left out.                               *)
(***************************************************************************)
EXTENDS ProblemBuilder

CONSTANT
  Number      \* a function from the numeric tokens to integers

VARIABLES
  file, opt,         \* the two arguments
  fixed,             \* fixed_: the file is read a second time
  at,                \* line_no_, of the line that is read next
  reader,            \* the members of the MpsReader, its builder's included
  matrix,            \* of the problem finish() makes
  outcome            \* "reading", "read" or "failed"

Sections == {"NAME", "ROWS", "COLUMNS", "RHS", "RANGES", "BOUNDS"}
ObjSenseHeads == {"OBJSENSE", "OBJSENS"}
Directions == [MAX |-> "Maximize", MAXIMIZE |-> "Maximize", MIN |-> "Minimize", MINIMIZE |-> "Minimize"]

\* The objective has no name until its row is read; row_sense and row_rhs are
\* indexed like the builder's rows.
NewReader ==
  [sense |-> NewBuilder.sense, objective_constant |-> NewBuilder.objective_constant,
   rows |-> NewBuilder.rows, cols |-> NewBuilder.cols, entries |-> NewBuilder.entries,
   section |-> "None", objective_name |-> "", row_sense |-> <<>>, row_rhs |-> <<>>,
   dropped_rows |-> {}, in_integer_block |-> FALSE, warnings |-> <<>>, error |-> FALSE]

\* A reader that threw is destroyed: nothing of it is left but the fact.
Failed(r) == [r EXCEPT !.error = TRUE]
warn(r) == [r EXCEPT !.warnings = Append(@, at)]

\* Headers are split at blanks in both layouts.
Fields(i) == IF fixed /\ ~file[i].header THEN file[i].fixed ELSE file[i].free
Tokens == Fields(at)
IsNumber(token) == token \in DOMAIN Number

\* The pairs of a card from its k-th token on; one left over is not read.
Pairs(t, k) == [i \in 1..((Len(t) - k + 1) \div 2) |-> <<t[k + 2 * i - 2], t[k + 2 * i - 1]>>]
PairsAfterSetName(t) == Pairs(t, IF Len(t) % 2 = 1 THEN 2 ELSE 1)

-------------------------------------------------------------------------------
(* The handlers: what a card makes of a reader.                            *)

apply_objsense(r, token) ==
  IF token \notin DOMAIN Directions THEN Failed(r)
  ELSE [r EXCEPT !.sense = Directions[token], !.section = "None"]

\* What a row means by its type and its right-hand side.
Sides(type, rhs) ==
  [L |-> <<-kInfinity, rhs>>, G |-> <<rhs, kInfinity>>, E |-> <<rhs, rhs>>,
   N |-> <<-kInfinity, kInfinity>>][type]

\* record(): the row and what the reader remembers of it, at one index.
record(r, type, name) ==
  IF find_row(r, name) # 0 THEN Failed(r)
  ELSE [add_row(r, name, Sides(type, 0)) EXCEPT !.row_sense = Append(@, type),
                                                !.row_rhs = Append(@, 0)]

handle_rows(r, t) ==
  IF Len(t) < 2 \/ t[1] \notin {"L", "G", "E", "N"} THEN Failed(r)
  ELSE IF t[1] # "N" \/ (r.objective_name # "" /\ opt.keep_free_rows) THEN record(r, t[1], t[2])
  ELSE IF r.objective_name = "" THEN [r EXCEPT !.objective_name = t[2]]
  ELSE [warn(r) EXCEPT !.dropped_rows = @ \cup {t[2]}]

\* A name of no row is passed over if the row was dropped, else an error.
Unfound(r, name) == IF name \in r.dropped_rows THEN r ELSE Failed(r)

Coefficient(r, j, pair) ==
  LET i == find_row(r, pair[1])
      v == Number[pair[2]]
  IN  IF ~IsNumber(pair[2]) THEN Failed(r)
      ELSE IF pair[1] = r.objective_name THEN set_objective_coefficient(r, j, v)
      ELSE IF i = 0 THEN Unfound(r, pair[1])
      ELSE add_coefficient(r, i, j, v)

IsMarker(t) == Contains(t, "MARKER") /\ (Contains(t, "INTORG") \/ Contains(t, "INTEND"))

handle_columns(r, t) ==
  IF IsMarker(t) THEN [r EXCEPT !.in_integer_block = Contains(t, "INTORG")]
  ELSE IF Len(t) < 3 THEN Failed(r)
  ELSE LET added == column_for(r, t[1])
           j == find_column(added, t[1])
           kinded == [added EXCEPT !.cols[j].integer = @ \/ r.in_integer_block]
       IN  FoldLeft(LAMBDA s, pair : Coefficient(s, j, pair), kinded, Pairs(t, 2))

RightHandSide(r, pair) ==
  LET i == find_row(r, pair[1])
      v == Number[pair[2]]
      told == [r EXCEPT !.row_rhs[i] = v]
  IN  IF ~IsNumber(pair[2]) THEN Failed(r)
      ELSE IF pair[1] = r.objective_name THEN [r EXCEPT !.objective_constant = -v]
      ELSE IF i = 0 THEN Unfound(r, pair[1])
      ELSE IF r.row_sense[i] = "N" THEN warn(told)
      ELSE set_row_bounds(told, i, Sides(r.row_sense[i], v))

handle_rhs(r, t) ==
  IF Len(t) < 2 THEN Failed(r) ELSE FoldLeft(RightHandSide, r, PairsAfterSetName(t))

Abs(v) == IF v < 0 THEN -v ELSE v

RangedUnsigned(type, rhs, range) ==
  IF type = "L" THEN <<rhs - Abs(range), rhs>> ELSE <<rhs, rhs + Abs(range)>>

\* L and G rows take the magnitude, E rows the signed value.
Ranged(type, rhs, range) ==
  [L |-> <<rhs - Abs(range), rhs>>, G |-> <<rhs, rhs + Abs(range)>>,
   E |-> IF range >= 0 THEN <<rhs, rhs + range>> ELSE <<rhs + range, rhs>>][type]

apply_range(r, pair) ==
  LET i == find_row(r, pair[1])
  IN  IF i = 0 THEN Unfound(r, pair[1])
      ELSE IF ~IsNumber(pair[2]) THEN Failed(r)
      ELSE IF r.row_sense[i] = "N" THEN warn(r)
      ELSE set_row_bounds(r, i, Ranged(r.row_sense[i], r.row_rhs[i], Number[pair[2]]))

handle_ranges(r, t) ==
  IF Len(t) < 2 THEN Failed(r) ELSE FoldLeft(apply_range, r, PairsAfterSetName(t))

Valueless == {"FR", "MI", "PL", "BV"}
Valued == {"UP", "LO", "FX", "LI", "UI"}

UpperBoundFrees(r, j, lower, v) ==
  IF v >= 0 THEN set_column_bounds(r, j, <<lower, v>>)
  ELSE warn(set_column_bounds(r, j,
              <<IF opt.lower_becomes_minus_infinity THEN -kInfinity ELSE lower, v>>))

\* An upper bound below a lower bound of zero: warned about, and by default
\* the lower bound goes.
UpperBound(r, j, lower, v) ==
  IF v >= 0 \/ lower # 0 THEN set_column_bounds(r, j, <<lower, v>>)
  ELSE warn(set_column_bounds(r, j,
              <<IF opt.lower_becomes_minus_infinity THEN -kInfinity ELSE lower, v>>))

apply_bound(r, j, type, v) ==
  LET lower == r.cols[j].lower
      upper == r.cols[j].upper
      bounds == [LO |-> <<v, upper>>, FX |-> <<v, v>>, FR |-> <<-kInfinity, kInfinity>>,
                 MI |-> <<-kInfinity, upper>>, PL |-> <<lower, kInfinity>>, BV |-> <<0, 1>>,
                 LI |-> <<v, upper>>, UI |-> <<lower, v>>]
      bounded == IF type = "UP" THEN UpperBound(r, j, lower, v)
                 ELSE set_column_bounds(r, j, bounds[type])
  IN  [bounded EXCEPT !.cols[j].integer = @ \/ type \in {"BV", "LI", "UI"}]

\* The column stands last, or before the value; a set name is passed over.
BoundedColumn(t) == IF t[1] \in Valueless THEN t[Len(t)] ELSE t[Len(t) - 1]
ValueOf(t) == IF t[1] \in Valueless THEN 0 ELSE Number[t[Len(t)]]

\* The types that are refused include SC, the semi-continuous bounds.
handle_bounds(r, t) ==
  IF \/ Len(t) < 2
     \/ t[1] \notin Valueless \cup Valued
     \/ t[1] \in Valued /\ (Len(t) < 3 \/ ~IsNumber(t[Len(t)]))
  THEN Failed(r)
  ELSE LET name == BoundedColumn(t)
           known == IF find_column(r, name) = 0 THEN column_for(warn(r), name) ELSE r
       IN  apply_bound(known, find_column(known, name), t[1], ValueOf(t))
-------------------------------------------------------------------------------
\* An error ends the first reading and starts a second one from nothing.
Throw ==
  /\ IF fixed THEN /\ outcome' = "failed"
                   /\ UNCHANGED <<fixed, at, reader>>
              ELSE /\ fixed' = TRUE
                   /\ at' = 1
                   /\ reader' = NewReader
                   /\ UNCHANGED outcome
  /\ UNCHANGED <<file, opt, matrix>>

Continue(r) ==
  IF r.error THEN Throw
  ELSE /\ reader' = r
       /\ at' = at + 1
       /\ UNCHANGED <<file, opt, fixed, matrix, outcome>>

AtEnd == at \in DOMAIN file => file[at].header /\ Tokens[1] = "ENDATA"
Reading == outcome = "reading" /\ ~AtEnd

Header ==
  /\ Reading /\ file[at].header
  /\ LET head == Tokens[1] IN
     \/ /\ head \in Sections
        /\ Continue([reader EXCEPT !.section = head])
     \/ /\ head \in ObjSenseHeads /\ Len(Tokens) = 1
        /\ Continue([reader EXCEPT !.section = "OBJSENSE"])
     \/ /\ head \in ObjSenseHeads /\ Len(Tokens) > 1
        /\ Continue(apply_objsense(reader, Tokens[2]))
     \/ /\ head \notin Sections \cup ObjSenseHeads
        /\ Continue([warn(reader) EXCEPT !.section = "Ignored"])

\* A data card, of which something is left in the layout.
Card(section) ==
  Reading /\ ~file[at].header /\ Tokens # <<>> /\ reader.section = section

ObjSenseCard == Card("OBJSENSE") /\ Continue(apply_objsense(reader, Tokens[1]))
RowsCard == Card("ROWS") /\ Continue(handle_rows(reader, Tokens))
ColumnsCard == Card("COLUMNS") /\ Continue(handle_columns(reader, Tokens))
RhsCard == Card("RHS") /\ Continue(handle_rhs(reader, Tokens))
RangesCard == Card("RANGES") /\ Continue(handle_ranges(reader, Tokens))
BoundsCard == Card("BOUNDS") /\ Continue(handle_bounds(reader, Tokens))
StrayCard == Card("None") /\ Throw

SkippedCard ==
  /\ \/ Card("NAME") \/ Card("Ignored")
     \/ Reading /\ ~file[at].header /\ Tokens = <<>>
  /\ Continue(reader)

\* Mutant: the layout is not mentioned.
Unannounced(r) == r

\* What the fixed layout explained is announced before all other warnings.
Announced(r) == [r EXCEPT !.warnings = (IF fixed THEN <<0>> ELSE <<>>) \o @]

Finish ==
  /\ outcome = "reading" /\ AtEnd
  /\ IF reader.objective_name = "" \/ ~validate(reader, finish(reader)) THEN Throw
     ELSE /\ matrix' = finish(reader)
          /\ reader' = Announced(reader)
          /\ outcome' = "read"
          /\ UNCHANGED <<file, opt, fixed, at>>

Next ==
  \/ Header \/ ObjSenseCard \/ RowsCard \/ ColumnsCard \/ RhsCard \/ RangesCard
  \/ BoundsCard \/ StrayCard \/ SkippedCard \/ Finish
-------------------------------------------------------------------------------
(* What a file says, taken from the whole of it at once.                   *)

\* The data cards of a section, and the mentions of a name in it: the card
\* and which of its pairs.  Of two mentions the later one stands further on.
Visible == {i \in DOMAIN file : \A k \in 1..i : ~(file[k].header /\ Fields(k)[1] = "ENDATA")}
Cards(section) ==
  {i \in Visible : /\ ~file[i].header /\ Fields(i) # <<>>
                   /\ \E h \in 1..i : /\ file[h].header /\ Fields(h)[1] = section
                                      /\ \A k \in (h + 1)..i : ~file[k].header}

PairCards(section) == {i \in Cards(section) : section = "COLUMNS" => ~IsMarker(Fields(i))}
CardPairs(section, i) ==
  IF section = "COLUMNS" THEN Pairs(Fields(i), 2) ELSE PairsAfterSetName(Fields(i))

Mentions(section, name) ==
  {m \in UNION {{i} \X DOMAIN CardPairs(section, i) : i \in PairCards(section)} :
     CardPairs(section, m[1])[m[2]][1] = name}

Value(section, m) == Number[CardPairs(section, m[1])[m[2]][2]]
Before(m, n) == m[1] < n[1] \/ (m[1] = n[1] /\ m[2] < n[2])
LastOf(mentions) == CHOOSE m \in mentions : \A n \in mentions \ {m} : Before(n, m)

\* The cards that declare rows, without the objective's, in their order.
ObjectiveCard == Min({i \in Cards("ROWS") : Fields(i)[1] = "N"})
RowCards ==
  {i \in Cards("ROWS") \ {ObjectiveCard} : Fields(i)[1] # "N" \/ opt.keep_free_rows}
RowCard(i) == CHOOSE c \in RowCards : Cardinality({d \in RowCards : d <= c}) = i

\* From its card on, the objective takes the costs and right-hand sides of its
\* name; a row takes what comes after its own card, and the rest is nobody's.
After(card, section) == {m \in Mentions(section, Fields(card)[2]) : card < m[1]}
OfObjective(section) == IF section = "RANGES" THEN {} ELSE After(ObjectiveCard, section)
OfRow(section, i) == After(RowCard(i), section) \ OfObjective(section)

\* The value a bound card gives to the lower and to the upper bound.
GivesLower(t) == t[1] \in {"LO", "LI", "FX", "FR", "MI", "BV"}
GivesUpper(t) == t[1] \in {"UP", "UI", "FX", "FR", "PL", "BV"}
LowerGiven(t) == IF t[1] \in {"FR", "MI"} THEN -kInfinity ELSE ValueOf(t)
UpperGiven(t) == IF t[1] \in {"FR", "PL"} THEN kInfinity ELSE IF t[1] = "BV" THEN 1 ELSE ValueOf(t)

BoundCards(name) == {i \in Cards("BOUNDS") : BoundedColumn(Fields(i)) = name}

\* The lower bound of a column before line i: what the last card that gives
\* one says, unless that is zero and a negative upper bound came after it.
LowerBefore(name, i) ==
  LET givers == {c \in BoundCards(name) : c < i /\ GivesLower(Fields(c))}
      given == IF givers = {} THEN 0 ELSE LowerGiven(Fields(Max(givers)))
      freed == \E c \in BoundCards(name) :
                 /\ c < i /\ \A g \in givers : g < c
                 /\ Fields(c)[1] = "UP" /\ ValueOf(Fields(c)) < 0
  IN  IF given = 0 /\ freed /\ opt.lower_becomes_minus_infinity THEN -kInfinity ELSE given
-------------------------------------------------------------------------------
(* Properties of a problem that was read.                                  *)

\* Each row is the one declared at its place in the file, whatever rows
\* were dropped before it or taken for the objective: its bounds come from
\* its type, the last right-hand side given for it and its last range, the
\* range of an equation to the side of its sign.  A right-hand side after the
\* range takes the range away, as set_row_bounds at lines 313 to 315 does.
RowsFollowTheTable ==
  outcome = "read" =>
    /\ Len(reader.rows) = Cardinality(RowCards)
    /\ \A i \in DOMAIN reader.rows :
         LET type == Fields(RowCard(i))[1]
             name == Fields(RowCard(i))[2]
             told == OfRow("RHS", i)
             rhs == IF told = {} THEN 0 ELSE Value("RHS", LastOf(told))
             ranges == {m \in OfRow("RANGES", i) : \A n \in told : Before(n, m)}
             end == rhs + Value("RANGES", LastOf(ranges))
             span == Abs(end - rhs)
             row == reader.rows[i]
         IN  /\ row.name = name
             /\ type = "N" => row.lower = -kInfinity /\ row.upper = kInfinity
             /\ type # "N" /\ ranges = {} =>
                  /\ row.lower = IF type = "L" THEN -kInfinity ELSE rhs
                  /\ row.upper = IF type = "G" THEN kInfinity ELSE rhs
             /\ type \in {"L", "G"} /\ ranges # {} =>
                  /\ row.upper - row.lower = span
                  /\ rhs = IF type = "L" THEN row.upper ELSE row.lower
             /\ type = "E" /\ ranges # {} => {row.lower, row.upper} = {rhs, end}

\* Each bound of a column is the one the last card to give it gives, but for
\* the rule of the negative upper bound; and a column is integral if one of
\* its cards says so or stands between the markers.
BoundsFollowTheCards ==
  outcome = "read" =>
    \A j \in DOMAIN reader.cols :
      LET col == reader.cols[j]
          givers == {c \in BoundCards(col.name) : GivesUpper(Fields(c))}
          marked(c) == \E m \in Cards("COLUMNS") :
                         /\ m < c /\ IsMarker(Fields(m)) /\ Contains(Fields(m), "INTORG")
                         /\ \A n \in Cards("COLUMNS") :
                              IsMarker(Fields(n)) => n <= m \/ n > c
      IN  /\ col.lower = LowerBefore(col.name, Len(file) + 1)
          /\ col.upper = IF givers = {} THEN kInfinity ELSE UpperGiven(Fields(Max(givers)))
          /\ col.integer <=>
               \/ \E c \in BoundCards(col.name) : Fields(c)[1] \in {"BV", "LI", "UI"}
               \/ \E c \in Cards("COLUMNS") :
                    ~IsMarker(Fields(c)) /\ Fields(c)[1] = col.name /\ marked(c)

\* What the cards of a section say of a column.
OfColumn(mentions, col) == {m \in mentions : Fields(m[1])[1] = col.name}

\* A matrix entry is the sum of what the cards say of it, whatever their order,
\* and a sum of zero is none.
CoefficientsAreSummed ==
  outcome = "read" =>
    LET said(i, j) == OfColumn(OfRow("COLUMNS", i), reader.cols[j])
        sum == [i \in DOMAIN reader.rows, j \in DOMAIN reader.cols |->
                  SumOver([m \in said(i, j) |-> Value("COLUMNS", m)], said(i, j))]
        nonzeros == {p \in DOMAIN sum : sum[p] # 0}
    IN  /\ {<<LineOf(matrix, k), matrix.index[k], matrix.values[k]>> : k \in 1..nnz(matrix)} =
             {<<p[1], p[2], sum[p]>> : p \in nonzeros}
        /\ nnz(matrix) = Cardinality(nonzeros)

\* A cost is the last one that the cards give, where an entry would be their
\* sum, and the constant is the last right-hand side of the objective with its
\* sign turned.
ObjectiveFollowsTheCards ==
  outcome = "read" =>
    LET constants == OfObjective("RHS")
    IN  /\ \A col \in ToSet(reader.cols) :
             LET costs == OfColumn(OfObjective("COLUMNS"), col)
             IN  col.cost = IF costs = {} THEN 0 ELSE Value("COLUMNS", LastOf(costs))
        /\ reader.objective_constant =
             IF constants = {} THEN 0 ELSE -Value("RHS", LastOf(constants))

\* Every row a card names was declared before it, dropped or the objective: a
\* card for any other is refused, not passed over.
NamesAreDeclared ==
  outcome = "read" =>
    \A section \in {"COLUMNS", "RHS", "RANGES"} : \A i \in PairCards(section) :
      \A pair \in ToSet(CardPairs(section, i)) :
        \E c \in Cards("ROWS") :
          c < i /\ Fields(c)[2] = pair[1] /\ (section = "RANGES" => c # ObjectiveCard)

\* The lines that are warned about are these and no others, and one line zero
\* tells of the fixed layout: an unsupported section, a dropped row, a value
\* for a free row, a bound on an unknown column, and a negative upper bound
\* over a lower bound of zero, whatever cards came between.  Nothing is said of
\* a cost that replaces another, of a range that a later right-hand side takes
\* away, or of a repeated coefficient: there the code does not do what
\* io.hpp:15-18 says of "a duplicate coefficient that was summed".
WarningsAreExact ==
  outcome = "read" =>
    LET seen(name, i) ==
          \/ \E c \in Cards("COLUMNS") : c < i /\ ~IsMarker(Fields(c)) /\ Fields(c)[1] = name
          \/ \E c \in BoundCards(name) : c < i
        unsupported == {i \in Visible : /\ file[i].header
                                        /\ Fields(i)[1] \notin Sections \cup ObjSenseHeads}
        dropped == Cards("ROWS") \ (RowCards \cup {ObjectiveCard})
        free == UNION {{m[1] : m \in OfRow("RHS", i) \cup OfRow("RANGES", i)} :
                         i \in {k \in DOMAIN reader.rows : Fields(RowCard(k))[1] = "N"}}
        unknown == {i \in Cards("BOUNDS") : ~seen(BoundedColumn(Fields(i)), i)}
        negative == {i \in Cards("BOUNDS") :
                       /\ Fields(i)[1] = "UP" /\ ValueOf(Fields(i)) < 0
                       /\ LowerBefore(BoundedColumn(Fields(i)), i) = 0}
    IN  ToSet(reader.warnings) =
          unsupported \cup dropped \cup free \cup unknown \cup negative
            \cup (IF fixed THEN {0} ELSE {})
===============================================================================
