-------------------------------- MODULE LpReader --------------------------------
(***************************************************************************)
(* The LP reader (src/io/lp_reader.cpp): a first pass that sorts the lines *)
(* of a file by section, and a second one over what was collected, the     *)
(* objective first, then the constraints, the bounds and the integers.     *)
(*                                                                         *)
(* A line is its tokens, without blank lines and comments; letter case is  *)
(* left out.  A name is a sequence of tokens, because the reader takes     *)
(* what stands on one side of a relation or a colon for a name, whatever   *)
(* it is.  A sign is a token of its own in an expression and part of the   *)
(* number in a bound, as the code demands it.                              *)
(***************************************************************************)
EXTENDS ProblemBuilder

CONSTANTS
  Number,      \* a function from the numeric tokens to integers
  Stem         \* of each token that ends in "free", what stands before that

VARIABLES
  file,        \* the lines
  at,          \* line_no_, of the line that is read next
  reader,      \* the members of the LpReader, its builder's included
  matrix,      \* of the problem finish() makes
  outcome      \* "reading", "read" or "failed"

Headers ==
  [Objective |-> {<<"MAXIMIZE">>, <<"MAX">>, <<"MINIMIZE">>, <<"MIN">>},
   Constraints |-> {<<"SUBJECT", "TO">>, <<"SUCH", "THAT">>, <<"ST">>},
   Bounds |-> {<<"BOUNDS">>, <<"BOUND">>},
   General |-> {<<"GENERAL">>, <<"INTEGER">>},
   Binary |-> {<<"BINARY">>},
   End |-> {<<"END">>}]
Unsupported == {<<"SOS">>, <<"SEMIS">>, <<"LAZY", "CONSTRAINTS">>}

\* text has the lines of each section; the second pass puts the statements of
\* two sections in the place of their lines, and takes them one by one.
NewReader ==
  NewBuilder @@
  [objective_name |-> <<"obj">>, constraint_counter |-> 0, section |-> "None", pass |-> 1,
   objective_seen |-> FALSE, text |-> [s \in DOMAIN Headers \ {"End"} |-> <<>>], error |-> FALSE]

Failed(r) == [r EXCEPT !.error = TRUE]

-------------------------------------------------------------------------------
(* Tokens and expressions.                                                 *)

Direction == [t \in {"<", "<=", "=", ">", ">="} |->
                CASE t \in {"<", "<="} -> -1 [] t = "=" -> 0 [] OTHER -> 1]
IsRelation(t) == t \in DOMAIN Direction
IsNumeral(t) == t \in DOMAIN Number /\ 0 <= Number[t] /\ Number[t] < kInfinity
Signs == {"+", "-"}
Symbols == Signs \cup {"*", ":"} \cup DOMAIN Direction

\* A term that is complete: its variable is <<>> if it is a bare constant.
Push(p, variable) ==
  [p EXCEPT !.terms = Append(@, [coefficient |-> p.sign * p.number, variable |-> variable]),
            !.sign = 1, !.number = 1, !.after = "term"]
Close(p) == IF p.after \in {"number", "star"} THEN Push(p, <<>>) ELSE p

\* After a number even a numeral is taken for the name.
Accept(p, t) ==
  CASE t \in Signs -> [Close(p) EXCEPT !.sign = IF t = "-" THEN -@ ELSE @, !.after = "sign"]
    [] t = "*" /\ p.after = "number" -> [p EXCEPT !.after = "star"]
    [] t \in Symbols \ Signs /\ ~(t = "*" /\ p.after = "number") -> [p EXCEPT !.malformed = TRUE]
    [] IsNumeral(t) /\ p.after \in {"term", "sign"} ->
         [p EXCEPT !.number = Number[t], !.after = "number"]
    [] OTHER -> Push(p, <<t>>)

\* The terms of an expression, and whether it has an error.
parse_expression(tokens) ==
  LET p == Close(FoldLeft(Accept, [terms |-> <<>>, sign |-> 1, number |-> 1, after |-> "term",
                                   malformed |-> FALSE], tokens))
  IN  [terms |-> p.terms, malformed |-> p.malformed \/ p.after = "sign"]

IsConstant(term) == term.variable = <<>>
Constant(terms) ==
  FoldLeft(LAMBDA v, term : IF IsConstant(term) THEN v + term.coefficient ELSE v, 0, terms)

\* What stands before the first colon, if no relation comes before that.
Colon(t) == SelectInSeq(t, LAMBDA token : token = ":")
Relations(t) == SelectSeq([k \in DOMAIN t |-> k], LAMBDA k : IsRelation(t[k]))
IsLabelled(t) == Colon(t) # 0 /\ \A k \in ToSet(Relations(t)) : Colon(t) < k
Label(t) == IF IsLabelled(t) THEN SubSeq(t, 1, Colon(t) - 1) ELSE <<>>
Unlabelled(t) == IF IsLabelled(t) THEN SubSeq(t, Colon(t) + 1, Len(t)) ELSE t

\* A statement begins at a line with a label, and at a line after one with a
\* relation.
StartsStatement(s, line) == s.current # <<>> /\ (Label(line) # <<>> \/ s.seen_relation)

SplitLine(s, line) ==
  LET flushed == IF StartsStatement(s, line)
                 THEN [out |-> Append(s.out, s.current), current |-> <<>>, seen_relation |-> FALSE]
                 ELSE s
  IN  [flushed EXCEPT !.current = @ \o line, !.seen_relation = @ \/ Relations(line) # <<>>]

split_statements(lines) ==
  LET s == FoldLeft(SplitLine, [out |-> <<>>, current |-> <<>>, seen_relation |-> FALSE], lines)
  IN  IF s.current = <<>> THEN s.out ELSE Append(s.out, s.current)
-------------------------------------------------------------------------------
(* The handlers: what a statement makes of a reader.                       *)

\* A repeated variable overwrites.
finish_objective(r) ==
  LET text == FlattenSeq(r.text.Objective)
      parsed == parse_expression(Unlabelled(text))
      AddTerm(s, term) ==
        IF IsConstant(term) THEN s
        ELSE LET t == column_for(s, term.variable)
             IN  set_objective_coefficient(t, find_column(t, term.variable), term.coefficient)
      named == [r EXCEPT !.objective_name = IF IsLabelled(text) THEN Label(text) ELSE @]
  IN  IF parsed.malformed THEN Failed(r)
      ELSE [FoldLeft(AddTerm, named, parsed.terms)
              EXCEPT !.objective_constant = Constant(parsed.terms)]

\* The bounds and the body of a constraint with one or two relations.
Sided(t) ==
  LET rels == Relations(t)
      a == rels[1]
      b == rels[Len(rels)]
      left == SubSeq(t, 1, a - 1)
      right == SubSeq(t, b + 1, Len(t))
      value(piece) == Constant(parse_expression(piece).terms)
      d == Direction[t[a]]
  IN  IF Len(rels) = 1
      THEN [body |-> left, sides |-> {right},
            bounds |-> CASE d = -1 -> <<-kInfinity, value(right)>>
                         [] d = 1 -> <<value(right), kInfinity>>
                         [] d = 0 -> <<value(right), value(right)>>]
      ELSE [body |-> SubSeq(t, a + 1, b - 1), sides |-> {left, right},
            bounds |-> IF d = -1 THEN <<value(left), value(right)>> ELSE <<value(right), value(left)>>]

\* Of two relations neither is an equality, and they point the same way.
IsConsistent(t) ==
  LET d == [i \in DOMAIN Relations(t) |-> Direction[t[Relations(t)[i]]]]
  IN  Len(d) = 1 \/ (Len(d) = 2 /\ d[1] = d[2] /\ d[1] # 0)

IsConstantSide(piece) ==
  LET parsed == parse_expression(piece)
  IN  ~parsed.malformed /\ \A term \in ToSet(parsed.terms) : IsConstant(term)

\* Mutant: a side that is minus infinity is moved as well.
Unmoved(bound, terms) == IF bound < kInfinity THEN bound - Constant(terms) ELSE bound

\* A constant in the body moves to the finite sides.
Moved(bound, terms) == IF is_finite_bound(bound) THEN bound - Constant(terms) ELSE bound

handle_constraint(r, statement) ==
  LET text == Unlabelled(statement)
      counted == IF Label(statement) # <<>> THEN r
                 ELSE [r EXCEPT !.constraint_counter = @ + 1]
      name == IF Label(statement) # <<>> THEN Label(statement)
              ELSE <<"c" \o ToString(counted.constraint_counter)>>
      sided == Sided(text)
      parsed == parse_expression(sided.body)
      AddTerm(s, term) ==
        IF IsConstant(term) THEN s
        ELSE LET t == column_for(s, term.variable)
             IN  add_coefficient(t, Len(t.rows), find_column(t, term.variable), term.coefficient)
  IN  IF \/ ~IsConsistent(text)
         \/ \E piece \in sided.sides : ~IsConstantSide(piece)
         \/ parsed.malformed
         \/ find_row(r, name) # 0
      THEN Failed(r)
      ELSE FoldLeft(AddTerm,
                    add_row(counted, name, <<Moved(sided.bounds[1], parsed.terms),
                                             Moved(sided.bounds[2], parsed.terms)>>),
                    parsed.terms)

\* What a bound statement says: the name and, of each bound, the value or
\* Kept.
IsNumber(piece) == Len(piece) = 1 /\ piece[1] \in DOMAIN Number
Kept == <<>>

OneSided(name, d, v) ==
  [name |-> name, lower |-> IF d = -1 THEN Kept ELSE <<v>>, upper |-> IF d = 1 THEN Kept ELSE <<v>>]

EndsInFree(t) == Last(t) \in DOMAIN Stem /\ (Len(t) > 1 \/ Stem[Last(t)] # "")
FreeName(t) == IF Stem[Last(t)] = "" THEN Front(t) ELSE Append(Front(t), Stem[Last(t)])

BoundSaid(t) ==
  LET rels == Relations(t)
      d == Direction[t[rels[1]]]
      left == SubSeq(t, 1, rels[1] - 1)
      right == SubSeq(t, rels[1] + 1, Len(t))
      middle == SubSeq(t, rels[1] + 1, rels[2] - 1)
      far == SubSeq(t, rels[2] + 1, Len(t))
      value(piece) == Number[piece[1]]
      Free(name) == [name |-> name, lower |-> <<-kInfinity>>, upper |-> <<kInfinity>>]
  IN  CASE EndsInFree(t) -> Free(FreeName(t))
        [] ~EndsInFree(t) /\ t[1] = "free" /\ Len(t) > 1 -> Free(Tail(t))
        [] OTHER ->
             IF Len(rels) = 1
             THEN IF IsNumber(right) THEN OneSided(left, d, value(right))
                                     ELSE OneSided(right, -d, value(left))
             ELSE [name |-> middle, lower |-> <<value(IF d = -1 THEN left ELSE far)>>,
                   upper |-> <<value(IF d = -1 THEN far ELSE left)>>]

\* A statement without an error: free, or one relation and a number on one
\* of its sides, or two relations of one direction between numbers.
IsBound(t) ==
  LET rels == Relations(t)
      left == SubSeq(t, 1, rels[1] - 1)
      right == SubSeq(t, rels[1] + 1, Len(t))
  IN  \/ EndsInFree(t)
      \/ t[1] = "free" /\ Len(t) > 1
      \/ Len(rels) = 1 /\ (IsNumber(left) \/ IsNumber(right))
      \/ /\ Len(rels) >= 2
         /\ Direction[t[rels[1]]] = Direction[t[rels[2]]] /\ Direction[t[rels[1]]] # 0
         /\ IsNumber(left) /\ IsNumber(SubSeq(t, rels[2] + 1, Len(t)))

handle_bound(r, statement) ==
  LET said == BoundSaid(statement)
      added == column_for(r, said.name)
      j == find_column(added, said.name)
      Value(given, kept) == IF given = Kept THEN kept ELSE given[1]
  IN  IF ~IsBound(statement) THEN Failed(r)
      ELSE set_column_bounds(added, j, <<Value(said.lower, added.cols[j].lower),
                                         Value(said.upper, added.cols[j].upper)>>)

declare_integer(r, tokens, binary) ==
  LET Declare(s, t) ==
        LET added == column_for(s, <<t>>)
            j == find_column(added, <<t>>)
            integral == [added EXCEPT !.cols[j].integer = TRUE]
        IN  IF binary THEN set_column_bounds(integral, j, <<0, 1>>) ELSE integral
  IN  FoldLeft(Declare, r, SelectSeq(tokens, LAMBDA t : t \notin {",", ";"}))

\* What the second pass does when no statement is left.
Declared(r) ==
  declare_integer(declare_integer(r, FlattenSeq(r.text.General), FALSE),
                  FlattenSeq(r.text.Binary), TRUE)
-------------------------------------------------------------------------------
Continue(r) ==
  IF r.error THEN outcome' = "failed" /\ UNCHANGED <<file, reader, matrix>>
  ELSE reader' = r /\ UNCHANGED <<file, matrix, outcome>>

Tokens == file[at].free
Reading == outcome = "reading" /\ reader.pass = 1 /\ at \in DOMAIN file
AtEnd == at \in DOMAIN file => Tokens \in Headers.End
Refused == {"[", "]"} \subseteq ToSet(Tokens) \/ Tokens \in Unsupported

\* A keyword alone on its line.
HeaderLine(section) ==
  /\ Reading /\ ~AtEnd /\ ~Refused /\ Tokens \in Headers[section]
  /\ LET r == [reader EXCEPT !.section = section]
         sense == IF Tokens[1] \in {"MAXIMIZE", "MAX"} THEN "Maximize" ELSE "Minimize"
     IN  Continue(IF section = "Objective"
                  THEN [r EXCEPT !.sense = sense, !.objective_seen = TRUE] ELSE r)
  /\ at' = at + 1

TextLine ==
  /\ Reading /\ ~AtEnd /\ ~Refused /\ Tokens \notin UNION {Headers[s] : s \in DOMAIN Headers}
  /\ reader.section # "None"
  /\ Continue([reader EXCEPT !.text[reader.section] = Append(@, Tokens)])
  /\ at' = at + 1

\* Quadratic terms, an unsupported section, or text before the first header.
RefusedLine ==
  /\ Reading /\ ~AtEnd
  /\ \/ Refused
     \/ reader.section = "None" /\ Tokens \notin UNION {Headers[s] : s \in DOMAIN Headers}
  /\ Continue(Failed(reader))
  /\ UNCHANGED at

\* The end of the lines, and the objective after it.
FinishObjective ==
  /\ outcome = "reading" /\ reader.pass = 1 /\ AtEnd
  /\ Continue(IF ~reader.objective_seen THEN Failed(reader)
              ELSE [finish_objective(reader) EXCEPT
                      !.pass = 2, !.text.Constraints = split_statements(@),
                      !.text.Bounds = split_statements(@)])
  /\ UNCHANGED at

Constraint ==
  /\ outcome = "reading" /\ reader.pass = 2 /\ reader.text.Constraints # <<>>
  /\ Continue([handle_constraint(reader, Head(reader.text.Constraints))
                 EXCEPT !.text.Constraints = Tail(@)])
  /\ UNCHANGED at

Bound ==
  /\ outcome = "reading" /\ reader.pass = 2
  /\ reader.text.Constraints = <<>> /\ reader.text.Bounds # <<>>
  /\ Continue([handle_bound(reader, Head(reader.text.Bounds)) EXCEPT !.text.Bounds = Tail(@)])
  /\ UNCHANGED at

Finish ==
  /\ outcome = "reading" /\ reader.pass = 2
  /\ reader.text.Constraints = <<>> /\ reader.text.Bounds = <<>>
  /\ LET r == Declared(reader)
     IN  IF validate(r, finish(r))
         THEN reader' = r /\ matrix' = finish(r) /\ outcome' = "read"
         ELSE outcome' = "failed" /\ UNCHANGED <<reader, matrix>>
  /\ UNCHANGED <<file, at>>

Next ==
  \/ \E section \in DOMAIN Headers \ {"End"} : HeaderLine(section)
  \/ TextLine \/ RefusedLine \/ FinishObjective \/ Constraint \/ Bound \/ Finish
===============================================================================
