--------------------------------- MODULE LpFiles ---------------------------------
(***************************************************************************)
(* Programs, and the LP files they may be written as: where the lines of a *)
(* statement break, which way its relations point, on which side a number  *)
(* stands, and in which order the sections come.                           *)
(***************************************************************************)
EXTENDS Integers, SequencesExt

CONSTANT kInfinity

Line(header, tokens) == [header |-> header, free |-> tokens, fixed |-> tokens]
H(tokens) == <<Line(TRUE, tokens)>>
Text(lines) == [i \in DOMAIN lines |-> Line(FALSE, lines[i])]

T(c, name) == [coefficient |-> c, variable |-> IF name = "" THEN <<>> ELSE <<name>>]
Row(name, terms, lower, upper) == [name |-> name, terms |-> terms, lower |-> lower, upper |-> upper]
B(name, lower, upper) == [name |-> <<name>>, lower |-> lower, upper |-> upper]
Inf == <<kInfinity>>
MinusInf == <<-kInfinity>>

\* Expressions, with and without the star, and numbers with a sign.
Magnitude(v) == IF v < 0 THEN -v ELSE v
Written(t, first, star) ==
  (IF t.coefficient < 0 THEN <<"-">> ELSE IF first THEN <<>> ELSE <<"+">>)
  \o (IF Magnitude(t.coefficient) # 1 \/ t.variable = <<>>
      THEN <<ToString(Magnitude(t.coefficient))>>
             \o (IF star /\ t.variable # <<>> THEN <<"*">> ELSE <<>>)
      ELSE <<>>)
  \o t.variable
Expression(terms, star) ==
  FlattenSeq([k \in DOMAIN terms |-> Written(terms[k], k = 1, star)])
Signed(v) == Written(T(v, ""), TRUE, FALSE)
Value(v) == <<IF v = kInfinity THEN "inf" ELSE IF v = -kInfinity THEN "-inf" ELSE ToString(v)>>

Le(layout) == IF layout.strict THEN <<"<">> ELSE <<"<=">>
Ge(layout) == IF layout.strict THEN <<">">> ELSE <<">=">>

\* A constraint: its lines break after the label and before the relation, or
\* not at all.
Labelled(row) == IF row.name = <<>> THEN <<>> ELSE row.name \o <<":">>
Constraint(row, layout) ==
  LET body == Expression(row.terms, layout.star)
      two == -kInfinity < row.lower /\ row.upper < kInfinity /\ row.lower # row.upper
      forward == Signed(row.lower) \o Le(layout) \o body \o Le(layout) \o Signed(row.upper)
      backward == Signed(row.upper) \o Ge(layout) \o body \o Ge(layout) \o Signed(row.lower)
      relation == IF row.lower = row.upper THEN <<"=">> \o Signed(row.lower)
                  ELSE IF row.upper < kInfinity THEN Le(layout) \o Signed(row.upper)
                  ELSE Ge(layout) \o Signed(row.lower)
      pieces == IF two THEN <<Labelled(row), IF layout.backward THEN backward ELSE forward>>
                ELSE <<Labelled(row), body, relation>>
  IN  IF layout.broken THEN SelectSeq(pieces, LAMBDA piece : piece # <<>>)
      ELSE <<FlattenSeq(pieces)>>

BoundLine(b, layout) ==
  LET l == b.lower
      u == b.upper
  IN  CASE l = MinusInf /\ u = Inf -> IF layout.backward THEN <<"free">> \o b.name ELSE Append(b.name, "free")
        [] l # <<>> /\ l = u -> b.name \o <<"=">> \o Value(l[1])
        [] u = <<>> -> IF layout.backward THEN Value(l[1]) \o Le(layout) \o b.name
                                          ELSE b.name \o Ge(layout) \o Value(l[1])
        [] l = <<>> -> IF layout.backward THEN Value(u[1]) \o Ge(layout) \o b.name
                                          ELSE b.name \o Le(layout) \o Value(u[1])
        [] OTHER -> IF layout.backward
                    THEN Value(u[1]) \o Ge(layout) \o b.name \o Ge(layout) \o Value(l[1])
                    ELSE Value(l[1]) \o Le(layout) \o b.name \o Le(layout) \o Value(u[1])

Names(set, header) ==
  IF set = {} THEN <<>>
  ELSE H(header) \o Text(<<FlattenSeq([k \in 1..Cardinality(set) |->
                             (CHOOSE f \in [1..Cardinality(set) -> set] : IsInjective(f))[k]])>>)

\* The sections: in the usual order; with the bounds before the constraints;
\* or with the constraints in two, and the objective and a label each
\* interrupted by another section.
FileOf(p, layout) ==
  LET objective == (IF p.name = <<"obj">> THEN <<>> ELSE p.name \o <<":">>)
                     \o Expression(p.objective, layout.star)
      sense == H(<<IF p.sense = "Maximize" THEN "MAX" ELSE "MINIMIZE">>)
      rows == FlattenSeq([i \in DOMAIN p.rows |-> Constraint(p.rows[i], layout)])
      bounds == H(<<"BOUNDS">>) \o Text([k \in DOMAIN p.bounds |-> BoundLine(p.bounds[k], layout)])
      general == Names(p.general, <<"INTEGER">>)
      binary == Names(p.binary, <<"BINARY">>)
  IN  CASE layout.order = "usual" ->
             sense \o Text(<<objective>>) \o H(<<"SUBJECT", "TO">>) \o Text(rows)
               \o bounds \o general \o binary \o H(<<"END">>)
        [] layout.order = "bounds first" ->
             bounds \o binary \o sense \o Text(<<objective>>) \o general \o H(<<"ST">>) \o Text(rows)
        [] layout.order = "interrupted" ->
             sense \o Text(<<SubSeq(objective, 1, 1)>>) \o H(<<"SUCH", "THAT">>)
               \o Text(SubSeq(rows, 1, 1)) \o binary \o bounds \o sense
               \o Text(<<SubSeq(objective, 2, Len(objective))>>) \o H(<<"ST">>)
               \o Text(SubSeq(rows, 2, Len(rows))) \o general
               \o H(<<"END">>) \o Text(<<<<"left">>>>)

Layouts ==
  [broken : BOOLEAN, backward : BOOLEAN, strict : {FALSE}, star : {FALSE},
   order : {"usual", "bounds first", "interrupted"}]
  \cup {[broken |-> FALSE, backward |-> b, strict |-> TRUE, star |-> TRUE, order |-> "usual"] : b \in BOOLEAN}
-------------------------------------------------------------------------------
Program(sense, name, objective, rows, bounds, general, binary) ==
  [sense |-> sense, name |-> name, objective |-> objective, rows |-> rows, bounds |-> bounds,
   general |-> general, binary |-> binary]

X == <<"x">>
Y == <<"y">>
Objectives == {<<T(2, "x"), T(-1, "y")>>, <<T(1, "y"), T(3, ""), T(1, "x"), T(-1, "")>>}

RowBodies ==
  {<<T(1, "x"), T(2, "y")>>, <<T(-2, "x"), T(3, ""), T(1, "x")>>, <<T(1, "y"), T(1, "x"), T(-1, "y")>>}
RowSides == {<<-kInfinity, 4>>, <<-1, kInfinity>>, <<2, 2>>, <<-1, 4>>}

\* Rows with and without labels, of every kind, in pairs and with a third.
RowPrograms ==
  {Program("Minimize", <<"obj">>, objective,
           <<Row(n1, b1, s1[1], s1[2]), Row(n2, <<T(1, "y")>>, s2[1], s2[2])>>
             \o (IF third THEN <<Row(<<>>, <<T(1, "z")>>, 0, kInfinity)>> ELSE <<>>),
           <<>>, {}, {}) :
     objective \in Objectives, third \in BOOLEAN, n1 \in {<<>>, <<"r">>, <<"c2">>}, n2 \in {<<>>, <<"r">>},
     b1 \in RowBodies, s1 \in RowSides, s2 \in {<<-kInfinity, 4>>, <<-1, 4>>}}

\* Pairs of bounds on one column or on two, with what makes columns integral.
\* A column is free at the end of the section only, see BoundPrograms' use.
BoundValues ==
  {B("x", l, u) : l \in {<<>>, <<-1>>, <<2>>, MinusInf}, u \in {<<>>, <<2>>, Inf}}
    \ {B("x", <<>>, <<>>), B("x", MinusInf, Inf)}
LastBounds == {B("y", MinusInf, Inf), B("x", MinusInf, Inf), B("y", <<1>>, <<1>>), B("x", <<>>, <<0>>)}

WithBounds(bounds, general, binary) ==
  Program("Maximize", <<"gain">>, <<T(1, "x"), T(1, "y")>>,
          <<Row(<<"r">>, <<T(1, "x")>>, 0, kInfinity)>>, bounds, general, binary)
BoundPrograms ==
  {WithBounds(<<a, b>>, g, {}) : a \in BoundValues, b \in BoundValues, g \in {{}, {X}}}
  \cup {WithBounds(<<a, b>>, g, i) :
          a \in BoundValues, b \in LastBounds, g \in {{}, {Y}}, i \in {{}, {X}, {Y, <<"w">>}}}

\* A free column that another bound follows.
FreePrograms ==
  {WithBounds(<<B("x", MinusInf, Inf), b>>, {}, {}) : b \in {B("y", MinusInf, Inf), B("y", <<1>>, <<1>>)}}

\* Files outside the subset, and broken ones.
Broken ==
  LET Model(rows) == H(<<"MAX">>) \o Text(<<X>>) \o H(<<"ST">>) \o Text(rows)
      WithBound(b) == Model(<<<<"x", "<=", "2">>>>) \o H(<<"BOUNDS">>) \o Text(<<b>>)
  IN  {Model(<<row>>) : row \in
         {<<"x", "+", "<=", "2">>, <<"x">>, <<"0", "<=", "x", ">=", "2">>, <<"0", "<=", "x", "=", "2">>,
          <<"x", "<=", "y">>, <<"x", "<=", "inf">>, <<"0", "<=", "x", "<=", "2", "<=", "4">>,
          <<"[", "x", "*", "x", "]", "<=", "2">>, <<"*", "x", "<=", "2">>, <<"2", "*", "*", "x", "<=", "2">>}}
      \cup {WithBound(b) : b \in
         {<<"free">>, <<"x", "<=", "y">>, <<"x">>, <<"1", "<=", "x", ">=", "0">>, <<"x", "<=", "1", "<=", "y">>,
          <<"1", "<=", "x", "=", "1">>, <<"x", "<=", "-", "1">>}}
      \cup {Text(<<X>>) \o Model(<<>>), H(<<"ST">>) \o Text(<<X>>), H(<<"SOS">>) \o Model(<<>>),
            H(<<"MAX">>) \o Text(<<<<"x", "<=", "2">>>>)}
===============================================================================
