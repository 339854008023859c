-------------------------------- MODULE MpsFiles --------------------------------
(***************************************************************************)
(* Files in five families: how a row is declared, dropped, given a         *)
(* right-hand side and a range; how a column's bounds are given; how       *)
(* coefficients are repeated; which cards come before a row is declared;   *)
(* and how a file is laid out or broken.                                   *)
(***************************************************************************)
EXTENDS Naturals, Sequences

Line(h, a, b) == [header |-> h, free |-> a, fixed |-> b]
H(word) == Line(TRUE, <<word>>, <<word>>)
D(tokens) == Line(FALSE, tokens, tokens)
Opt(lines, present) == IF present THEN lines ELSE <<>>

End == <<H("ENDATA")>>
Objective == <<H("ROWS"), D(<<"N", "cost">>)>>
Bounds(cards) == <<H("BOUNDS")>> \o cards

\* A free row before or after the row r, and two cards for each of r's sides
\* in either order.
RowLines(type, spare, first) ==
  LET r == <<D(<<type, "r">>)>>
      s == <<D(<<"N", "s">>)>>
  IN  Objective \o Opt(s, spare /\ first) \o r \o Opt(s, spare /\ ~first)

RhsCards ==
  {<<>>, <<D(<<"r", "4">>)>>, <<D(<<"set", "r", "-2">>)>>, <<D(<<"set", "s", "1", "r", "4">>)>>,
   <<D(<<"set", "cost", "3", "r", "4">>), D(<<"r", "-2">>)>>}
RangeCards ==
  {<<>>, <<D(<<"set", "r", "-3">>)>>, <<D(<<"r", "3">>)>>, <<D(<<"r", "3", "r", "-1">>)>>,
   <<D(<<"s", "1", "r", "2">>)>>}

RowFiles ==
  {RowLines(type, spare, first) \o <<H("COLUMNS"), D(<<"x", "r", "1", "cost", "2">>)>>
     \o (IF swapped THEN <<H("RANGES")>> \o ranges \o <<H("RHS")>> \o rhs
                    ELSE <<H("RHS")>> \o rhs \o <<H("RANGES")>> \o ranges)
     \o End :
     type \in {"L", "G", "E", "N"}, spare \in BOOLEAN, first \in BOOLEAN, swapped \in BOOLEAN,
     rhs \in RhsCards, ranges \in RangeCards}

\* Two bound cards for one column, before or after a column card, and a third.
BoundCard ==
  {D(<<type, "set", "x">>) : type \in {"FR", "MI", "PL", "BV"}}
  \cup {D(<<type, "set", "x", v>>) :
          type \in {"UP", "LO", "FX", "LI", "UI"}, v \in {"-2", "0", "4"}}
  \cup {D(<<"UP", "x", "inf">>), D(<<"SC", "set", "x", "4">>), D(<<"FR", "y">>), D(<<"LO", "x">>)}

BoundFiles ==
  {Objective \o Opt(Bounds(<<a, b>>), first)
     \o <<H("COLUMNS")>> \o Opt(<<D(<<"m", "MARKER", "INTORG">>)>>, integer)
     \o <<D(<<"x", "cost", "2">>)>> \o Opt(<<D(<<"m", "MARKER", "INTEND">>)>>, integer)
     \o <<D(<<"y", "cost", "1">>)>> \o Opt(Bounds(<<a, b>>), ~first) \o c \o End :
     a \in BoundCard, b \in BoundCard, first \in BOOLEAN, integer \in BOOLEAN,
     c \in {<<>>, Bounds(<<D(<<"LO", "x", "-2">>)>>)}}

\* Three column cards over two columns: repeated, cancelling, for the
\* objective, with a token left over, dropped and unknown.
ColumnCard ==
  {D(<<"x", "r", "1">>), D(<<"x", "r", "-1", "cost", "3">>), D(<<"y", "r", "2", "r", "2">>),
   D(<<"x", "cost", "1", "r", "2", "s">>), D(<<"y", "s", "4">>), D(<<"x", "t", "1">>),
   D(<<"x", "cost", "r">>), D(<<"x", "r">>)}

ColumnFiles ==
  {Objective \o <<D(<<"N", "s">>), D(<<type, name>>), H("COLUMNS"), a, b, c>> \o End :
     type \in {"L", "Q"}, name \in {"r", "cost"}, a \in ColumnCard, b \in ColumnCard, c \in ColumnCard}

\* Rows declared again and late: a section comes a second time, after a card
\* about a name that was dropped, is a row's or will be the objective's, and
\* before another one.
DeclaredFirst ==
  {<<D(<<"N", "cost">>), D(<<"N", "r">>)>>, <<D(<<"N", "cost">>), D(<<"N", "cost">>)>>,
   <<D(<<"L", "r">>), D(<<"N", "cost">>)>>, <<D(<<"L", "cost">>), D(<<"G", "r">>)>>}
DeclaredLater == {<<>>, <<D(<<"L", "r">>)>>, <<D(<<"N", "cost">>)>>, <<D(<<"N", "r">>)>>}
AboutRows ==
  {<<H("COLUMNS"), D(<<"x", "r", "1">>)>>, <<H("COLUMNS"), D(<<"x", "cost", "2">>)>>,
   <<H("RHS"), D(<<"r", "4">>)>>, <<H("RHS"), D(<<"cost", "1">>)>>,
   <<H("RHS"), D(<<"MARKER", "INTORG", "1">>)>>,
   <<H("RANGES"), D(<<"r", "3">>)>>, <<H("RANGES"), D(<<"set", "cost", "-1">>)>>}

LateFiles ==
  {<<H("ROWS")>> \o first \o about \o <<H("ROWS")>> \o later \o again \o End :
     first \in DeclaredFirst, later \in DeclaredLater, about \in AboutRows, again \in AboutRows}
  \cup {<<H("ROWS"), D(<<"N", "cost">>), D(<<type, "INTORG">>)>> \o about \o End :
          type \in {"G", "N"}, about \in AboutRows}

\* Names with blanks, which the free layout splits, and broken files.
Spaced(type, n) == Line(FALSE, <<type, "R", n>>, <<type, "R" \o n>>)
SpacedFile(tail) ==
  <<H("NAME"), D(<<"skipped">>), Line(TRUE, <<"OBJSENSE", "MAX">>, <<"OBJSENSE", "MAX">>),
    H("ROWS"), D(<<"N", "cost">>), Spaced("L", "1"), Spaced("G", "2"), H("COLUMNS"),
    Line(FALSE, <<"x", "R", "1", "4">>, <<"x", "R1", "4">>), Line(FALSE, <<"y">>, <<>>)>>
  \o tail \o End

LayoutFiles ==
  {SpacedFile(tail) : tail \in
     {<<>>, <<H("RHS"), Line(FALSE, <<"R", "2", "4">>, <<"R2", "4">>)>>,
      <<H("SOS"), D(<<"S1", "x">>), H("BOUNDS"), D(<<"UP", "z", "-2">>)>>}}
  \cup {<<D(<<"N", "cost">>)>> \o Objective \o End,
        <<H("OBJSENSE"), D(<<"MAX">>)>> \o Objective \o End \o <<H("ROWS"), D(<<"L", "r">>)>>,
        <<H("OBJSENSE"), D(<<"UP">>)>> \o Objective \o End,
        <<H("ROWS"), D(<<"L", "r">>), H("COLUMNS"), D(<<"x", "r", "1">>)>>,
        <<H("OBJSENS"), D(<<"MIN">>), D(<<"MAX">>)>> \o Objective}

\* Problems of four columns and three rows, given by the columns of each row;
\* those of the first row are the first ones.
RowNames == <<"r1", "r2", "r3">>
ColumnNames == <<"x1", "x2", "x3", "x4">>
Entries(rows, j) ==
  LET In(i) == IF j \in rows[i] THEN <<RowNames[i], "1">> ELSE <<>>
  IN  In(1) \o In(2) \o In(3)

StructureFiles ==
  {Objective \o [i \in 1..3 |-> D(<<"E", RowNames[i]>>)] \o <<H("COLUMNS")>>
     \o [j \in 1..4 |-> D(<<ColumnNames[j], "cost", "1">> \o Entries(rows, j))] \o End :
     rows \in {<<1..k, b, c>> : k \in 0..4, b \in SUBSET (1..4), c \in SUBSET (1..4)}}

NoRows == <<H("NAME"), H("ROWS"), D(<<"N", "cost">>)>> \o End
===============================================================================
