-------------------------------- MODULE MCInspect --------------------------------
(***************************************************************************)
(* The files of MpsFiles, read under every option, or by read_model and    *)
(* then inspected; and the files of LpFiles, with the programs they were   *)
(* written from.                                                           *)
(***************************************************************************)
EXTENDS Inspect

MF == INSTANCE MpsFiles
LF == INSTANCE LpFiles

Job(call, command, extension, kind, lines, written) ==
  [call |-> call, command |-> command, extension |-> extension, format |-> kind,
   lines |-> lines, program |-> written]

MpsJobs ==
  {Job("read_mps", "info", "mps", "mps", f, <<>>) :
     f \in MF!RowFiles \cup MF!BoundFiles \cup MF!ColumnFiles \cup MF!LateFiles \cup MF!LayoutFiles}
StructureJobs ==
  {Job("read_model", "structure", "mps", "mps", f, <<>>) : f \in MF!StructureFiles \cup {MF!NoRows}}
LpJobs ==
  {Job("read_model", "info", "lp", "lp", LF!FileOf(p, layout), p) :
     p \in LF!RowPrograms \cup LF!BoundPrograms, layout \in LF!Layouts}
BrokenJobs == {Job("read_model", "info", "lp", "lp", f, <<>>) : f \in LF!Broken}

\* Files of both formats under any name, the objective's sense in front.
AnyName ==
  {Job("read_model", "structure", extension, "mps", f, <<>>) :
     extension \in {"mps", "lp", "txt"},
     f \in MF!LayoutFiles \cup {MF!SpacedFile(<<>>), MF!NoRows, <<>>,
             <<MF!H("OBJSENSE"), MF!D(<<"MAX">>)>> \o MF!SpacedFile(<<>>),
             MF!Objective \o <<MF!D(<<"L", "r">>), MF!H("COLUMNS"), MF!D(<<"MIN", "r", "1">>)>>}}
  \cup {Job("read_model", "structure", extension, "lp", LF!FileOf(p, layout), p) :
          extension \in {"mps", "lp", "txt"},
          p \in {q \in LF!BoundPrograms : q.general # {} /\ q.binary # {}}, layout \in LF!Layouts}

MCJobs == <<MpsJobs, StructureJobs, LpJobs, BrokenJobs, AnyName>>
FreeJobs ==
  <<{Job("read_model", "info", "lp", "lp", LF!FileOf(p, layout), p) :
     p \in LF!FreePrograms, layout \in LF!Layouts}>>

MCNumber == [t \in {"-3", "-2", "-1", "0", "1", "2", "3", "4", "inf", "-inf"} |->
               CASE t = "-3" -> -3 [] t = "-2" -> -2 [] t = "-1" -> -1 [] t = "0" -> 0
                 [] t = "1" -> 1 [] t = "2" -> 2 [] t = "3" -> 3 [] t = "4" -> 4
                 [] t = "inf" -> kInfinity [] t = "-inf" -> -kInfinity]
MCStem == [free |-> ""]
MCLooks == [NAME |-> "mps", ROWS |-> "mps", MAX |-> "lp", MAXIMIZE |-> "lp", MIN |-> "lp", MINIMIZE |-> "lp"]
MCFraction == <<1, 2>>
===============================================================================
