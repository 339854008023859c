--------------------------------- MODULE Inspect ---------------------------------
(***************************************************************************)
(* The commands of apps/sovereign_cli.cpp that solve nothing: info reads a *)
(* model and prints what it has, structure also detects its blocks.        *)
(***************************************************************************)
EXTENDS ReadModel

CONSTANTS degree_threshold_factor, min_degree_threshold, min_blocks, max_linking_row_fraction

ASSUME StructureAssumption ==
  /\ degree_threshold_factor \in Nat /\ min_degree_threshold \in Nat /\ min_blocks \in Nat
  /\ max_linking_row_fraction \in Nat \X (Nat \ {0})

VARIABLES next_row, parent, size, result

structureVars == <<next_row, parent, size, result>>

S == INSTANCE Structure

InspectInit == Init /\ next_row = 0 /\ parent = <<>> /\ size = <<>> /\ result = S!Blank

Read == Reads /\ UNCHANGED structureVars

\* command_structure(): the detection works on the problem that was read.
Detect ==
  /\ job.command = "structure" /\ outcome = "read"
  /\ S!Next
  /\ UNCHANGED vars

\* The command has printed its answer, or main() has caught the error.
Done ==
  /\ outcome = "failed" \/ (outcome = "read" /\ (job.command = "structure" => result.kind # "none"))
  /\ UNCHANGED <<vars, structureVars>>

InspectSpec == InspectInit /\ [][Read \/ Detect \/ Done]_<<vars, structureVars>>

\* The blocks that are reported, and the verdict, can be checked on the matrix.
ClaimIsCheckable == outcome = "read" => S!ClaimIsCheckable
===============================================================================
