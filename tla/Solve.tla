---------------------------------- MODULE Solve ----------------------------------
(***************************************************************************)
(* One engine from its start to its end, whichever is asked for: by the    *)
(* command line (apps/sovereign_cli.cpp, command_solve and its siblings)   *)
(* or by the thread that a race gives to an entrant (src/l1/race.cpp).     *)
(*                                                                         *)
(* The three engines have their modules; here they share what their caller *)
(* sees of them: where they are, the token, and the status.                *)
(***************************************************************************)
EXTENDS Simplex

CONSTANTS
  max_iterations, Tolerance,                     \* of PDHG and of the interior point method
  Matrices, restart_check_period, TopResidual,   \* of PDHG
  MaxAttempts, TopMerit                          \* of the interior point method

VARIABLES
  engine,
  matrix, x, finite, sums, since_restart, window, residual_at_last_restart, restarts,
  offered, best_x,                               \* PDHG's
  merit, rowless, z, attempts, residuals, best_z \* the interior point method's

P == INSTANCE Pdhg WITH best <- best_x
I == INSTANCE Ipm WITH best <- best_z

ASSUME SolveAssumption == P!OptionsAssumption /\ I!OptionsAssumption

simplexVars ==
  <<instance, stage, round, point, cycling, net, fresh, pivots, expand>>
pdhgVars ==
  <<matrix, x, finite, sums, since_restart, window, residual_at_last_restart, restarts,
    offered, best_x>>
ipmVars == <<merit, rowless, z, attempts, residuals, best_z>>
solveVars == <<engine, vars, pdhgVars, ipmVars>>

\* The engines that were not asked for do not exist.
Absent == "absent"
NoPdhg ==
  /\ matrix = Absent /\ x = Absent /\ finite = Absent
  /\ sums = Absent /\ since_restart = Absent /\ window = Absent
  /\ residual_at_last_restart = Absent /\ restarts = Absent
  /\ offered = Absent /\ best_x = Absent
NoIpm ==
  /\ merit = Absent /\ rowless = Absent /\ z = Absent
  /\ attempts = Absent /\ residuals = Absent /\ best_z = Absent
NoSimplex ==
  /\ least = Feasible /\ ray = FALSE /\ drift = FALSE
  /\ stage = "none" /\ round = 0
  /\ infeas = Feasible /\ repairable = FALSE /\ improvable = FALSE
  /\ exact = TRUE /\ lagging = FALSE /\ frozen = FALSE /\ stale = FALSE
  /\ bland = FALSE /\ consecutive_degenerate = 0 /\ fresh = FALSE
  /\ pivots = 0 /\ expand = 0
  /\ best = "infinite" /\ gained = FALSE /\ stall = 0 /\ recovered = FALSE

\* The command line's dispatch, or the entrant's body.
SolveInit ==
  \/ engine = "simplex" /\ Init /\ NoPdhg /\ NoIpm
  \/ engine = "pdhg" /\ P!Init /\ NoSimplex /\ NoIpm
  \/ engine = "ipm" /\ I!Init /\ NoSimplex /\ NoPdhg

RunSimplex == engine = "simplex" /\ Next /\ UNCHANGED <<engine, pdhgVars, ipmVars>>
RunPdhg == engine = "pdhg" /\ P!Next /\ UNCHANGED <<engine, simplexVars, ipmVars>>
RunIpm == engine = "ipm" /\ I!Next /\ UNCHANGED <<engine, simplexVars, pdhgVars>>

SolveNext == RunSimplex \/ RunPdhg \/ RunIpm

SolveSpec == SolveInit /\ [][SolveNext]_solveVars

\* The thread that runs the engine is scheduled; nobody has to set the token.
Thread ==
  \/ engine = "simplex" /\ Solver /\ UNCHANGED <<engine, pdhgVars, ipmVars>>
  \/ RunPdhg \/ RunIpm

FairSolve == SolveSpec /\ WF_solveVars(Thread)
-------------------------------------------------------------------------------
(* Properties: those of Simplex and ImplementsEngine, whose mapping is that of   *)
(* all engines, and those of the other modules.                                  *)

\* Every engine ends, without any limit but PDHG's and the interior point
\* method's own; the latter may end the process (see Ipm's Crash).
SolveEnds == <>(pc \in {"done", "crashed"})

\* The average that PDHG restarts from is that of its window.
WindowIsExact == engine = "pdhg" => P!WindowIsExact

\* PDHG's restarts shorten the tail.
RestartsGain == engine = "pdhg" => P!RestartsGain

\* PDHG's optimum is the point that its checkpoint was shown last.
OptimumWasOffered == engine = "pdhg" => P!OptimumWasOffered

\* PDHG reports a point, whatever stops it but a breakdown.
PointUnlessBroken == engine = "pdhg" => P!PointUnlessBroken

\* The interior point method reports the best iterate it measured.
BestIsReported == engine = "ipm" => I!BestIsReported
===============================================================================
