-------------------------------- MODULE Simplex --------------------------------
(***************************************************************************)
(* The control of the revised simplex (src/l1/simplex.cpp): two phases of  *)
(* pivots, the nets under them (anti-cycling with a frozen Phase I cost,   *)
(* EXPAND, the stall net, periodic and recovering refactorizations), and   *)
(* the endgame that verifies an optimum.                                   *)
(*                                                                         *)
(* The numbers are abstracted to what the control reads of them.  A point  *)
(* is how infeasible it is and whether pricing would find an improving     *)
(* column for the Phase I and for the true costs.  The problem fixes the   *)
(* least infeasibility that any point has, and whether it has an unbounded *)
(* ray.  A step that EXPAND makes too long leaves a residue when the       *)
(* leaving variable is snapped to its bound, however far that is; in a     *)
(* problem with drift every step leaves one.  What is seen of a point with *)
(* a residue may be anything until it is computed afresh.                  *)
(***************************************************************************)
EXTENDS Integers

CONSTANTS
  AlwaysBland,        \* opt.always_bland
  BlandAfter,         \* opt.degenerate_pivots_before_bland
  RefactorFrequency,  \* opt.refactor_frequency
  StallLimit,         \* iterate()'s stall_limit
  MaxIterations,      \* opt.max_iterations, 0 for none
  TimeLimited         \* opt.time_limit_seconds > 0

ASSUME OptionsAssumption ==
  /\ AlwaysBland \in BOOLEAN /\ TimeLimited \in BOOLEAN
  /\ BlandAfter \in Nat \ {0} /\ RefactorFrequency \in Nat \ {0}
  /\ StallLimit \in Nat \ {0} /\ MaxIterations \in Nat

EndgameRounds == 5

VARIABLES
  least, ray,        \* of the problem: least infeasibility, unbounded ray
  drift,             \* ... and rounding makes incremental updates unreliable
  pc, stage, round,  \* where run() is, and which call of iterate() is running
  infeas,            \* primal_infeasibility() of the point
  repairable,        \* a column improves phase1_cost_
  improvable,        \* a column improves the true costs
  exact,             \* the point was computed afresh, or by exact steps since
  lagging,           \* ... but phase1_cost_ is that of the point before
  frozen,            \* phase1_cost_frozen_
  stale,             \* ... and the frozen costs are not phase1_cost_ any more
  bland, consecutive_degenerate,
  fresh,             \* fresh_factorization
  pivots,            \* pivots_since_refactor_
  expand,            \* expand_tol_, in steps of expand_rate_
  best,              \* best_merit_ is still infinite, or not
  gained,            \* the merit fell since stall_pivots_ was zero (a history)
  stall, recovered,  \* stall_pivots_, stall_recovered
  iterations,        \* result_.iterations, counted if there is a limit
  cancelled,         \* the token is set
  status

instance == <<least, ray, drift>>
point == <<infeas, repairable, improvable, stale, exact, lagging>>
cycling == <<frozen, bland, consecutive_degenerate>>
net == <<best, gained, stall, recovered>>
place == <<pc, stage, round, status>>
vars == <<instance, place, point, cycling, net, fresh, pivots, expand, iterations, cancelled>>

\* No violation above primal_tolerance; some, up to the 1e-6 that run()
\* forgives after Phase I; more than that.
Feasible == 0
Slight == 1
Gross == 2
Violation == Feasible..Gross

RebuildPC == {"periodic", "stalled", "blocked", "boundary", "verify"}
PC == {"setup", "factor", "poll", "price", "ratio", "step", "split", "judge", "done"}
        \cup RebuildPC
Stage == {"none", "phase1", "phase2", "repair", "polish"}
Claim == {"Optimal", "Infeasible", "Unbounded"}
Failure == {"IterationLimit", "TimeLimit", "NumericalFailure", "Error"}

InPhase1 == stage \in {"phase1", "repair"}
allow_expand == round = 0

\* In exact arithmetic a point is at least as infeasible as the problem makes
\* it, and a point that is worse has a column that improves it.
Truthful(v, r) == v >= least /\ (v > least => r)

\* phase1_costs() at a point of violation v: there is nothing to improve at a
\* feasible one, a point with a residue tells nothing of the problem, and
\* frozen costs may or may not be the same as before.
PhaseOneCosts(v, isFrozen) ==
  /\ repairable' \in {r \in BOOLEAN : (exact' => Truthful(v, r)) /\ (v = Feasible => ~r)}
  /\ stale' \in IF isFrozen THEN BOOLEAN ELSE {FALSE}

Init ==
  /\ least \in Violation /\ ray \in BOOLEAN /\ drift \in BOOLEAN
  /\ pc = "setup" /\ stage = "none" /\ round = 0
  /\ infeas = Feasible /\ repairable = FALSE /\ improvable = FALSE
  /\ exact = TRUE /\ lagging = FALSE
  /\ frozen = FALSE /\ stale = FALSE
  /\ bland = FALSE /\ consecutive_degenerate = 0
  /\ fresh = FALSE
  /\ pivots = 0 /\ expand = RefactorFrequency
  /\ best = "infinite" /\ gained = FALSE /\ stall = 0 /\ recovered = FALSE
  /\ iterations = 0
  /\ cancelled \in BOOLEAN
  /\ status = "none"

SetToken ==
  /\ ~cancelled /\ pc # "done"
  /\ cancelled' = TRUE
  /\ UNCHANGED <<instance, place, point, cycling, net, fresh, pivots, expand, iterations>>

-----------------------------------------------------------------------------
(* run(): the ways in and out *)

Goes(where) == pc' = where /\ UNCHANGED <<stage, round, status>>

Finish(s) ==
  /\ pc' = "done" /\ status' = s
  /\ UNCHANGED <<stage, round>>

\* iterate() begins with locals of its own.
Enter(call) ==
  /\ pc' = "poll" /\ stage' = call
  /\ UNCHANGED status
  /\ best' = "infinite" /\ gained' = FALSE /\ stall' = 0 /\ recovered' = FALSE
  /\ fresh' = FALSE

\* An invalid problem throws; one with too many rows is refused.
Refuse ==
  /\ pc = "setup"
  /\ \E s \in {"Error", "NumericalFailure"} : Finish(s)
  /\ UNCHANGED <<instance, point, cycling, net, fresh, pivots, expand, iterations, cancelled>>

\* setup(), and the warm start if it is usable.
SetUp ==
  /\ pc = "setup"
  /\ Goes("factor")
  /\ UNCHANGED <<instance, point, cycling, net, fresh, pivots, expand, iterations, cancelled>>

\* The first factorization succeeds, if need be after a singular warm start
\* gave way to the slack basis; Phase I is skipped at a feasible point.
Start ==
  /\ pc = "factor"
  /\ UNCHANGED exact
  /\ infeas' \in {v \in Violation : v >= least}
  /\ PhaseOneCosts(infeas', FALSE)
  /\ improvable' \in BOOLEAN
  /\ Enter(IF infeas' = Feasible THEN "phase2" ELSE "phase1")
  /\ bland' = AlwaysBland
  /\ expand' = RefactorFrequency
  /\ UNCHANGED <<instance, round, lagging, frozen, consecutive_degenerate, pivots,
                 iterations, cancelled>>

\* iterate() returned Optimal: Phase II or the endgame follows, which drops
\* the EXPAND tolerance and verifies the point up to EndgameRounds times.
Returned ==
  CASE stage = "phase1" -> Goes("boundary") /\ UNCHANGED expand
    [] stage = "phase2" -> /\ pc' = "verify" /\ round' = 1
                           /\ expand' = 0
                           /\ UNCHANGED <<stage, status>>
    [] OTHER -> /\ UNCHANGED expand
                /\ IF round < EndgameRounds
                   THEN pc' = "verify" /\ round' = round + 1 /\ UNCHANGED <<stage, status>>
                   ELSE Finish("Optimal")

\* After Phase I: what is left of the violation decides.
Split ==
  /\ pc = "split"
  /\ IF infeas = Gross
     THEN Finish("Infeasible") /\ UNCHANGED <<cycling, net, fresh>>
     ELSE /\ Enter("phase2")
          /\ UNCHANGED <<round, frozen>>
          /\ bland' = AlwaysBland
          /\ consecutive_degenerate' = 0
  /\ UNCHANGED <<instance, point, pivots, expand, iterations, cancelled>>

\* Mutant: the endgame only looks for improving columns.
JudgeCost ==
  /\ pc = "judge"
  /\ IF improvable
     THEN /\ Enter("polish")
          /\ consecutive_degenerate' = 0
          /\ UNCHANGED <<round, frozen, bland>>
     ELSE Finish("Optimal") /\ UNCHANGED <<cycling, net, fresh>>
  /\ UNCHANGED <<instance, point, pivots, expand, iterations, cancelled>>

\* A round of the endgame, on values computed afresh.
Judge ==
  /\ pc = "judge"
  /\ IF infeas # Feasible \/ improvable
     THEN /\ Enter(IF infeas # Feasible THEN "repair" ELSE "polish")
          /\ consecutive_degenerate' = 0
          /\ UNCHANGED <<round, frozen, bland>>
     ELSE Finish("Optimal") /\ UNCHANGED <<cycling, net, fresh>>
  /\ UNCHANGED <<instance, point, pivots, expand, iterations, cancelled>>

-----------------------------------------------------------------------------
(* refactorize() and recompute_basic_values() *)

\* Only a basis that changed since it was factorized can turn out singular.
Singular ==
  /\ pc \in RebuildPC
  /\ pivots > 0
  /\ pivots' = 0
  /\ Finish("NumericalFailure")
  /\ UNCHANGED <<instance, point, cycling, net, fresh, expand, iterations, cancelled>>

FreshAfter == fresh \/ pc \in {"periodic", "blocked"}

\* A residue of the steps since is cleared.  The stall net goes on to pricing
\* without a look at the new point's own Phase I costs.
Recomputed ==
  IF exact
  THEN UNCHANGED point
  ELSE /\ exact' = TRUE
       /\ lagging' = (pc = "stalled")
       /\ infeas' \in {v \in Violation : v >= least}
       /\ IF drift THEN improvable' \in BOOLEAN ELSE UNCHANGED improvable
       /\ IF lagging'
          THEN /\ IF drift THEN repairable' \in BOOLEAN ELSE UNCHANGED repairable
               /\ UNCHANGED stale
          ELSE PhaseOneCosts(infeas', frozen)

Rebuild ==
  /\ pc \in RebuildPC
  /\ pivots' = 0
  /\ expand' = IF allow_expand THEN RefactorFrequency ELSE 0
  /\ Recomputed
  /\ fresh' = FreshAfter
  /\ Goes(CASE pc \in {"periodic", "blocked"} -> "poll"
            [] pc = "stalled" -> "price"
            [] pc = "boundary" -> "split"
            [] pc = "verify" -> "judge")
  /\ UNCHANGED <<instance, cycling, net, iterations, cancelled>>

-----------------------------------------------------------------------------
(* iterate(): the top of the loop *)

PollCancelled ==
  /\ pc = "poll" /\ cancelled
  /\ Finish("Cancelled")
  /\ UNCHANGED <<instance, point, cycling, net, fresh, pivots, expand, iterations, cancelled>>

OutOfIterations == MaxIterations > 0 /\ iterations >= MaxIterations

PollLimits ==
  /\ pc = "poll" /\ ~cancelled
  /\ \/ OutOfIterations /\ Finish("IterationLimit")
     \/ TimeLimited /\ ~OutOfIterations /\ Finish("TimeLimit")
  /\ UNCHANGED <<instance, point, cycling, net, fresh, pivots, expand, iterations, cancelled>>

\* Mutant: the token is polled, and the loop goes on all the same.
PolledAnyway == pc = "poll" /\ ~OutOfIterations
Polled == pc = "poll" /\ ~cancelled /\ ~OutOfIterations

\* Phase I ends at a feasible point, in the middle of an anti-cycling episode
\* or not.
PhaseDone ==
  /\ Polled /\ InPhase1 /\ infeas = Feasible
  /\ Returned
  /\ UNCHANGED <<instance, point, cycling, net, fresh, pivots, iterations, cancelled>>

\* The tolerance grows up to primal_tolerance.
Grown ==
  IF ~allow_expand THEN 0
  ELSE IF expand < 2 * RefactorFrequency THEN expand + 1 ELSE expand

\* The stall net's test m < best - 1e-9 * max(1, |best|): while best_merit_ is
\* infinite its right side is not a number, and no merit compares below it.
CountsAsProgress(falls) == best = "finite" /\ falls

\* Mutant: the net forgets that it has already recovered once.
RecoversForEver == TRUE
MayRecover == ~recovered

\* The rest of the top: the first merit is below infinity, a later one below
\* the best or not.
Advance ==
  /\ Polled /\ ~(InPhase1 /\ infeas = Feasible)
  /\ expand' = Grown
  /\ \E falls \in BOOLEAN :
       IF CountsAsProgress(falls)
       THEN /\ best' = "finite" /\ stall' = 0 /\ recovered' = FALSE /\ gained' = FALSE
            /\ Goes("price")
       ELSE IF stall < StallLimit
       THEN /\ stall' = stall + 1 /\ gained' = (gained \/ falls)
            /\ UNCHANGED <<best, recovered>>
            /\ Goes("price")
       ELSE IF MayRecover
       THEN /\ stall' = 0 /\ gained' = falls /\ recovered' = TRUE
            /\ UNCHANGED best
            /\ Goes("stalled")
       ELSE /\ gained' = (gained \/ falls)
            /\ UNCHANGED <<best, stall, recovered>>
            /\ Finish("NumericalFailure")
  /\ IF lagging
     THEN /\ lagging' = FALSE
          /\ UNCHANGED <<infeas, improvable, exact>>
          /\ PhaseOneCosts(infeas, frozen)
     ELSE UNCHANGED point
  /\ UNCHANGED <<instance, cycling, fresh, pivots, iterations, cancelled>>

-----------------------------------------------------------------------------
(* iterate(): pricing and the ratio test *)

\* Whether a column improves the costs that are priced: the true ones, or in
\* Phase I the frozen ones, if there are, or else phase1_cost_.
Finds(column) ==
  IF InPhase1
  THEN (frozen /\ stale) \/ column = repairable
  ELSE column = improvable

Column ==
  /\ pc = "price" /\ Finds(TRUE)
  /\ Goes("ratio")
  /\ UNCHANGED <<instance, point, cycling, net, fresh, pivots, expand, iterations, cancelled>>

\* Mutant: the frozen costs are believed.
ThawsNever == FALSE
Thaws == InPhase1 /\ frozen

\* No column improves frozen costs: they are thawed, and Phase I goes on if
\* they were not the point's.
Thaw ==
  /\ pc = "price" /\ Finds(FALSE) /\ Thaws
  /\ frozen' = FALSE /\ bland' = AlwaysBland /\ consecutive_degenerate' = 0
  /\ stale' = FALSE
  /\ IF stale THEN Goes("poll") /\ UNCHANGED expand ELSE Returned
  /\ UNCHANGED <<instance, infeas, repairable, improvable, exact, lagging, net, fresh,
                 pivots, iterations, cancelled>>

NoColumn ==
  /\ pc = "price" /\ Finds(FALSE) /\ ~Thaws
  /\ Returned
  /\ UNCHANGED <<instance, point, cycling, net, fresh, pivots, iterations, cancelled>>

\* No basic variable blocks the step: because the problem is unbounded, the
\* point drifted, or the Phase I costs are those of another point.
NoBlocker ==
  \/ drift /\ ~exact
  \/ IF InPhase1 THEN lagging \/ (frozen /\ stale) ELSE ray

\* Mutant: a later failure is taken for the second one.
StaysFresh == fresh
FreshAfterPivot == FALSE

\* The first failure is put down to drift; only one on fresh numbers counts.
RatioTestFails ==
  /\ pc = "ratio" /\ NoBlocker
  /\ IF ~fresh THEN Goes("blocked")
     ELSE Finish(IF InPhase1 THEN "NumericalFailure" ELSE "Unbounded")
  /\ UNCHANGED <<instance, point, cycling, net, fresh, pivots, expand, iterations, cancelled>>

RatioTest ==
  /\ pc = "ratio"
  /\ Goes("step")
  /\ fresh' = FreshAfterPivot
  /\ UNCHANGED <<instance, point, cycling, net, pivots, expand, iterations, cancelled>>

-----------------------------------------------------------------------------
(* iterate(): the step *)

\* Bookkeeping of degenerate steps: enough of them in a row start an episode
\* of Bland's rule, with the Phase I costs frozen, and progress ends it.  The
\* count matters only up to BlandAfter.
Degenerate ==
  LET count == IF consecutive_degenerate < BlandAfter
               THEN consecutive_degenerate + 1 ELSE BlandAfter
      begins == ~bland /\ ~AlwaysBland /\ count = BlandAfter
  IN  /\ consecutive_degenerate' = count
      /\ bland' = (bland \/ begins)
      /\ frozen' = (frozen \/ (begins /\ InPhase1))

Progress ==
  /\ consecutive_degenerate' = 0
  /\ bland' = (bland /\ AlwaysBland)
  /\ frozen' = (frozen /\ ~(bland /\ ~AlwaysBland))

\* Where EXPAND's tolerance makes the step longer than the true ratio, it
\* leaves a residue.
StepIsExact ==
  IF drift THEN {FALSE} ELSE IF expand = 0 THEN {exact} ELSE {exact, FALSE}

\* What the step does to the point.  Without a residue, Phase I makes it no
\* worse unless it follows costs of another point, and Phase II keeps it feasible.
Moves ==
  /\ exact' \in StepIsExact
  /\ infeas' \in Violation
  /\ exact' => /\ infeas' >= least
               /\ InPhase1 /\ ~(frozen /\ stale) /\ ~lagging => infeas' <= infeas
               /\ ~InPhase1 /\ infeas = Feasible => infeas' = Feasible
  /\ lagging' = FALSE
  /\ improvable' \in BOOLEAN
  /\ PhaseOneCosts(infeas', frozen')

RefactorsAt(updates) == updates >= RefactorFrequency

\* A bound flip leaves the basis alone; a pivot adds to the factorization,
\* which is rebuilt after RefactorFrequency of them.
Step ==
  /\ pc = "step"
  /\ Degenerate \/ Progress
  /\ Moves
  /\ \/ /\ UNCHANGED pivots
        /\ Goes("poll")
     \/ /\ pivots' = pivots + 1
        /\ Goes(IF RefactorsAt(pivots') THEN "periodic" ELSE "poll")
  /\ iterations' = IF MaxIterations > 0 THEN iterations + 1 ELSE 0
  /\ UNCHANGED <<instance, net, fresh, expand, cancelled>>

-----------------------------------------------------------------------------
Finished ==
  /\ pc = "done"
  /\ UNCHANGED vars

Solver ==
  \/ Refuse \/ SetUp \/ Start \/ Split \/ Judge
  \/ Singular \/ Rebuild
  \/ PollCancelled \/ PollLimits \/ PhaseDone \/ Advance
  \/ Column \/ Thaw \/ NoColumn
  \/ RatioTestFails \/ RatioTest
  \/ Step

Next == Solver \/ SetToken \/ Finished

Spec == Init /\ [][Next]_vars

\* The solver runs on a thread of its own that is scheduled.
FairSpec == Spec /\ WF_vars(Solver)

-----------------------------------------------------------------------------
(* Properties *)

TypeOK ==
  /\ least \in Violation /\ ray \in BOOLEAN /\ drift \in BOOLEAN
  /\ pc \in PC /\ stage \in Stage /\ round \in 0..EndgameRounds
  /\ infeas \in Violation
  /\ repairable \in BOOLEAN /\ improvable \in BOOLEAN /\ exact \in BOOLEAN
  /\ lagging \in BOOLEAN /\ stale \in BOOLEAN /\ frozen \in BOOLEAN
  /\ bland \in BOOLEAN /\ fresh \in BOOLEAN /\ gained \in BOOLEAN
  /\ recovered \in BOOLEAN /\ cancelled \in BOOLEAN
  /\ consecutive_degenerate \in 0..BlandAfter
  /\ pivots \in 0..RefactorFrequency
  /\ expand \in 0..(2 * RefactorFrequency)
  /\ best \in {"infinite", "finite"}
  /\ stall \in 0..StallLimit
  /\ iterations \in 0..MaxIterations
  /\ status \in {"none", "Cancelled"} \cup Claim \cup Failure

\* Unboundedness is claimed of problems that have a ray only, however much the
\* values had drifted when the ratio test first failed.
UnboundedIsSound == status = "Unbounded" => ray

\* Phase I ends at a point that is as little infeasible as any, although it
\* prices costs that may be frozen since many pivots, unless the last point has
\* a residue or was computed afresh below its costs.
PhaseOneEndsAtLeast == pc = "boundary" /\ exact /\ ~lagging => infeas = least

\* Without drift, infeasibility is claimed of infeasible problems only: "the
\* Phase I dual at the point infeasibility was detected [...] is exactly a
\* Farkas certificate for this model" (simplex.hpp:110-112).
InfeasibleIsSound == ~drift /\ status = "Infeasible" => least > Feasible

\* Without drift, an optimum of a feasible problem has passed the endgame: the
\* point is feasible and no column improves it, whatever residue EXPAND left
\* when Phase II ended.
OptimumIsVerified ==
  ~drift /\ least = Feasible /\ status = "Optimal" => infeas = Feasible /\ ~improvable

\* In the endgame the ratio test is exact.
EndgameIsExact == stage \in {"repair", "polish"} /\ pc \in {"ratio", "step"} => expand = 0

\* What the race relies on.
Contract == INSTANCE Engine WITH
  Claims <- Claim, Failures <- Failure, Stopped <- "Cancelled",
  where <- CASE pc \in {"setup", "factor"} -> "setup"
             [] pc = "poll" -> "poll"
             [] pc = "done" -> "done"
             [] OTHER -> "step",
  token <- cancelled,
  answer <- status

ImplementsEngine == Contract!Spec

\* The stall net gives up if the merit "does not improve for this many pivots".
StallIsGenuine ==
  [][pc = "poll" /\ pc' = "done" /\ status' = "NumericalFailure" => ~gained']_vars

===============================================================================
