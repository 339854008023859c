--------------------------------- MODULE Pdhg ---------------------------------
(***************************************************************************)
(* The loop of the first-order engine (src/l1/pdhg.cpp): iterations that   *)
(* sum up the points since the last restart, and every restart_check_      *)
(* period of them a check that may end the solve, or restart from the      *)
(* average of the window, and shows its candidate to the checkpoint.       *)
(*                                                                         *)
(* A residual is a small number, or Infinite.  A point is named by its     *)
(* kind and by the iteration it was made in.  Iterates grow beyond all     *)
(* numbers only if the step size is too long for the operator, which is    *)
(* decided by the power iteration on the matrix of the problem.            *)
(***************************************************************************)
EXTENDS Arithmetic, FiniteSets

CONSTANTS
  Matrices,               \* the (equilibrated) matrices, sequences of rows
  max_iterations,
  restart_check_period,
  TopResidual,            \* the largest finite residual
  Tolerance,              \* options.tolerance, as a residual
  TimeLimited             \* options.time_limit_seconds > 0

\* What the loop needs of its options.
OptionsAssumption ==
  /\ max_iterations \in Nat
  /\ restart_check_period \in Nat \ {0}
  /\ TopResidual \in Nat /\ Tolerance \in 1..TopResidual
  /\ TimeLimited \in BOOLEAN

VARIABLES
  matrix,
  pc,
  iterations,                 \* result.iterations
  x,                          \* the point the iteration is at
  finite,                     \* every number of it, and of the sums, is finite
  sums,                       \* the iterations summed up in x_sum and y_sum
  since_restart,
  window,                     \* the first iteration since the last restart
  residual_at_last_restart,
  restarts,
  offered,                    \* the last point shown to the checkpoint
  best,                       \* best_x_scaled, best_y_scaled
  cancelled,                  \* the token is set
  status

averaging == <<sums, since_restart, window, residual_at_last_restart, restarts>>
result == <<best, status>>
vars == <<matrix, pc, iterations, x, finite, averaging, offered, result, cancelled>>

Infinite == TopResidual + 1
Residual == 0..Infinite
is_finite(r) == r <= TopResidual

Iterate(k) == [kind |-> "iterate", made |-> k]
Average(k) == [kind |-> "average", made |-> k]
Projection == Iterate(-1)    \* of zero onto the boxes, before any iteration
NoPoint == [kind |-> "none", made |-> -1]

Iteration == 0..max_iterations
Point == [kind : {"iterate", "average"}, made : Iteration] \cup {Projection}

-----------------------------------------------------------------------------
(* The power iteration for the norm of K(u, v) = v - A u *)

RowSum(row) == SumOver(row, DOMAIN row)
RowSquare(row) == SumOver([j \in DOMAIN row |-> row[j] * row[j]], DOMAIN row)

\* K of the all-ones vector it starts from is zero: it stops at once, and the
\* estimate stays zero.  Otherwise the estimate is as good as the norm.
NormIsMissed(A) == \A i \in DOMAIN A : RowSum(A[i]) = 1

\* A lower bound of the operator's squared norm.
NormSquare(A) == 1 + Max({RowSquare(A[i]) : i \in DOMAIN A})

\* 100 tau sigma for an estimate of zero: step_size_safety is 0.9.
UnscaledStepSquare == 81

\* The step size is too long for the operator.
Diverges == NormIsMissed(matrix) /\ UnscaledStepSquare * NormSquare(matrix) > 100

-----------------------------------------------------------------------------
Init ==
  /\ matrix \in Matrices
  /\ pc = "setup"
  /\ iterations = 0
  /\ x = Projection /\ finite = TRUE
  /\ sums = {} /\ since_restart = 0 /\ window = 0
  /\ residual_at_last_restart = Infinite
  /\ restarts = 0
  /\ offered = NoPoint /\ best = NoPoint
  /\ cancelled \in BOOLEAN
  /\ status = "none"

SetToken ==
  /\ ~cancelled /\ pc # "done"
  /\ cancelled' = TRUE
  /\ UNCHANGED <<matrix, pc, iterations, x, finite, averaging, offered, result>>

\* An invalid problem, or residuals that are not finite: no point is reported.
Abandon ==
  /\ pc' = "done" /\ status' = "NumericalFailure"
  /\ UNCHANGED best

Refuse ==
  /\ pc = "setup"
  /\ Abandon
  /\ UNCHANGED <<matrix, iterations, x, finite, averaging, offered, cancelled>>

\* Mutants: only an exhausted budget reports the last iterate; everything does.
FilledIfExhausted(s, point) == IF s = "IterationLimit" THEN x' ELSE point
FilledAlways(s, point) == x'
Filled(s, point) == IF point = NoPoint THEN x' ELSE point

\* After the loop: whatever stopped it, there is a point to report.
Finish(s, point) ==
  /\ pc' = "done" /\ status' = s
  /\ best' = Filled(s, point)

InBudget(k) == k < max_iterations

\* The loop's increment and condition.
NextIteration ==
  /\ iterations' = iterations + 1
  /\ IF InBudget(iterations')
     THEN pc' = "poll" /\ UNCHANGED result
     ELSE Finish("IterationLimit", NoPoint)

Begin ==
  /\ pc = "setup"
  /\ UNCHANGED <<matrix, iterations, x, finite, averaging, offered, cancelled>>
  /\ IF InBudget(0)
     THEN pc' = "poll" /\ UNCHANGED result
     ELSE Finish("IterationLimit", NoPoint)

PollCancelled ==
  /\ pc = "poll" /\ cancelled
  /\ UNCHANGED <<matrix, iterations, x, finite, averaging, offered, cancelled>>
  /\ Finish("Cancelled", NoPoint)

PollTimesOut ==
  /\ pc = "poll" /\ ~cancelled /\ TimeLimited
  /\ UNCHANGED <<matrix, iterations, x, finite, averaging, offered, cancelled>>
  /\ Finish("TimeLimit", NoPoint)

MayGoOn == ~cancelled

\* Two products, two projections, and the point is added to the sums, or
\* begins them.
Advance ==
  /\ pc = "poll" /\ MayGoOn
  /\ x' = Iterate(iterations)
  /\ finite' \in IF Diverges THEN {finite, FALSE} ELSE {finite}
  /\ sums' = IF since_restart = 0 THEN {iterations} ELSE sums \cup {iterations}
  /\ since_restart' = since_restart + 1
  /\ pc' = IF (iterations + 1) % restart_check_period = 0 THEN "check" ELSE "next"
  /\ UNCHANGED <<matrix, iterations, window, residual_at_last_restart, restarts, offered,
                 result, cancelled>>

Continue ==
  /\ pc = "next"
  /\ UNCHANGED <<matrix, x, finite, averaging, offered, cancelled>>
  /\ NextIteration

-----------------------------------------------------------------------------
(* The check *)

\* kkt_residual and original_space_residual: std::max keeps its first argument
\* when it meets a NaN, so that a point whose numbers are not finite may have
\* any residual, or be found out.
Measured == IF finite THEN 0..TopResidual ELSE Residual

Candidate(average, current) ==
  IF average <= current THEN Average(iterations) ELSE Iterate(iterations)

\* A residual is seen not to be finite, the candidate's in original units
\* included: the engine gives up.
BreakDown ==
  /\ pc = "check"
  /\ \E r \in Measured : ~is_finite(r)
  /\ Abandon
  /\ UNCHANGED <<matrix, iterations, x, finite, averaging, offered, cancelled>>

\* The callback sees the candidate that is then tested.
Converge ==
  /\ pc = "check"
  /\ \E current \in Measured, average \in Measured, original \in Measured :
       /\ is_finite(current) /\ is_finite(average)
       /\ original < Tolerance
       /\ offered' = Candidate(average, current)
  /\ iterations' = iterations + 1
  /\ UNCHANGED <<matrix, x, finite, averaging, cancelled>>
  /\ Finish("Optimal", offered')

\* Mutant: the residual is taken anew at every check.
SeededAgain(current) == current
Seeded(current) ==
  IF is_finite(residual_at_last_restart) THEN residual_at_last_restart ELSE current

\* restart_sufficient_decrease is one half.
Decreased(average, last) == 2 * average <= last

\* Mutant: the window goes on after a restart.
WindowKept == since_restart
WindowReset == 0

\* The average becomes the point, and a new window begins.
Restart(average) ==
  /\ x' = Average(iterations)
  /\ residual_at_last_restart' = average
  /\ since_restart' = WindowReset
  /\ window' = iterations + 1
  /\ restarts' = restarts + 1
  /\ UNCHANGED sums

Proceed ==
  /\ pc = "check"
  /\ \E current \in Measured, average \in Measured, original \in Measured :
       /\ is_finite(current) /\ is_finite(average) /\ is_finite(original)
       /\ original >= Tolerance
       /\ offered' = Candidate(average, current)
       /\ IF Decreased(average, Seeded(current))
          THEN Restart(average)
          ELSE /\ residual_at_last_restart' = Seeded(current)
               /\ UNCHANGED <<x, sums, since_restart, window, restarts>>
  /\ UNCHANGED <<matrix, finite, cancelled>>
  /\ NextIteration

Finished ==
  /\ pc = "done"
  /\ UNCHANGED vars

Next ==
  \/ SetToken
  \/ Refuse \/ Begin
  \/ PollCancelled \/ PollTimesOut \/ Advance \/ Continue
  \/ BreakDown \/ Converge \/ Proceed
  \/ Finished

Spec == Init /\ [][Next]_vars

-----------------------------------------------------------------------------
(* Properties *)

Claim == {"Optimal"}
Failure == {"IterationLimit", "TimeLimit", "NumericalFailure"}

TypeOK ==
  /\ matrix \in Matrices
  /\ pc \in {"setup", "poll", "next", "check", "done"}
  /\ iterations \in Iteration
  /\ x \in Point
  /\ finite \in BOOLEAN
  /\ sums \subseteq Iteration
  /\ since_restart \in 0..max_iterations
  /\ window \in Iteration
  /\ residual_at_last_restart \in Residual
  /\ restarts \in 0..max_iterations
  /\ {offered, best} \subseteq Point \cup {NoPoint}
  /\ cancelled \in BOOLEAN
  /\ status \in {"none", "Cancelled"} \cup Claim \cup Failure

\* At a check the sums hold the iterations since the last restart, all of them
\* and no others, and since_restart is their number: the division yields the
\* average of that window.
WindowIsExact ==
  pc = "check" => sums = window..iterations /\ since_restart = Cardinality(sums)

\* Restarts shorten the tail: each of them halves the residual of the one
\* before, whatever residuals were measured in between.
RestartsGain ==
  restarts > 0 => residual_at_last_restart * Power(2, restarts) <= TopResidual

\* The optimum reported is the point that the checkpoint was shown last, which
\* the crossover may be turning into a vertex meanwhile.
OptimumWasOffered == status = "Optimal" => best = offered

\* Whatever stops the loop, a point is reported (the crossover's last attempt
\* starts from it); only a breakdown leaves none.
PointUnlessBroken == pc = "done" => (best = NoPoint <=> status = "NumericalFailure")

\* What the race relies on.
Contract == INSTANCE Engine WITH
  Claims <- Claim, Failures <- Failure, Stopped <- "Cancelled",
  where <- CASE pc = "setup" -> "setup"
             [] pc = "poll" -> "poll"
             [] pc = "done" -> "done"
             [] OTHER -> "step",
  token <- cancelled,
  answer <- status

ImplementsEngine == Contract!Spec

\* The tolerance "is a promise about real units, so convergence has to be
\* verified there": an optimum is a point made of numbers.
OptimumIsFinite == status = "Optimal" => finite

===============================================================================
