---------------------------------- MODULE Ipm ----------------------------------
(***************************************************************************)
(* The loop of the interior-point engine (src/l1/ipm.cpp): each iteration  *)
(* polls the token and the clock, measures the iterate, remembers it if it *)
(* is the best so far, factorizes the regularized system, with more        *)
(* regularization if the factorization breaks down, and takes the step.    *)
(*                                                                         *)
(* An iterate is named by the number of steps that led to it.  Its merit   *)
(* is the largest of its two residuals and of mu: a small number, or       *)
(* Infinite if one of the three is not finite.                             *)
(***************************************************************************)
EXTENDS Integers

CONSTANTS
  max_iterations,
  MaxAttempts,            \* factorizations tried in one iteration
  TopMerit,               \* the largest finite merit
  Tolerance,              \* options.tolerance, as a merit
  TimeLimited             \* options.time_limit_seconds > 0

\* What the loop needs of its options.
OptionsAssumption ==
  /\ max_iterations \in Nat
  /\ MaxAttempts \in Nat \ {0}
  /\ TopMerit \in Nat /\ Tolerance \in 1..TopMerit
  /\ TimeLimited \in BOOLEAN

VARIABLES
  merit,            \* of each iterate
  rowless,          \* the problem has no row
  pc,
  iterations,       \* result.iterations
  z,                \* the iterate
  attempts,         \* factorizations that broke down in this iteration
  residuals,        \* the iterate whose residuals the result holds
  best,             \* best_z, best_y
  cancelled,        \* the token is set
  status

result == <<residuals, best, status>>
vars == <<merit, rowless, pc, iterations, z, attempts, result, cancelled>>

Infinite == TopMerit + 1
Merit == 0..Infinite
is_finite(m) == m <= TopMerit

Iterate == 0..max_iterations
NoPoint == -1

best_merit == IF best = NoPoint THEN Infinite ELSE merit[best]

-----------------------------------------------------------------------------
Init ==
  /\ merit \in [Iterate -> Merit]
  /\ rowless \in BOOLEAN
  /\ pc = "setup"
  /\ iterations = 0 /\ z = 0 /\ attempts = 0
  /\ residuals = NoPoint /\ best = NoPoint
  /\ cancelled \in BOOLEAN
  /\ status = "none"

SetToken ==
  /\ ~cancelled /\ pc \notin {"done", "crashed"}
  /\ cancelled' = TRUE
  /\ UNCHANGED <<merit, rowless, pc, iterations, z, attempts, result>>

\* An invalid problem, crossed bounds, a system too large for a dense
\* factorization, or no bound at all: no point is reported.
Refuse ==
  /\ pc = "setup"
  /\ pc' = "done" /\ status' = "NumericalFailure"
  /\ UNCHANGED <<merit, rowless, iterations, z, attempts, residuals, best, cancelled>>

\* After the loop: the iterate at hand is reported if none was remembered.
Finish(s, remembered) ==
  /\ pc' = "done" /\ status' = s
  /\ best' = IF remembered = NoPoint THEN z' ELSE remembered

InBudget(k) == k < max_iterations

\* The condition of the loop.
Loop ==
  IF InBudget(iterations')
  THEN pc' = "poll" /\ UNCHANGED <<best, status>>
  ELSE Finish("IterationLimit", best)

Begin ==
  /\ pc = "setup"
  /\ UNCHANGED <<merit, rowless, iterations, z, attempts, residuals, cancelled>>
  /\ Loop

PollCancelled ==
  /\ pc = "poll" /\ cancelled
  /\ UNCHANGED <<merit, rowless, iterations, z, attempts, residuals, cancelled>>
  /\ Finish("Cancelled", best)

PollTimesOut ==
  /\ pc = "poll" /\ ~cancelled /\ TimeLimited
  /\ UNCHANGED <<merit, rowless, iterations, z, attempts, residuals, cancelled>>
  /\ Finish("TimeLimit", best)

MayGoOn == ~cancelled

PollProceeds ==
  /\ pc = "poll" /\ MayGoOn
  /\ pc' = "measure"
  /\ UNCHANGED <<merit, rowless, iterations, z, attempts, result, cancelled>>

-----------------------------------------------------------------------------
(* One iteration *)

\* The largest element of no residuals is read: std::max_element returns the
\* end of the empty vector, a null pointer, and the process is gone.
Crash ==
  /\ pc = "measure" /\ rowless
  /\ pc' = "crashed"
  /\ UNCHANGED <<merit, rowless, iterations, z, attempts, result, cancelled>>

Measuring == pc = "measure" /\ ~rowless /\ residuals' = z

Converge ==
  /\ Measuring /\ merit[z] < Tolerance
  /\ UNCHANGED <<merit, rowless, iterations, z, attempts, cancelled>>
  /\ Finish("Optimal", z)

BreakDown ==
  /\ Measuring /\ ~is_finite(merit[z])
  /\ UNCHANGED <<merit, rowless, iterations, z, attempts, cancelled>>
  /\ Finish("NumericalFailure", best)

\* Mutant: every iterate is remembered.
AlwaysBetter == TRUE
Better == merit[z] < best_merit

Remember ==
  /\ Measuring /\ merit[z] >= Tolerance /\ is_finite(merit[z])
  /\ best' = IF Better THEN z ELSE best
  /\ attempts' = 0
  /\ pc' = "factorize"
  /\ UNCHANGED <<merit, rowless, iterations, z, status, cancelled>>

\* The elimination meets a pivot of zero; delta grows by a factor of ten.
FactorizationFails ==
  /\ pc = "factorize"
  /\ attempts' = attempts + 1
  /\ UNCHANGED <<merit, rowless, iterations, z, residuals, cancelled>>
  /\ IF attempts' < MaxAttempts
     THEN UNCHANGED <<pc, best, status>>
     ELSE Finish("NumericalFailure", best)

\* Predictor and corrector, and the loop's increment.
Step ==
  /\ pc = "factorize"
  /\ z' = z + 1
  /\ iterations' = iterations + 1
  /\ UNCHANGED <<merit, rowless, attempts, residuals, cancelled>>
  /\ Loop

Stopped ==
  /\ pc \in {"done", "crashed"}
  /\ UNCHANGED vars

Next ==
  \/ SetToken
  \/ Refuse \/ Begin
  \/ PollCancelled \/ PollTimesOut \/ PollProceeds
  \/ Crash \/ Converge \/ BreakDown \/ Remember
  \/ FactorizationFails \/ Step
  \/ Stopped

Spec == Init /\ [][Next]_vars

-----------------------------------------------------------------------------
(* Properties *)

Claim == {"Optimal"}
Failure == {"IterationLimit", "TimeLimit", "NumericalFailure"}

TypeOK ==
  /\ merit \in [Iterate -> Merit]
  /\ rowless \in BOOLEAN
  /\ pc \in {"setup", "poll", "measure", "factorize", "done", "crashed"}
  /\ iterations \in Iterate /\ z \in Iterate
  /\ attempts \in 0..MaxAttempts
  /\ residuals \in Iterate \cup {NoPoint}
  /\ best \in Iterate \cup {NoPoint}
  /\ cancelled \in BOOLEAN
  /\ status \in {"none", "Cancelled"} \cup Claim \cup Failure

\* The iterate reported is the best of all that were measured, not the last,
\* however the loop ended; an optimum is within the tolerance.
BestIsReported ==
  (pc = "done" /\ residuals # NoPoint) =>
    /\ best \in 0..residuals
    /\ \A k \in 0..residuals : merit[best] <= merit[k]
    /\ status = "Optimal" <=> merit[best] < Tolerance

\* What the race relies on.
Contract == INSTANCE Engine WITH
  Claims <- Claim, Failures <- Failure, Stopped <- "Cancelled",
  where <- CASE pc = "setup" -> "setup"
             [] pc = "poll" -> "poll"
             [] pc = "done" -> "done"
             [] OTHER -> "step",
  token <- cancelled,
  answer <- status

ImplementsEngine == Contract!Spec

================================================================================
