------------------------------- MODULE SolveProofs -------------------------------
(***************************************************************************)
(* The control of the simplex method, the first-order engine and the       *)
(* interior point method, for all values of their options, every budget,   *)
(* every period of the checks, all matrices, residuals and merits: their   *)
(* types, what they report and the contract they keep; for the simplex     *)
(* method also the exactness of its endgame.  Then what is proved of the   *)
(* three engines, carried over to the solve that runs one of them: a       *)
(* behaviour of Solve that asks for an engine is one of that engine's      *)
(* module, and the others' properties do not speak of it.                  *)
(***************************************************************************)
EXTENDS Solve, ArithmeticProofs, TLAPS

-----------------------------------------------------------------------------
(* The control of the simplex method *)

Iterating == pc \in {"poll", "price", "ratio", "step", "periodic", "stalled", "blocked"}
Verifying == pc \in {"verify", "judge"}

\* Where the counters stand: the pivot that reaches RefactorFrequency is
\* followed by the rebuild, and one more iteration begins below its limit only.
CountInv ==
  /\ pc # "periodic" => pivots < RefactorFrequency
  /\ MaxIterations > 0 /\ pc \in {"price", "ratio", "step", "stalled"}
       => iterations < MaxIterations

\* Which call of iterate() runs: the rounds are counted by the endgame.
StageInv ==
  /\ pc \in {"setup", "factor", "boundary", "split"} => round = 0
  /\ Iterating => stage # "none" /\ (stage \in {"phase1", "phase2"} <=> round = 0)
  /\ stage \in {"repair", "polish"} => round > 0
  /\ Verifying => round > 0
  /\ round > 0 => expand = 0
  /\ status # "none" => pc = "done"

\* A factorization counted as fresh has had no step since.
FreshInv ==
  /\ fresh => exact
  /\ pc = "step" => ~fresh

\* What the Phase I costs tell of a point without a residue: everything, or
\* nothing if they are those of the point before the one the stall net computed.
TruthInv ==
  /\ lagging => exact
  /\ exact /\ pc \notin {"setup", "factor", "done"} =>
       /\ infeas >= least
       /\ ~lagging /\ ~repairable => infeas <= least

\* Without drift the endgame of a feasible problem needs three rounds: one
\* that clears the residue, one after a repair, and one after a polish.
EndgameInv ==
  ~drift /\ least = Feasible /\ round > 0 /\ pc # "done" =>
    /\ exact \/ (pc = "verify" /\ round = 1)
    /\ Iterating =>
         \/ stage = "repair" /\ round = 1
         \/ stage = "polish" /\ round \in 1..2 /\ infeas = Feasible
    /\ stage = "repair" /\ pc \in {"price", "ratio", "step", "stalled"} => ~lagging
    /\ Verifying =>
         \/ round = 1
         \/ round = 2 /\ infeas = Feasible
         \/ round = 3 /\ infeas = Feasible /\ ~improvable

\* TypeOK in two halves: the provers treat Booleans and numbers apart.
FlagTypes ==
  /\ ray \in BOOLEAN /\ drift \in BOOLEAN
  /\ repairable \in BOOLEAN /\ improvable \in BOOLEAN /\ exact \in BOOLEAN
  /\ lagging \in BOOLEAN /\ stale \in BOOLEAN /\ frozen \in BOOLEAN
  /\ bland \in BOOLEAN /\ fresh \in BOOLEAN /\ gained \in BOOLEAN
  /\ recovered \in BOOLEAN /\ cancelled \in BOOLEAN

OtherTypes ==
  /\ least \in Violation
  /\ pc \in PC /\ stage \in Stage /\ round \in 0..EndgameRounds
  /\ infeas \in Violation
  /\ consecutive_degenerate \in 0..BlandAfter
  /\ pivots \in 0..RefactorFrequency
  /\ expand \in 0..(2 * RefactorFrequency)
  /\ best \in {"infinite", "finite"}
  /\ stall \in 0..StallLimit
  /\ iterations \in 0..MaxIterations
  /\ status \in {"none", "Cancelled"} \cup Claim \cup Failure

SimplexInv ==
  /\ TypeOK /\ CountInv /\ StageInv /\ FreshInv /\ TruthInv /\ EndgameInv
  /\ UnboundedIsSound /\ PhaseOneEndsAtLeast /\ OptimumIsVerified

-----------------------------------------------------------------------------
USE DEF instance, place, point, cycling, net, vars, Goes, Finish,
        Violation, Feasible, Slight, Gross

\* Every step of the solver keeps the Boolean variables Boolean.
LEMMA FlagsStep == TypeOK /\ CountInv /\ [Next]_vars => FlagTypes'
<1> SUFFICES ASSUME TypeOK /\ CountInv, [Next]_vars PROVE FlagTypes'
  OBVIOUS
<1> USE OptionsAssumption DEF FlagTypes, TypeOK, CountInv, PC, RebuildPC, Stage, Claim,
                              Failure, EndgameRounds
<1>1. CASE Refuse
  BY <1>1 DEF Refuse
<1>2. CASE SetUp
  BY <1>2 DEF SetUp
<1>3. CASE Start
  BY <1>3 DEF Start, Enter, PhaseOneCosts, Truthful
<1>4. CASE Split
  <2>1. bland' \in BOOLEAN /\ frozen' \in BOOLEAN /\ fresh' \in BOOLEAN
    BY <1>4 DEF Split, Enter
  <2>2. gained' \in BOOLEAN /\ recovered' \in BOOLEAN
    BY <1>4 DEF Split, Enter
  <2>3. UNCHANGED <<ray, drift, repairable, improvable, exact, lagging, stale, cancelled>>
    BY <1>4 DEF Split
  <2> QED
    BY <2>1, <2>2, <2>3
<1>5. CASE Judge
  <2>1. bland' \in BOOLEAN /\ frozen' \in BOOLEAN /\ fresh' \in BOOLEAN
    BY <1>5 DEF Judge, Enter
  <2>2. gained' \in BOOLEAN /\ recovered' \in BOOLEAN
    BY <1>5 DEF Judge, Enter
  <2>3. UNCHANGED <<ray, drift, repairable, improvable, exact, lagging, stale, cancelled>>
    BY <1>5 DEF Judge
  <2> QED
    BY <2>1, <2>2, <2>3
<1>6. CASE Singular
  BY <1>6 DEF Singular
<1>7. CASE Rebuild
  <2>1. Recomputed /\ fresh' \in BOOLEAN /\ UNCHANGED <<instance, cycling, net, cancelled>>
    BY <1>7 DEF Rebuild, FreshAfter
  <2>2. CASE exact
    BY <2>1, <2>2 DEF Recomputed
  <2>3. CASE ~exact
    <3>1. exact' \in BOOLEAN /\ lagging' \in BOOLEAN /\ improvable' \in BOOLEAN
      BY <2>1, <2>3 DEF Recomputed
    <3>2. repairable' \in BOOLEAN /\ stale' \in BOOLEAN
      BY <2>1, <2>3 DEF Recomputed, PhaseOneCosts
    <3> QED
      BY <2>1, <3>1, <3>2
  <2> QED
    BY <2>2, <2>3
<1>8. CASE PollCancelled
  BY <1>8 DEF PollCancelled
<1>9. CASE PollLimits
  BY <1>9 DEF PollLimits, OutOfIterations
<1>10. CASE PhaseDone
  BY <1>10 DEF PhaseDone, Polled, OutOfIterations, InPhase1, Returned
<1>11. CASE Advance
  <2> USE <1>11
  <2>1. PICK falls \in BOOLEAN :
          IF CountsAsProgress(falls)
          THEN /\ best' = "finite" /\ stall' = 0 /\ recovered' = FALSE /\ gained' = FALSE
               /\ Goes("price")
          ELSE IF stall < StallLimit
          THEN /\ stall' = stall + 1 /\ gained' = (gained \/ falls)
               /\ UNCHANGED <<best, recovered>>
               /\ Goes("price")
          ELSE IF MayRecover
          THEN /\ stall' = 0 /\ gained' = falls /\ recovered' = TRUE
               /\ UNCHANGED best
               /\ Goes("stalled")
          ELSE /\ gained' = (gained \/ falls)
               /\ UNCHANGED <<best, stall, recovered>>
               /\ Finish("NumericalFailure")
    BY DEF Advance
  <2>2. gained' \in BOOLEAN /\ recovered' \in BOOLEAN
    BY <2>1
  <2>3. /\ repairable' \in BOOLEAN /\ improvable' \in BOOLEAN /\ exact' \in BOOLEAN
        /\ lagging' \in BOOLEAN /\ stale' \in BOOLEAN
    <3>1. CASE lagging
      BY <3>1 DEF Advance, PhaseOneCosts
    <3>2. CASE ~lagging
      BY <3>2 DEF Advance
    <3> QED
      BY <3>1, <3>2
  <2> QED
    BY <2>2, <2>3 DEF Advance
<1>12. CASE Column
  BY <1>12 DEF Column
<1>13. CASE Thaw
  <2>1. frozen' \in BOOLEAN /\ bland' \in BOOLEAN /\ stale' \in BOOLEAN
    BY <1>13 DEF Thaw
  <2>2. UNCHANGED <<repairable, improvable, exact, lagging>>
    BY <1>13 DEF Thaw
  <2>3. UNCHANGED <<ray, drift, gained, recovered, fresh, cancelled>>
    BY <1>13 DEF Thaw
  <2> QED
    BY <2>1, <2>2, <2>3
<1>14. CASE NoColumn
  BY <1>14 DEF NoColumn, Finds, Thaws, InPhase1, Returned
<1>15. CASE RatioTestFails
  BY <1>15 DEF RatioTestFails, NoBlocker, InPhase1
<1>16. CASE RatioTest
  <2>1. fresh' \in BOOLEAN
    BY <1>16 DEF RatioTest, FreshAfterPivot
  <2>2. UNCHANGED <<repairable, improvable, exact, lagging, stale, frozen, bland>>
    BY <1>16 DEF RatioTest
  <2>3. UNCHANGED <<ray, drift, gained, recovered, cancelled>>
    BY <1>16 DEF RatioTest
  <2> QED
    BY <2>1, <2>2, <2>3
<1>17. CASE Step
  BY <1>17 DEF Step, Degenerate, Progress, Moves, StepIsExact, InPhase1, RefactorsAt, PhaseOneCosts, Truthful
<1>18. CASE SetToken
  BY <1>18 DEF SetToken
<1>19. CASE Finished \/ UNCHANGED vars
  BY <1>19 DEF Finished
<1> QED
  BY <1>1, <1>2, <1>3, <1>4, <1>5, <1>6, <1>7, <1>8, <1>9, <1>10, <1>11, <1>12, <1>13, <1>14,
     <1>15, <1>16, <1>17, <1>18, <1>19 DEF Next, Solver

\* Every step keeps the places, counters and statuses in their types.
LEMMA OthersStep == TypeOK /\ CountInv /\ [Next]_vars => OtherTypes'
<1> SUFFICES ASSUME TypeOK /\ CountInv, [Next]_vars PROVE OtherTypes'
  OBVIOUS
<1> USE OptionsAssumption DEF OtherTypes, TypeOK, CountInv, PC, RebuildPC, Stage, Claim,
                              Failure, EndgameRounds
<1>1. CASE Refuse
  BY <1>1 DEF Refuse
<1>2. CASE SetUp
  BY <1>2 DEF SetUp
<1>3. CASE Start
  BY <1>3 DEF Start, Enter, PhaseOneCosts, Truthful
<1>4. CASE Split
  BY <1>4 DEF Split, Enter
<1>5. CASE Judge
  BY <1>5 DEF Judge, Enter
<1>6. CASE Singular
  BY <1>6 DEF Singular
<1>7. CASE Rebuild
  <2> USE <1>7
  <2>1. infeas' \in Violation
    <3>1. CASE exact
      BY <3>1 DEF Rebuild, Recomputed
    <3>2. CASE ~exact
      BY <3>2 DEF Rebuild, Recomputed
    <3> QED
      BY <3>1, <3>2
  <2>2. pc' \in PC /\ UNCHANGED <<stage, round, status>>
    BY DEF Rebuild
  <2> QED
    BY <2>1, <2>2 DEF Rebuild
<1>8. CASE PollCancelled
  BY <1>8 DEF PollCancelled
<1>9. CASE PollLimits
  BY <1>9 DEF PollLimits, OutOfIterations
<1>10. CASE PhaseDone
  BY <1>10 DEF PhaseDone, Polled, OutOfIterations, InPhase1, Returned
<1>11. CASE Advance
  <2> USE <1>11
  <2>1. PICK falls \in BOOLEAN :
          IF CountsAsProgress(falls)
          THEN /\ best' = "finite" /\ stall' = 0 /\ recovered' = FALSE /\ gained' = FALSE
               /\ Goes("price")
          ELSE IF stall < StallLimit
          THEN /\ stall' = stall + 1 /\ gained' = (gained \/ falls)
               /\ UNCHANGED <<best, recovered>>
               /\ Goes("price")
          ELSE IF MayRecover
          THEN /\ stall' = 0 /\ gained' = falls /\ recovered' = TRUE
               /\ UNCHANGED best
               /\ Goes("stalled")
          ELSE /\ gained' = (gained \/ falls)
               /\ UNCHANGED <<best, stall, recovered>>
               /\ Finish("NumericalFailure")
    BY DEF Advance
  <2>2. /\ best' \in {"infinite", "finite"} /\ stall' \in 0..StallLimit
        /\ pc' \in PC /\ stage' = stage /\ round' = round
        /\ status' \in {"none", "Cancelled"} \cup Claim \cup Failure
    BY <2>1
  <2>3. infeas' = infeas /\ expand' \in 0..(2 * RefactorFrequency)
    BY DEF Advance, Grown
  <2> QED
    BY <2>2, <2>3 DEF Advance
<1>12. CASE Column
  BY <1>12 DEF Column
<1>13. CASE Thaw
  BY <1>13 DEF Thaw, Finds, Thaws, InPhase1, Returned
<1>14. CASE NoColumn
  BY <1>14 DEF NoColumn, Finds, Thaws, InPhase1, Returned
<1>15. CASE RatioTestFails
  BY <1>15 DEF RatioTestFails, NoBlocker, InPhase1
<1>16. CASE RatioTest
  BY <1>16 DEF RatioTest, FreshAfterPivot
<1>17. CASE Step
  BY <1>17 DEF Step, Degenerate, Progress, Moves, StepIsExact, InPhase1, RefactorsAt, PhaseOneCosts, Truthful
<1>18. CASE SetToken
  BY <1>18 DEF SetToken
<1>19. CASE Finished \/ UNCHANGED vars
  BY <1>19 DEF Finished
<1> QED
  BY <1>1, <1>2, <1>3, <1>4, <1>5, <1>6, <1>7, <1>8, <1>9, <1>10, <1>11, <1>12, <1>13, <1>14,
     <1>15, <1>16, <1>17, <1>18, <1>19 DEF Next, Solver

\* Every step keeps the counters below their limits where the limits are tested.
LEMMA CountStep == TypeOK /\ CountInv /\ [Next]_vars => CountInv'
<1> SUFFICES ASSUME TypeOK /\ CountInv, [Next]_vars PROVE CountInv'
  OBVIOUS
<1> USE OptionsAssumption DEF TypeOK, CountInv
<1>1. CASE Refuse
  BY <1>1 DEF Refuse
<1>2. CASE SetUp
  BY <1>2 DEF SetUp
<1>3. CASE Start
  BY <1>3 DEF Start, Enter, PhaseOneCosts, Truthful
<1>4. CASE Split
  BY <1>4 DEF Split, Enter
<1>5. CASE Judge
  BY <1>5 DEF Judge, Enter
<1>6. CASE Singular
  BY <1>6 DEF Singular, RebuildPC
<1>7. CASE Rebuild
  BY <1>7 DEF Rebuild, RebuildPC, Recomputed, FreshAfter, allow_expand, PhaseOneCosts, Truthful
<1>8. CASE PollCancelled
  BY <1>8 DEF PollCancelled
<1>9. CASE PollLimits
  BY <1>9 DEF PollLimits, OutOfIterations
<1>10. CASE PhaseDone
  BY <1>10 DEF PhaseDone, Polled, OutOfIterations, InPhase1, Returned, EndgameRounds
<1>11. CASE Advance
  BY <1>11 DEF Advance, Polled, OutOfIterations, Grown, allow_expand, InPhase1, PhaseOneCosts,
     Truthful
<1>12. CASE Column
  BY <1>12 DEF Column
<1>13. CASE Thaw
  BY <1>13 DEF Thaw, Finds, Thaws, InPhase1, Returned, EndgameRounds
<1>14. CASE NoColumn
  BY <1>14 DEF NoColumn, Finds, Thaws, InPhase1, Returned, EndgameRounds
<1>15. CASE RatioTestFails
  BY <1>15 DEF RatioTestFails, NoBlocker, InPhase1
<1>16. CASE RatioTest
  BY <1>16 DEF RatioTest, FreshAfterPivot
<1>17. CASE Step
  BY <1>17 DEF Step, Degenerate, Progress, Moves, StepIsExact, InPhase1, RefactorsAt, PhaseOneCosts, Truthful
<1>18. CASE SetToken
  BY <1>18 DEF SetToken
<1>19. CASE Finished \/ UNCHANGED vars
  BY <1>19 DEF Finished
<1> QED
  BY <1>1, <1>2, <1>3, <1>4, <1>5, <1>6, <1>7, <1>8, <1>9, <1>10, <1>11, <1>12, <1>13, <1>14,
     <1>15, <1>16, <1>17, <1>18, <1>19 DEF Next, Solver

\* Every step keeps the round and the running call of iterate() in agreement.
LEMMA StageStep == TypeOK /\ StageInv /\ [Next]_vars => StageInv'
<1> SUFFICES ASSUME TypeOK /\ StageInv, [Next]_vars PROVE StageInv'
  OBVIOUS
<1> USE OptionsAssumption DEF TypeOK, StageInv, Iterating, Verifying
<1>1. CASE Refuse
  BY <1>1 DEF Refuse
<1>2. CASE SetUp
  BY <1>2 DEF SetUp
<1>3. CASE Start
  BY <1>3 DEF Start, Enter, PhaseOneCosts, Truthful
<1>4. CASE Split
  BY <1>4 DEF Split, Enter
<1>5. CASE Judge
  BY <1>5 DEF Judge, Enter
<1>6. CASE Singular
  BY <1>6 DEF Singular, RebuildPC
<1>7. CASE Rebuild
  BY <1>7 DEF Rebuild, RebuildPC, Recomputed, FreshAfter, allow_expand, PhaseOneCosts, Truthful
<1>8. CASE PollCancelled
  BY <1>8 DEF PollCancelled
<1>9. CASE PollLimits
  BY <1>9 DEF PollLimits, OutOfIterations
<1>10. CASE PhaseDone
  BY <1>10 DEF PhaseDone, Polled, OutOfIterations, InPhase1, Returned, EndgameRounds
<1>11. CASE Advance
  BY <1>11 DEF Advance, Polled, OutOfIterations, Grown, allow_expand, InPhase1, PhaseOneCosts,
     Truthful
<1>12. CASE Column
  BY <1>12 DEF Column
<1>13. CASE Thaw
  BY <1>13 DEF Thaw, Finds, Thaws, InPhase1, Returned, EndgameRounds
<1>14. CASE NoColumn
  BY <1>14 DEF NoColumn, Finds, Thaws, InPhase1, Returned, EndgameRounds
<1>15. CASE RatioTestFails
  BY <1>15 DEF RatioTestFails, NoBlocker, InPhase1
<1>16. CASE RatioTest
  BY <1>16 DEF RatioTest, FreshAfterPivot
<1>17. CASE Step
  BY <1>17 DEF Step, Degenerate, Progress, Moves, StepIsExact, InPhase1, RefactorsAt, PhaseOneCosts, Truthful
<1>18. CASE SetToken
  BY <1>18 DEF SetToken
<1>19. CASE Finished \/ UNCHANGED vars
  BY <1>19 DEF Finished
<1> QED
  BY <1>1, <1>2, <1>3, <1>4, <1>5, <1>6, <1>7, <1>8, <1>9, <1>10, <1>11, <1>12, <1>13, <1>14,
     <1>15, <1>16, <1>17, <1>18, <1>19 DEF Next, Solver

\* A step of the simplex method makes its factorization stale before it moves.
LEMMA FreshStep == TypeOK /\ FreshInv /\ [Next]_vars => FreshInv'
<1> SUFFICES ASSUME TypeOK /\ FreshInv, [Next]_vars PROVE FreshInv'
  OBVIOUS
<1> USE OptionsAssumption DEF TypeOK, FreshInv
<1>1. CASE Refuse
  BY <1>1 DEF Refuse
<1>2. CASE SetUp
  BY <1>2 DEF SetUp
<1>3. CASE Start
  BY <1>3 DEF Start, Enter, PhaseOneCosts, Truthful
<1>4. CASE Split
  BY <1>4 DEF Split, Enter
<1>5. CASE Judge
  BY <1>5 DEF Judge, Enter
<1>6. CASE Singular
  BY <1>6 DEF Singular, RebuildPC
<1>7. CASE Rebuild
  BY <1>7 DEF Rebuild, RebuildPC, Recomputed, FreshAfter, allow_expand, PhaseOneCosts, Truthful
<1>8. CASE PollCancelled
  BY <1>8 DEF PollCancelled
<1>9. CASE PollLimits
  BY <1>9 DEF PollLimits, OutOfIterations
<1>10. CASE PhaseDone
  BY <1>10 DEF PhaseDone, Polled, OutOfIterations, InPhase1, Returned, EndgameRounds
<1>11. CASE Advance
  BY <1>11 DEF Advance, Polled, OutOfIterations, Grown, allow_expand, InPhase1, PhaseOneCosts,
     Truthful
<1>12. CASE Column
  BY <1>12 DEF Column
<1>13. CASE Thaw
  BY <1>13 DEF Thaw, Finds, Thaws, InPhase1, Returned, EndgameRounds
<1>14. CASE NoColumn
  BY <1>14 DEF NoColumn, Finds, Thaws, InPhase1, Returned, EndgameRounds
<1>15. CASE RatioTestFails
  BY <1>15 DEF RatioTestFails, NoBlocker, InPhase1
<1>16. CASE RatioTest
  BY <1>16 DEF RatioTest, FreshAfterPivot
<1>17. CASE Step
  BY <1>17 DEF Step, Degenerate, Progress, Moves, StepIsExact, InPhase1, RefactorsAt, PhaseOneCosts, Truthful
<1>18. CASE SetToken
  BY <1>18 DEF SetToken
<1>19. CASE Finished \/ UNCHANGED vars
  BY <1>19 DEF Finished
<1> QED
  BY <1>1, <1>2, <1>3, <1>4, <1>5, <1>6, <1>7, <1>8, <1>9, <1>10, <1>11, <1>12, <1>13, <1>14,
     <1>15, <1>16, <1>17, <1>18, <1>19 DEF Next, Solver

\* Whatever computes a point computes its Phase I costs with it, or the lag is noted.
LEMMA TruthStep == TypeOK /\ FreshInv /\ TruthInv /\ [Next]_vars => TruthInv'
<1> SUFFICES ASSUME TypeOK /\ FreshInv /\ TruthInv, [Next]_vars PROVE TruthInv'
  OBVIOUS
<1> USE OptionsAssumption DEF TypeOK, FreshInv, TruthInv
<1>1. CASE Refuse
  BY <1>1 DEF Refuse
<1>2. CASE SetUp
  BY <1>2 DEF SetUp
<1>3. CASE Start
  BY <1>3 DEF Start, Enter, PhaseOneCosts, Truthful
<1>4. CASE Split
  BY <1>4 DEF Split, Enter
<1>5. CASE Judge
  BY <1>5 DEF Judge, Enter
<1>6. CASE Singular
  BY <1>6 DEF Singular, RebuildPC
<1>7. CASE Rebuild
  <2> USE <1>7
  <2>1. CASE exact
    BY <2>1 DEF Rebuild, Recomputed, RebuildPC
  <2>2. CASE ~exact
    <3>1. /\ ~lagging
          /\ exact' = TRUE
          /\ lagging' = (pc = "stalled")
          /\ infeas' \in Violation /\ infeas' >= least
      BY <2>2 DEF Rebuild, Recomputed
    <3>2. CASE pc = "stalled"
      <4>1. lagging' /\ least' = least
        BY <3>1, <3>2 DEF Rebuild
      <4> QED
        BY <3>1, <4>1
    <3>3. CASE pc # "stalled"
      <4>1. repairable' \in {r \in BOOLEAN : Truthful(infeas', r) /\ (infeas' = Feasible => ~r)}
        BY <2>2, <3>1, <3>3 DEF Rebuild, Recomputed, PhaseOneCosts
      <4>2. ~repairable' => infeas' <= least
        BY <3>1, <4>1 DEF Truthful, Rebuild
      <4> QED
        BY <3>1, <3>3, <4>2 DEF Rebuild
    <3> QED
      BY <3>2, <3>3
  <2> QED
    BY <2>1, <2>2
<1>8. CASE PollCancelled
  BY <1>8 DEF PollCancelled
<1>9. CASE PollLimits
  BY <1>9 DEF PollLimits, OutOfIterations
<1>10. CASE PhaseDone
  BY <1>10 DEF PhaseDone, Polled, OutOfIterations, InPhase1, Returned, EndgameRounds
<1>11. CASE Advance
  <2> USE <1>11
  <2>1. CASE lagging
    <3>1. /\ repairable' \in {r \in BOOLEAN : Truthful(infeas, r) /\ (infeas = Feasible => ~r)}
          /\ lagging' = FALSE /\ infeas' = infeas /\ exact' = exact
      BY <2>1 DEF Advance, PhaseOneCosts
    <3>2. infeas >= least /\ (~repairable' => infeas <= least)
      BY <3>1 DEF Truthful
    <3> QED
      BY <3>1, <3>2 DEF Advance
  <2>2. CASE ~lagging
    BY <2>2 DEF Advance, Polled
  <2> QED
    BY <2>1, <2>2
<1>12. CASE Column
  BY <1>12 DEF Column
<1>13. CASE Thaw
  BY <1>13 DEF Thaw, Finds, Thaws, InPhase1, Returned, EndgameRounds
<1>14. CASE NoColumn
  BY <1>14 DEF NoColumn, Finds, Thaws, InPhase1, Returned, EndgameRounds
<1>15. CASE RatioTestFails
  BY <1>15 DEF RatioTestFails, NoBlocker, InPhase1
<1>16. CASE RatioTest
  BY <1>16 DEF RatioTest, FreshAfterPivot
<1>17. CASE Step
  <2> USE <1>17
  <2>1. lagging' = FALSE /\ infeas' \in Violation /\ least' = least /\ drift' = drift
    BY DEF Step, Moves
  <2>2. exact' => repairable' \in {r \in BOOLEAN : Truthful(infeas', r)
                                                /\ (infeas' = Feasible => ~r)}
    BY DEF Step, Moves, PhaseOneCosts
  <2>3. exact' => infeas' >= least /\ (~repairable' => infeas' <= least)
    BY <2>1, <2>2 DEF Truthful
  <2> QED
    BY <2>1, <2>3
<1>18. CASE SetToken
  BY <1>18 DEF SetToken
<1>19. CASE Finished \/ UNCHANGED vars
  BY <1>19 DEF Finished
<1> QED
  BY <1>1, <1>2, <1>3, <1>4, <1>5, <1>6, <1>7, <1>8, <1>9, <1>10, <1>11, <1>12, <1>13, <1>14,
     <1>15, <1>16, <1>17, <1>18, <1>19 DEF Next, Solver

\* Repairs precede polishes, and neither leaves a residue.
LEMMA EndgameStep == TypeOK /\ StageInv /\ TruthInv /\ EndgameInv /\ [Next]_vars => EndgameInv'
<1> SUFFICES ASSUME TypeOK /\ StageInv /\ TruthInv /\ EndgameInv, [Next]_vars PROVE EndgameInv'
  OBVIOUS
<1> USE OptionsAssumption DEF TypeOK, StageInv, TruthInv, EndgameInv, Iterating, Verifying
<1>1. CASE Refuse
  BY <1>1 DEF Refuse
<1>2. CASE SetUp
  BY <1>2 DEF SetUp
<1>3. CASE Start
  BY <1>3 DEF Start, Enter, PhaseOneCosts, Truthful
<1>4. CASE Split
  BY <1>4 DEF Split, Enter
<1>5. CASE Judge
  BY <1>5 DEF Judge, Enter
<1>6. CASE Singular
  BY <1>6 DEF Singular, RebuildPC
<1>7. CASE Rebuild
  BY <1>7 DEF Rebuild, RebuildPC, Recomputed, FreshAfter, allow_expand, PhaseOneCosts, Truthful
<1>8. CASE PollCancelled
  BY <1>8 DEF PollCancelled
<1>9. CASE PollLimits
  BY <1>9 DEF PollLimits, OutOfIterations
<1>10. CASE PhaseDone
  BY <1>10 DEF PhaseDone, Polled, OutOfIterations, InPhase1, Returned, EndgameRounds
<1>11. CASE Advance
  BY <1>11 DEF Advance, Polled, OutOfIterations, Grown, allow_expand, InPhase1, PhaseOneCosts,
     Truthful
<1>12. CASE Column
  BY <1>12 DEF Column
<1>13. CASE Thaw
  BY <1>13 DEF Thaw, Finds, Thaws, InPhase1, Returned, EndgameRounds
<1>14. CASE NoColumn
  BY <1>14 DEF NoColumn, Finds, Thaws, InPhase1, Returned, EndgameRounds
<1>15. CASE RatioTestFails
  BY <1>15 DEF RatioTestFails, NoBlocker, InPhase1
<1>16. CASE RatioTest
  BY <1>16 DEF RatioTest, FreshAfterPivot
<1>17. CASE Step
  BY <1>17 DEF Step, Degenerate, Progress, Moves, StepIsExact, InPhase1, RefactorsAt, PhaseOneCosts, Truthful
<1>18. CASE SetToken
  BY <1>18 DEF SetToken
<1>19. CASE Finished \/ UNCHANGED vars
  BY <1>19 DEF Finished
<1> QED
  BY <1>1, <1>2, <1>3, <1>4, <1>5, <1>6, <1>7, <1>8, <1>9, <1>10, <1>11, <1>12, <1>13, <1>14,
     <1>15, <1>16, <1>17, <1>18, <1>19 DEF Next, Solver

\* Unboundedness is claimed after a second failure of the ratio test only.
LEMMA UnboundedStep == TypeOK /\ FreshInv /\ UnboundedIsSound /\ [Next]_vars => UnboundedIsSound'
<1> SUFFICES ASSUME TypeOK /\ FreshInv /\ UnboundedIsSound, [Next]_vars PROVE UnboundedIsSound'
  OBVIOUS
<1> USE OptionsAssumption DEF TypeOK, FreshInv, UnboundedIsSound
<1>1. CASE Refuse
  BY <1>1 DEF Refuse
<1>2. CASE SetUp
  BY <1>2 DEF SetUp
<1>3. CASE Start
  BY <1>3 DEF Start, Enter, PhaseOneCosts, Truthful
<1>4. CASE Split
  BY <1>4 DEF Split, Enter
<1>5. CASE Judge
  BY <1>5 DEF Judge, Enter
<1>6. CASE Singular
  BY <1>6 DEF Singular, RebuildPC
<1>7. CASE Rebuild
  BY <1>7 DEF Rebuild, RebuildPC, Recomputed, FreshAfter, allow_expand, PhaseOneCosts, Truthful
<1>8. CASE PollCancelled
  BY <1>8 DEF PollCancelled
<1>9. CASE PollLimits
  BY <1>9 DEF PollLimits, OutOfIterations
<1>10. CASE PhaseDone
  BY <1>10 DEF PhaseDone, Polled, OutOfIterations, InPhase1, Returned, EndgameRounds
<1>11. CASE Advance
  BY <1>11 DEF Advance, Polled, OutOfIterations, Grown, allow_expand, InPhase1, PhaseOneCosts,
     Truthful
<1>12. CASE Column
  BY <1>12 DEF Column
<1>13. CASE Thaw
  BY <1>13 DEF Thaw, Finds, Thaws, InPhase1, Returned, EndgameRounds
<1>14. CASE NoColumn
  BY <1>14 DEF NoColumn, Finds, Thaws, InPhase1, Returned, EndgameRounds
<1>15. CASE RatioTestFails
  BY <1>15 DEF RatioTestFails, NoBlocker, InPhase1
<1>16. CASE RatioTest
  BY <1>16 DEF RatioTest, FreshAfterPivot
<1>17. CASE Step
  BY <1>17 DEF Step, Degenerate, Progress, Moves, StepIsExact, InPhase1, RefactorsAt, PhaseOneCosts, Truthful
<1>18. CASE SetToken
  BY <1>18 DEF SetToken
<1>19. CASE Finished \/ UNCHANGED vars
  BY <1>19 DEF Finished
<1> QED
  BY <1>1, <1>2, <1>3, <1>4, <1>5, <1>6, <1>7, <1>8, <1>9, <1>10, <1>11, <1>12, <1>13, <1>14,
     <1>15, <1>16, <1>17, <1>18, <1>19 DEF Next, Solver

\* Phase I ends where no column improves costs that are those of the point.
LEMMA LeastStep == TypeOK /\ TruthInv /\ PhaseOneEndsAtLeast /\ [Next]_vars => PhaseOneEndsAtLeast'
<1> SUFFICES ASSUME TypeOK /\ TruthInv /\ PhaseOneEndsAtLeast, [Next]_vars PROVE PhaseOneEndsAtLeast'
  OBVIOUS
<1> USE OptionsAssumption DEF TypeOK, TruthInv, PhaseOneEndsAtLeast
<1>1. CASE Refuse
  BY <1>1 DEF Refuse
<1>2. CASE SetUp
  BY <1>2 DEF SetUp
<1>3. CASE Start
  BY <1>3 DEF Start, Enter, PhaseOneCosts, Truthful
<1>4. CASE Split
  BY <1>4 DEF Split, Enter
<1>5. CASE Judge
  BY <1>5 DEF Judge, Enter
<1>6. CASE Singular
  BY <1>6 DEF Singular, RebuildPC
<1>7. CASE Rebuild
  BY <1>7 DEF Rebuild, RebuildPC, Recomputed, FreshAfter, allow_expand, PhaseOneCosts, Truthful
<1>8. CASE PollCancelled
  BY <1>8 DEF PollCancelled
<1>9. CASE PollLimits
  BY <1>9 DEF PollLimits, OutOfIterations
<1>10. CASE PhaseDone
  BY <1>10 DEF PhaseDone, Polled, OutOfIterations, InPhase1, Returned, EndgameRounds
<1>11. CASE Advance
  BY <1>11 DEF Advance, Polled, OutOfIterations, Grown, allow_expand, InPhase1, PhaseOneCosts,
     Truthful
<1>12. CASE Column
  BY <1>12 DEF Column
<1>13. CASE Thaw
  BY <1>13 DEF Thaw, Finds, Thaws, InPhase1, Returned, EndgameRounds
<1>14. CASE NoColumn
  BY <1>14 DEF NoColumn, Finds, Thaws, InPhase1, Returned, EndgameRounds
<1>15. CASE RatioTestFails
  BY <1>15 DEF RatioTestFails, NoBlocker, InPhase1
<1>16. CASE RatioTest
  BY <1>16 DEF RatioTest, FreshAfterPivot
<1>17. CASE Step
  BY <1>17 DEF Step, Degenerate, Progress, Moves, StepIsExact, InPhase1, RefactorsAt, PhaseOneCosts, Truthful
<1>18. CASE SetToken
  BY <1>18 DEF SetToken
<1>19. CASE Finished \/ UNCHANGED vars
  BY <1>19 DEF Finished
<1> QED
  BY <1>1, <1>2, <1>3, <1>4, <1>5, <1>6, <1>7, <1>8, <1>9, <1>10, <1>11, <1>12, <1>13, <1>14,
     <1>15, <1>16, <1>17, <1>18, <1>19 DEF Next, Solver

\* Optimality is claimed by a round of the endgame, never by the end of the rounds.
LEMMA OptimumStep == TypeOK /\ StageInv /\ EndgameInv /\ OptimumIsVerified /\ [Next]_vars => OptimumIsVerified'
<1> SUFFICES ASSUME TypeOK /\ StageInv /\ EndgameInv /\ OptimumIsVerified, [Next]_vars PROVE OptimumIsVerified'
  OBVIOUS
<1> USE OptionsAssumption DEF TypeOK, StageInv, EndgameInv, OptimumIsVerified, Iterating, Verifying
<1>1. CASE Refuse
  BY <1>1 DEF Refuse
<1>2. CASE SetUp
  BY <1>2 DEF SetUp
<1>3. CASE Start
  BY <1>3 DEF Start, Enter, PhaseOneCosts, Truthful
<1>4. CASE Split
  BY <1>4 DEF Split, Enter
<1>5. CASE Judge
  BY <1>5 DEF Judge, Enter
<1>6. CASE Singular
  BY <1>6 DEF Singular, RebuildPC
<1>7. CASE Rebuild
  BY <1>7 DEF Rebuild, RebuildPC, Recomputed, FreshAfter, allow_expand, PhaseOneCosts, Truthful
<1>8. CASE PollCancelled
  BY <1>8 DEF PollCancelled
<1>9. CASE PollLimits
  BY <1>9 DEF PollLimits, OutOfIterations
<1>10. CASE PhaseDone
  BY <1>10 DEF PhaseDone, Polled, OutOfIterations, InPhase1, Returned, EndgameRounds
<1>11. CASE Advance
  BY <1>11 DEF Advance, Polled, OutOfIterations, Grown, allow_expand, InPhase1, PhaseOneCosts,
     Truthful
<1>12. CASE Column
  BY <1>12 DEF Column
<1>13. CASE Thaw
  BY <1>13 DEF Thaw, Finds, Thaws, InPhase1, Returned, EndgameRounds
<1>14. CASE NoColumn
  BY <1>14 DEF NoColumn, Finds, Thaws, InPhase1, Returned, EndgameRounds
<1>15. CASE RatioTestFails
  BY <1>15 DEF RatioTestFails, NoBlocker, InPhase1
<1>16. CASE RatioTest
  BY <1>16 DEF RatioTest, FreshAfterPivot
<1>17. CASE Step
  BY <1>17 DEF Step, Degenerate, Progress, Moves, StepIsExact, InPhase1, RefactorsAt, PhaseOneCosts, Truthful
<1>18. CASE SetToken
  BY <1>18 DEF SetToken
<1>19. CASE Finished \/ UNCHANGED vars
  BY <1>19 DEF Finished
<1> QED
  BY <1>1, <1>2, <1>3, <1>4, <1>5, <1>6, <1>7, <1>8, <1>9, <1>10, <1>11, <1>12, <1>13, <1>14,
     <1>15, <1>16, <1>17, <1>18, <1>19 DEF Next, Solver

\* A step changes the solver's status, place and token as the contract of an
\* engine allows, or not at all.
LEMMA ContractStep ==
  TypeOK /\ StageInv /\ [Next]_vars => [Contract!Next]_(Contract!vars)
<1> SUFFICES ASSUME TypeOK, StageInv, [Next]_vars
             PROVE  [Contract!Next]_(Contract!vars)
  OBVIOUS
<1> DEFINE
  Where(p) == CASE p \in {"setup", "factor"} -> "setup"
                [] p = "poll" -> "poll"
                [] p = "done" -> "done"
                [] OTHER -> "step"
<1> USE DEF TypeOK, StageInv, PC, RebuildPC
<1>0. status # "none" => pc = "done"
  OBVIOUS
<1>a. ASSUME pc \in {"setup", "factor"}, UNCHANGED <<cancelled, status>>,
             pc' \in {"factor", "poll"}
      PROVE  [Contract!Next]_(Contract!vars)
  BY <1>a DEF Contract!Next, Contract!Begin, Contract!GoesOn, Contract!vars
<1>b. ASSUME pc \in PC \ {"setup", "factor", "poll", "done"},
             UNCHANGED <<cancelled, status>>,
             pc' \in PC \ {"setup", "factor", "done"}
      PROVE  [Contract!Next]_(Contract!vars)
  BY <1>b DEF Contract!Next, Contract!Continue, Contract!GoesOn, Contract!vars
<1>c. ASSUME pc \in PC \ {"setup", "factor", "poll", "done"}, UNCHANGED cancelled,
             pc' = "done", status' \in Claim \cup Failure
      PROVE  [Contract!Next]_(Contract!vars)
  BY <1>c DEF Contract!Next, Contract!Conclude, Contract!Ends
<1>d. ASSUME pc = "poll", ~cancelled, UNCHANGED <<cancelled, status>>,
             pc' \in PC \ {"setup", "factor", "poll", "done"}
      PROVE  [Contract!Next]_(Contract!vars)
  BY <1>d DEF Contract!Next, Contract!Proceed, Contract!GoesOn
<1>e. ASSUME pc = "poll", ~cancelled, UNCHANGED cancelled,
             pc' = "done", status' \in Claim \cup Failure
      PROVE  [Contract!Next]_(Contract!vars)
  BY <1>e DEF Contract!Next, Contract!Expire, Contract!Ends
<1>1. CASE Refuse
  BY <1>1 DEF Refuse, Failure, Contract!Next, Contract!Refuse, Contract!Ends
<1>2. CASE SetUp
  BY <1>2, <1>a DEF SetUp
<1>3. CASE Start
  BY <1>3, <1>a DEF Start, Enter
<1>4. CASE Split
  BY <1>4, <1>b, <1>c DEF Split, Enter, Claim
<1>5. CASE Judge
  BY <1>5, <1>b, <1>c DEF Judge, Enter, Claim
<1>6. CASE Singular
  BY <1>6, <1>c DEF Singular, Failure
<1>7. CASE Rebuild
  BY <1>7, <1>b DEF Rebuild
<1>8. CASE PollCancelled
  BY <1>8 DEF PollCancelled, Contract!Next, Contract!Heed, Contract!Ends
<1>9. CASE PollLimits
  BY <1>9, <1>e DEF PollLimits, Failure
<1>10. CASE PhaseDone
  BY <1>10, <1>d, <1>e DEF PhaseDone, Polled, Returned, Claim
<1>11. CASE Advance
  BY <1>11, <1>d, <1>e DEF Advance, Polled, Failure
<1>12. CASE Column
  BY <1>12, <1>b DEF Column
<1>13. CASE Thaw
  BY <1>13, <1>b, <1>c DEF Thaw, Returned, Claim
<1>14. CASE NoColumn
  BY <1>14, <1>b, <1>c DEF NoColumn, Returned, Claim
<1>15. CASE RatioTestFails
  BY <1>15, <1>b, <1>c DEF RatioTestFails, Claim, Failure
<1>16. CASE RatioTest
  BY <1>16, <1>b DEF RatioTest
<1>17. CASE Step
  BY <1>17, <1>b DEF Step
<1>18. CASE SetToken
  BY <1>18 DEF SetToken, Contract!Next, Contract!SetToken
<1>19. CASE Finished \/ UNCHANGED vars
  BY <1>19 DEF Finished, Contract!vars
<1> QED
  BY <1>1, <1>2, <1>3, <1>4, <1>5, <1>6, <1>7, <1>8, <1>9, <1>10, <1>11, <1>12, <1>13,
     <1>14, <1>15, <1>16, <1>17, <1>18, <1>19 DEF Next, Solver

-----------------------------------------------------------------------------
\* The invariant holds when the solver is called.
LEMMA InitInv == Init => SimplexInv
<1> SUFFICES ASSUME Init PROVE SimplexInv
  OBVIOUS
<1>1. TypeOK
  <2>1. FlagTypes
    BY DEF Init, FlagTypes
  <2>2. OtherTypes
    BY OptionsAssumption DEF Init, OtherTypes, PC, Stage, EndgameRounds
  <2> QED
    BY <2>1, <2>2 DEF TypeOK, FlagTypes, OtherTypes
<1>2. CountInv /\ StageInv
  BY OptionsAssumption DEF Init, CountInv, StageInv, Iterating, Verifying
<1>3. FreshInv /\ TruthInv /\ EndgameInv
  BY DEF Init, FreshInv, TruthInv, EndgameInv
<1>4. UnboundedIsSound /\ PhaseOneEndsAtLeast /\ OptimumIsVerified
  BY DEF Init, UnboundedIsSound, PhaseOneEndsAtLeast, OptimumIsVerified
<1> QED
  BY <1>1, <1>2, <1>3, <1>4 DEF SimplexInv

\* SimplexInv is an inductive invariant of the solver.
THEOREM Invariance == Spec => []SimplexInv
<1>1. SimplexInv /\ [Next]_vars => SimplexInv'
  <2> SUFFICES ASSUME SimplexInv, [Next]_vars PROVE SimplexInv'
    OBVIOUS
  <2>1. TypeOK'
    BY FlagsStep, OthersStep DEF SimplexInv, TypeOK, FlagTypes, OtherTypes
  <2> QED
    BY <2>1, CountStep, StageStep, FreshStep, TruthStep, EndgameStep,
       UnboundedStep, LeastStep, OptimumStep DEF SimplexInv
<1> QED
  BY InitInv, <1>1, PTL DEF Spec

\* The solver's variables keep their types: its counters stay below their
\* limits, whatever values the options give them.
THEOREM SimplexTypeCorrect == Spec => []TypeOK
BY Invariance, PTL DEF SimplexInv

\* Unbounded is returned for problems with an unbounded ray only, however
\* much the numbers drift.
THEOREM UnboundedSound == Spec => []UnboundedIsSound
BY Invariance, PTL DEF SimplexInv

\* Phase I ends at a point that is as little infeasible as any, although its
\* costs may be frozen, unless a residue is or was left.
THEOREM PhaseOneDecisive == Spec => []PhaseOneEndsAtLeast
BY Invariance, PTL DEF SimplexInv

\* Without drift, Optimal is returned at verified optima only.
THEOREM OptimumVerified == Spec => []OptimumIsVerified
BY Invariance, PTL DEF SimplexInv

\* The ratio tests of the endgame relax nothing.
THEOREM EndgameExact == Spec => []EndgameIsExact
<1>1. StageInv => EndgameIsExact
  BY DEF StageInv, EndgameIsExact
<1> QED
  BY <1>1, Invariance, PTL DEF SimplexInv

\* The solver keeps the contract a race relies on: it ends cancelled at the
\* first poll that finds its token set, and never without a poll otherwise
\* than by a status of its own.
THEOREM SimplexImplementsEngine == Spec => ImplementsEngine
<1>1. Init => Contract!Init
  BY DEF Init, Contract!Init
<1>2. SimplexInv => TypeOK /\ StageInv
  BY DEF SimplexInv
<1> QED
  BY <1>1, <1>2, Invariance, ContractStep, PTL DEF Spec, ImplementsEngine, Contract!Spec

-----------------------------------------------------------------------------
(* The loop of the first-order engine *)

\* How far the loop is, and which iterations are in the sums: before an
\* iteration all since the restart but the one to come, after it that one too.
\* The sums of a window that has just begun are left over from the last one.
PdhgLoopInv ==
  /\ pc = "setup" => iterations = 0
  /\ pc \in {"poll", "next", "check"} => iterations < max_iterations
  /\ pc # "done" => restarts <= iterations /\ window <= iterations
  /\ pc \in {"setup", "poll"} =>
       /\ since_restart = iterations - window
       /\ since_restart > 0 => sums = window..(iterations - 1)
  /\ pc \in {"next", "check"} =>
       /\ since_restart = iterations - window + 1
       /\ sums = window..iterations

\* The status and the point are set once, when the loop is left.
PdhgEndInv ==
  /\ status # "none" <=> pc = "done"
  /\ pc # "done" => best_x = P!NoPoint

PdhgInv ==
  /\ P!OptionsAssumption
  /\ P!TypeOK /\ PdhgLoopInv /\ PdhgEndInv
  /\ P!OptimumWasOffered /\ P!PointUnlessBroken /\ P!RestartsGain

-----------------------------------------------------------------------------
\* A point is not NoPoint, and those the loop makes are points.
LEMMA Points ==
  /\ P!NoPoint \notin P!Point
  /\ \A k \in P!Iteration : P!Iterate(k) \in P!Point /\ P!Average(k) \in P!Point
  /\ P!Projection \in P!Point
BY DEF P!Point, P!NoPoint, P!Iterate, P!Average, P!Projection

\* Whatever is measured is a residual.
LEMMA MeasuredResiduals == P!OptionsAssumption => P!Measured \subseteq P!Residual
BY DEF P!OptionsAssumption, P!Measured, P!Residual, P!Infinite

\* The invariant of the first-order loop holds before the loop.
LEMMA PdhgInitInv == P!OptionsAssumption /\ P!Init => PdhgInv
<1> SUFFICES ASSUME P!OptionsAssumption, P!Init PROVE PdhgInv
  OBVIOUS
<1> USE DEF P!OptionsAssumption, P!Init
<1>1. P!TypeOK
  BY Points DEF P!TypeOK, P!Iteration, P!Residual, P!Infinite
<1>2. PdhgLoopInv /\ PdhgEndInv /\ P!OptimumWasOffered /\ P!PointUnlessBroken
  BY DEF PdhgLoopInv, PdhgEndInv, P!OptimumWasOffered, P!PointUnlessBroken
<1>3. P!RestartsGain
  BY DEF P!RestartsGain
<1> QED
  BY <1>1, <1>2, <1>3 DEF PdhgInv

-----------------------------------------------------------------------------
\* Leaving the loop yields a point and a status.
LEMMA PdhgFinishType ==
  ASSUME NEW s \in {"Cancelled"} \cup P!Claim \cup P!Failure,
         NEW p \in P!Point \cup {P!NoPoint}, x' \in P!Point, P!Finish(s, p)
  PROVE  /\ pc' = "done" /\ status' = s
         /\ best_x' \in P!Point /\ best_x' = (IF p = P!NoPoint THEN x' ELSE p)
BY Points DEF P!Finish, P!Filled

\* The loop's increment keeps the types.
LEMMA PdhgNextIterationType ==
  ASSUME PdhgInv, pc \in {"next", "check"}, x' \in P!Point, P!NextIteration
  PROVE  /\ iterations' = iterations + 1 /\ iterations' \in P!Iteration
         /\ \/ /\ pc' = "poll" /\ iterations' < max_iterations
               /\ UNCHANGED <<best_x, status>>
            \/ pc' = "done" /\ status' = "IterationLimit" /\ best_x' = x'
<1>1. iterations' = iterations + 1 /\ iterations' \in P!Iteration
  BY DEF P!OptionsAssumption, PdhgInv, P!TypeOK, PdhgLoopInv, P!Iteration, P!NextIteration
<1>2. CASE P!InBudget(iterations')
  BY <1>1, <1>2 DEF P!NextIteration, P!InBudget, P!result
<1>3. CASE ~P!InBudget(iterations')
  BY <1>1, <1>3, Points DEF P!NextIteration, P!Finish, P!Filled
<1> QED
  BY <1>1, <1>2, <1>3

\* What a check that goes on does to the point and to the window.
LEMMA PdhgProceedStep ==
  ASSUME PdhgInv, P!Proceed
  PROVE  /\ x' \in P!Point /\ offered' \in P!Point
         /\ residual_at_last_restart' \in P!Residual
         /\ UNCHANGED <<sums, finite, matrix, cancelled>>
         /\ \/ UNCHANGED <<since_restart, window, restarts>>
            \/ /\ since_restart' = 0 /\ window' = iterations + 1
               /\ restarts' = restarts + 1
<1> USE DEF PdhgInv, P!TypeOK
<1>1. PICK current \in P!Measured, average \in P!Measured :
        /\ offered' = P!Candidate(average, current)
        /\ IF P!Decreased(average, P!Seeded(current))
           THEN P!Restart(average)
           ELSE /\ residual_at_last_restart' = P!Seeded(current)
                /\ UNCHANGED <<x, sums, since_restart, window, restarts>>
  BY DEF P!Proceed
<1>2. offered' \in P!Point
  BY <1>1, Points DEF P!Candidate
<1>3. UNCHANGED <<finite, matrix, cancelled>>
  BY DEF P!Proceed
<1>4. CASE P!Restart(average)
  BY <1>1, <1>2, <1>3, <1>4, Points, MeasuredResiduals DEF P!Restart, P!WindowReset
<1>5. CASE ~P!Restart(average)
  BY <1>1, <1>2, <1>3, <1>5, MeasuredResiduals DEF P!Seeded
<1> QED
  BY <1>4, <1>5

\* Every step of it keeps the types.
LEMMA PdhgTypeStep == ASSUME PdhgInv, [P!Next]_(P!vars) PROVE P!TypeOK'
<1> USE DEF P!OptionsAssumption, PdhgInv, P!TypeOK, P!Claim, P!Failure
<1>1. CASE P!SetToken
  BY <1>1 DEF P!SetToken, P!averaging, P!result
<1>2. CASE P!Refuse
  BY <1>2 DEF P!Refuse, P!Abandon, P!averaging
<1>3. CASE P!Begin
  <2>1. UNCHANGED <<matrix, iterations, x, finite, P!averaging, offered, cancelled>>
    BY <1>3 DEF P!Begin
  <2>2. CASE P!InBudget(0)
    BY <1>3, <2>1, <2>2 DEF P!Begin, P!averaging, P!result
  <2>3. CASE ~P!InBudget(0)
    BY <1>3, <2>1, <2>3, PdhgFinishType DEF P!Begin, P!averaging
  <2> QED
    BY <2>2, <2>3
<1>4. CASE P!PollCancelled
  BY <1>4, PdhgFinishType DEF P!PollCancelled, P!averaging
<1>5. CASE P!PollTimesOut
  BY <1>5, PdhgFinishType DEF P!PollTimesOut, P!averaging
<1>6. CASE P!Advance
  <2>1. iterations < max_iterations /\ iterations \in P!Iteration
    BY <1>6 DEF P!Advance, PdhgLoopInv
  <2>2. x' \in P!Point
    BY <1>6, Points DEF P!Advance
  <2>3. sums' \subseteq P!Iteration
    BY <1>6 DEF P!Advance
  <2>4. since_restart' \in 0..max_iterations
    BY <1>6, <2>1 DEF P!Advance, PdhgLoopInv, P!Iteration
  <2>5. finite' \in BOOLEAN
    BY <1>6 DEF P!Advance
  <2>6. pc' \in {"next", "check"}
    BY <1>6 DEF P!Advance
  <2> QED
    BY <1>6, <2>2, <2>3, <2>4, <2>5, <2>6 DEF P!Advance, P!result
<1>7. CASE P!Continue
  <2>1. UNCHANGED <<matrix, x, finite, P!averaging, offered, cancelled>> /\ pc = "next"
    BY <1>7 DEF P!Continue
  <2> QED
    BY <1>7, <2>1, PdhgNextIterationType DEF P!Continue, P!averaging
<1>8. CASE P!BreakDown
  BY <1>8 DEF P!BreakDown, P!Abandon, P!averaging
<1>9. CASE P!Converge
  <2>1. offered' \in P!Point
    BY <1>9, Points DEF P!Converge, P!Candidate
  <2>2. iterations' \in P!Iteration
    BY <1>9 DEF P!Converge, PdhgLoopInv, P!Iteration
  <2>3. UNCHANGED <<matrix, x, finite, P!averaging, cancelled>> /\ P!Finish("Optimal", offered')
    BY <1>9 DEF P!Converge
  <2> QED
    BY <2>1, <2>2, <2>3, PdhgFinishType DEF P!averaging
<1>10. CASE P!Proceed
  <2>1. pc = "check" /\ P!NextIteration
    BY <1>10 DEF P!Proceed
  <2>2. restarts' \in 0..max_iterations /\ since_restart' \in 0..max_iterations
        /\ window' \in P!Iteration
    BY <1>10, <2>1, PdhgProceedStep DEF PdhgLoopInv, P!Iteration
  <2> QED
    BY <1>10, <2>1, <2>2, PdhgProceedStep, PdhgNextIterationType
<1>11. CASE P!Finished \/ UNCHANGED P!vars
  BY <1>11 DEF P!Finished, P!vars, P!averaging, P!result
<1> QED
  BY <1>1, <1>2, <1>3, <1>4, <1>5, <1>6, <1>7, <1>8, <1>9, <1>10, <1>11 DEF P!Next

\* The sums are those of the window: an iteration joins them or, as the first
\* one of a window, replaces them.
LEMMA PdhgLoopStep == ASSUME PdhgInv, [P!Next]_(P!vars) PROVE PdhgLoopInv'
<1> USE DEF P!OptionsAssumption, PdhgInv, P!TypeOK, PdhgLoopInv, P!Iteration
<1>1. CASE P!SetToken \/ P!Finished \/ UNCHANGED P!vars
  BY <1>1 DEF P!SetToken, P!Finished, P!vars, P!averaging, P!result
<1>2. CASE P!Refuse \/ P!PollCancelled \/ P!PollTimesOut \/ P!BreakDown \/ P!Converge
  BY <1>2 DEF P!Refuse, P!PollCancelled, P!PollTimesOut, P!BreakDown, P!Converge, P!Abandon, P!Finish
<1>3. CASE P!Begin
  BY <1>3 DEF P!Begin, P!InBudget, P!Finish, P!averaging
<1>4. CASE P!Advance
  <2>1. since_restart' = iterations - window + 1 /\ pc' \in {"next", "check"}
        /\ UNCHANGED <<iterations, window, restarts>>
    BY <1>4 DEF P!Advance
  <2>2. sums' = window..iterations
    <3>1. CASE since_restart = 0
      BY <1>4, <3>1 DEF P!Advance
    <3>2. CASE since_restart # 0
      <4>1. sums' = (window..(iterations - 1)) \cup {iterations} /\ window <= iterations
        BY <1>4, <3>2 DEF P!Advance
      <4> QED
        BY <4>1
    <3> QED
      BY <3>1, <3>2
  <2> QED
    BY <1>4, <2>1, <2>2 DEF P!Advance
<1>5. CASE P!Continue
  <2>1. UNCHANGED <<x, sums, since_restart, window, restarts>> /\ pc = "next"
    BY <1>5 DEF P!Continue, P!averaging
  <2> QED
    BY <1>5, <2>1, PdhgNextIterationType DEF P!Continue
<1>6. CASE P!Proceed
  <2>1. pc = "check" /\ P!NextIteration
    BY <1>6 DEF P!Proceed
  <2> QED
    BY <1>6, <2>1, PdhgProceedStep, PdhgNextIterationType
<1> QED
  BY <1>1, <1>2, <1>3, <1>4, <1>5, <1>6 DEF P!Next

\* The powers of two of the loop's module are the lemmas'.
LEMMA Halvings ==
  /\ P!Power(2, 0) = 1
  /\ \A k \in Nat : P!Power(2, k) \in Nat \ {0} /\ P!Power(2, k + 1) = 2 * P!Power(2, k)
<1>1. \A k : P!Power(2, k) = Power(2, k)
  BY DEF P!Power, Power
<1>2. 2 \in Nat \ {0}
  OBVIOUS
<1> QED
  BY <1>1, <1>2, PowerSteps, PowerType

\* A restart needs an average of at most half the residual of the last one,
\* which later checks leave alone.
LEMMA PdhgGainStep == ASSUME PdhgInv, [P!Next]_(P!vars) PROVE P!RestartsGain'
<1> USE DEF P!OptionsAssumption, PdhgInv, P!TypeOK, P!RestartsGain
<1>1. CASE UNCHANGED <<restarts, residual_at_last_restart>>
  BY <1>1
<1>2. CASE P!Proceed
  <2>1. PICK current \in P!Measured, average \in P!Measured :
          /\ P!is_finite(current)
          /\ IF P!Decreased(average, P!Seeded(current))
             THEN P!Restart(average)
             ELSE /\ residual_at_last_restart' = P!Seeded(current)
                  /\ UNCHANGED <<x, sums, since_restart, window, restarts>>
    BY <1>2 DEF P!Proceed
  <2>2. /\ current \in Nat /\ average \in Nat /\ residual_at_last_restart \in Nat
        /\ restarts \in Nat /\ TopResidual \in Nat
    BY MeasuredResiduals DEF P!Residual, P!Infinite
  <2> DEFINE p == P!Power(2, restarts)
  <2>3. /\ p \in Nat \ {0} /\ P!Power(2, restarts + 1) = 2 * p
        /\ P!Power(2, 0 + 1) = 2 * P!Power(2, 0) /\ P!Power(2, 0) = 1
    BY <2>2, Halvings
  <2> HIDE DEF p
  <2>4. restarts > 0 => residual_at_last_restart <= TopResidual
    <3>1. residual_at_last_restart <= residual_at_last_restart * p
      BY <2>2, <2>3
    <3>2. restarts > 0 => residual_at_last_restart * p <= TopResidual
      BY DEF p
    <3>3. residual_at_last_restart * p \in Int
      BY <2>2, <2>3
    <3> HIDE DEF P!RestartsGain
    <3> QED
      BY <2>2, <3>1, <3>2, <3>3
  <2>5. P!Seeded(current) \in 0..TopResidual
    BY <2>1, <2>2 DEF P!Seeded, P!is_finite
  <2>6. restarts > 0 => P!Seeded(current) = residual_at_last_restart
    BY <2>4 DEF P!Seeded, P!is_finite
  <2>7. CASE P!Decreased(average, P!Seeded(current))
    <3>1. /\ restarts' = restarts + 1 /\ residual_at_last_restart' = average
          /\ 2 * average <= P!Seeded(current)
      BY <2>1, <2>7 DEF P!Restart, P!Decreased
    <3>2. CASE restarts = 0
      BY <2>2, <2>3, <2>5, <3>1, <3>2
    <3>3. CASE restarts > 0
      <4>1. residual_at_last_restart * p <= TopResidual
        BY <3>3 DEF p
      <4>2. 2 * average <= residual_at_last_restart
        BY <2>6, <3>1, <3>3
      <4>3. (2 * average) * p <= residual_at_last_restart * p
        BY <2>2, <2>3, <4>2
      <4>4. average * (2 * p) = (2 * average) * p
        BY <2>2, <2>3
      <4>5. average * (2 * p) <= TopResidual
        BY <2>2, <2>3, <4>1, <4>3, <4>4
      <4> QED
        BY <2>3, <3>1, <4>5
    <3> QED
      BY <2>2, <3>2, <3>3
  <2>8. CASE ~P!Decreased(average, P!Seeded(current))
    BY <2>1, <2>6, <2>8
  <2> QED
    BY <2>7, <2>8
<1> QED
  BY <1>1, <1>2 DEF P!Next, P!SetToken, P!Refuse, P!Begin, P!PollCancelled, P!PollTimesOut,
     P!Advance, P!Continue, P!BreakDown, P!Converge, P!Finished, P!vars, P!averaging

\* Every way out of the loop sets the status and the point together.
LEMMA PdhgEndStep ==
  ASSUME PdhgInv, [P!Next]_(P!vars)
  PROVE  PdhgEndInv' /\ P!OptimumWasOffered' /\ P!PointUnlessBroken'
<1> USE DEF PdhgInv, P!TypeOK, PdhgEndInv, P!OptimumWasOffered, P!PointUnlessBroken, P!Claim, P!Failure
<1>1. CASE P!SetToken \/ P!Finished \/ UNCHANGED P!vars
  BY <1>1 DEF P!SetToken, P!Finished, P!vars, P!averaging, P!result
<1>2. CASE P!Refuse \/ P!BreakDown
  BY <1>2 DEF P!Refuse, P!BreakDown, P!Abandon
<1>3. CASE P!Begin
  <2>1. x' = x
    BY <1>3 DEF P!Begin
  <2> QED
    BY <1>3, <2>1, PdhgFinishType, Points DEF P!Begin, P!result
<1>4. CASE P!PollCancelled
  BY <1>4, PdhgFinishType, Points DEF P!PollCancelled
<1>5. CASE P!PollTimesOut
  BY <1>5, PdhgFinishType, Points DEF P!PollTimesOut
<1>6. CASE P!Advance
  BY <1>6 DEF P!Advance, P!result
<1>7. CASE P!Continue
  <2>1. x' = x /\ pc = "next"
    BY <1>7 DEF P!Continue
  <2> QED
    BY <1>7, <2>1, PdhgNextIterationType, Points DEF P!Continue
<1>8. CASE P!Converge
  <2>1. offered' \in P!Point /\ offered' # P!NoPoint
    BY <1>8, Points DEF P!Converge, P!Candidate
  <2>2. x' = x /\ P!Finish("Optimal", offered')
    BY <1>8 DEF P!Converge
  <2> QED
    BY <2>1, <2>2, PdhgFinishType
<1>9. CASE P!Proceed
  <2>1. pc = "check" /\ P!NextIteration
    BY <1>9 DEF P!Proceed
  <2> QED
    BY <1>9, <2>1, PdhgProceedStep, PdhgNextIterationType, Points
<1> QED
  BY <1>1, <1>2, <1>3, <1>4, <1>5, <1>6, <1>7, <1>8, <1>9 DEF P!Next

\* Every step of the loop is one the contract of an engine allows.
LEMMA PdhgStepKept == ASSUME PdhgInv, [P!Next]_(P!vars) PROVE [P!Contract!Next]_(P!Contract!vars)
<1> USE DEF PdhgInv, P!TypeOK, PdhgEndInv, P!Claim, P!Failure, P!Contract!vars, P!Contract!Next,
      P!Contract!Ends, P!Contract!GoesOn
<1>1. CASE P!SetToken
  BY <1>1 DEF P!SetToken, P!Contract!SetToken, P!result
<1>2. CASE P!Finished \/ UNCHANGED P!vars
  BY <1>2 DEF P!Finished, P!vars, P!averaging, P!result
<1>3. CASE P!Refuse
  BY <1>3 DEF P!Refuse, P!Abandon, P!Contract!Refuse
<1>4. CASE P!Begin
  BY <1>4 DEF P!Begin, P!Finish, P!result, P!Contract!Begin, P!Contract!Refuse
<1>5. CASE P!PollCancelled
  BY <1>5 DEF P!PollCancelled, P!Finish, P!Contract!Heed
<1>6. CASE P!PollTimesOut
  BY <1>6 DEF P!PollTimesOut, P!Finish, P!Contract!Expire
<1>7. CASE P!Advance
  <2>1. pc = "poll" /\ ~cancelled /\ pc' \in {"next", "check"}
        /\ status' = status /\ cancelled' = cancelled
    BY <1>7 DEF P!Advance, P!MayGoOn, P!result
  <2> QED
    BY <2>1 DEF P!Contract!Proceed
<1>8. CASE P!Continue
  <2>1. pc = "next" /\ x' = x /\ cancelled' = cancelled
    BY <1>8 DEF P!Continue
  <2> QED
    BY <1>8, <2>1, PdhgNextIterationType DEF P!Continue, P!Contract!Continue, P!Contract!Conclude
<1>9. CASE P!BreakDown
  BY <1>9 DEF P!BreakDown, P!Abandon, P!Contract!Conclude
<1>10. CASE P!Converge
  <2>1. pc = "check" /\ cancelled' = cancelled /\ P!Finish("Optimal", offered')
    BY <1>10 DEF P!Converge
  <2> QED
    BY <2>1 DEF P!Finish, P!Contract!Conclude
<1>11. CASE P!Proceed
  <2>1. pc = "check" /\ P!NextIteration
    BY <1>11 DEF P!Proceed
  <2> QED
    BY <1>11, <2>1, PdhgProceedStep, PdhgNextIterationType DEF P!Contract!Continue, P!Contract!Conclude
<1> QED
  BY <1>1, <1>2, <1>3, <1>4, <1>5, <1>6, <1>7, <1>8, <1>9, <1>10, <1>11 DEF P!Next

-----------------------------------------------------------------------------
\* PdhgInv is an inductive invariant of the loop.
THEOREM PdhgInvariance == P!OptionsAssumption /\ P!Spec => []PdhgInv
<1>1. PdhgInv /\ [P!Next]_(P!vars) => PdhgInv'
  BY PdhgTypeStep, PdhgLoopStep, PdhgGainStep, PdhgEndStep DEF PdhgInv
<1> QED
  BY PdhgInitInv, <1>1, PTL DEF P!Spec

\* The loop's variables keep their types: every point it names is one it made.
THEOREM PdhgTypeCorrect == P!OptionsAssumption /\ P!Spec => []P!TypeOK
BY PdhgInvariance, PTL DEF PdhgInv

\* At every check the sums are those of the window, and the number that they
\* are divided by is the number of their terms.
THEOREM WindowExact == P!OptionsAssumption /\ P!Spec => []P!WindowIsExact
<1>1. PdhgInv => P!WindowIsExact
  <2> SUFFICES ASSUME PdhgInv, pc = "check"
               PROVE  sums = window..iterations /\ since_restart = Cardinality(sums)
    BY DEF P!WindowIsExact, P!Cardinality, Cardinality
  <2>1. window \in Int /\ iterations \in Int /\ window <= iterations
    BY DEF P!OptionsAssumption, PdhgInv, P!TypeOK, PdhgLoopInv, P!Iteration
  <2>2. sums = window..iterations /\ since_restart = iterations - window + 1
    BY DEF PdhgInv, PdhgLoopInv
  <2>3. Cardinality(window..iterations) = iterations - window + 1
    BY <2>1, FS_Interval
  <2> QED
    BY <2>2, <2>3
<1> QED
  BY <1>1, PdhgInvariance, PTL

\* The optimum is the point that the checkpoint saw last.
THEOREM OptimumOffered == P!OptionsAssumption /\ P!Spec => []P!OptimumWasOffered
BY PdhgInvariance, PTL DEF PdhgInv

\* A point is reported unless the numbers broke down.
THEOREM PointReported == P!OptionsAssumption /\ P!Spec => []P!PointUnlessBroken
BY PdhgInvariance, PTL DEF PdhgInv

\* Each restart halves the residual of the one before.
THEOREM RestartsHalve == P!OptionsAssumption /\ P!Spec => []P!RestartsGain
BY PdhgInvariance, PTL DEF PdhgInv

\* The first-order engine keeps the contract a race relies on.
THEOREM PdhgImplementsEngine == P!OptionsAssumption /\ P!Spec => P!ImplementsEngine
<1>1. P!Init => P!Contract!Init
  BY DEF P!Init, P!Contract!Init
<1> QED
  BY <1>1, PdhgInvariance, PdhgStepKept, PTL DEF P!Spec, P!ImplementsEngine, P!Contract!Spec

-----------------------------------------------------------------------------
(* The loop of the interior point method *)

\* How far the loop is: z counts the iterations completed, and all iterates
\* before it have been measured; z itself has when its system is factorized.
IpmLoopInv ==
  /\ z = iterations
  /\ pc \in {"poll", "measure", "factorize"} => iterations < max_iterations
  /\ pc = "factorize" => residuals = z /\ attempts < MaxAttempts
  /\ pc \in {"setup", "poll", "measure"} => residuals = z - 1
  /\ pc = "setup" => best_z = I!NoPoint /\ z = 0
  /\ status # "none" <=> pc = "done"

\* What is remembered is the first best of those measured so far, none of them
\* good enough to stop.
IpmBestInv ==
  pc \in {"setup", "poll", "measure", "factorize"} =>
    IF residuals = I!NoPoint THEN best_z = I!NoPoint
    ELSE /\ best_z \in 0..residuals
         /\ merit[best_z] \in Tolerance..TopMerit
         /\ \A k \in 0..residuals : merit[best_z] <= merit[k]

IpmInv == I!OptionsAssumption /\ I!TypeOK /\ IpmLoopInv /\ IpmBestInv /\ I!BestIsReported

-----------------------------------------------------------------------------
\* The invariant of the interior-point loop holds before the loop.
LEMMA IpmInitInv == I!OptionsAssumption /\ I!Init => IpmInv
<1> SUFFICES ASSUME I!OptionsAssumption, I!Init PROVE IpmInv
  OBVIOUS
<1> USE DEF I!OptionsAssumption, I!Init, I!Iterate, I!NoPoint
<1>1. I!TypeOK
  BY DEF I!TypeOK
<1>2. IpmLoopInv /\ IpmBestInv /\ I!BestIsReported
  BY DEF IpmLoopInv, IpmBestInv, I!BestIsReported
<1> QED
  BY <1>1, <1>2 DEF IpmInv

\* Every step of it keeps the types.
LEMMA IpmTypeStep == ASSUME IpmInv, [I!Next]_(I!vars) PROVE I!TypeOK'
<1> USE DEF I!OptionsAssumption, IpmInv, I!TypeOK, IpmLoopInv, I!Iterate, I!NoPoint, I!Finish
<1>1. CASE I!Refuse
  BY <1>1 DEF I!Refuse, I!Failure
<1>2. CASE I!Begin
  BY <1>2 DEF I!Begin, I!Loop, I!InBudget, I!Failure
<1>3. CASE I!PollCancelled
  BY <1>3 DEF I!PollCancelled
<1>4. CASE I!PollTimesOut
  BY <1>4 DEF I!PollTimesOut, I!Failure
<1>5. CASE I!PollProceeds
  BY <1>5 DEF I!PollProceeds, I!result
<1>6. CASE I!Crash
  BY <1>6 DEF I!Crash, I!result
<1>7. CASE I!Converge
  BY <1>7 DEF I!Converge, I!Measuring, I!Claim
<1>8. CASE I!BreakDown
  BY <1>8 DEF I!BreakDown, I!Measuring, I!Failure
<1>9. CASE I!Remember
  BY <1>9 DEF I!Remember, I!Measuring
<1>10. CASE I!FactorizationFails
  BY <1>10 DEF I!FactorizationFails, I!Failure
<1>11. CASE I!Step
  BY <1>11 DEF I!Step, I!Loop, I!InBudget, I!Failure
<1>12. CASE I!SetToken
  BY <1>12 DEF I!SetToken, I!result
<1>13. CASE UNCHANGED I!vars
  BY <1>13 DEF I!vars, I!result
<1>14. CASE I!Stopped
  BY <1>14, <1>13 DEF I!Stopped
<1> QED
  BY <1>1, <1>2, <1>3, <1>4, <1>5, <1>6, <1>7, <1>8, <1>9, <1>10, <1>11, <1>12,
     <1>13, <1>14 DEF I!Next

\* Every step of it keeps the best iterate in step with the merits.
LEMMA IpmLoopStep == ASSUME IpmInv, [I!Next]_(I!vars) PROVE IpmLoopInv'
<1> USE DEF I!OptionsAssumption, IpmInv, I!TypeOK, IpmLoopInv, I!Iterate, I!NoPoint, I!Finish, I!Failure, I!Claim
<1>1. CASE I!Refuse \/ I!Begin
  BY <1>1 DEF I!Refuse, I!Begin, I!Loop, I!InBudget
<1>2. CASE I!PollCancelled \/ I!PollTimesOut \/ I!PollProceeds
  BY <1>2 DEF I!PollCancelled, I!PollTimesOut, I!PollProceeds, I!result
<1>3. CASE I!Crash \/ I!SetToken \/ I!Stopped \/ UNCHANGED I!vars
  BY <1>3 DEF I!Crash, I!SetToken, I!Stopped, I!vars, I!result
<1>4. CASE I!Converge \/ I!BreakDown
  BY <1>4 DEF I!Converge, I!BreakDown, I!Measuring
<1>5. CASE I!Remember
  BY <1>5 DEF I!Remember, I!Measuring
<1>6. CASE I!FactorizationFails
  BY <1>6 DEF I!FactorizationFails
<1>7. CASE I!Step
  BY <1>7 DEF I!Step, I!Loop, I!InBudget
<1> QED
  BY <1>1, <1>2, <1>3, <1>4, <1>5, <1>6, <1>7 DEF I!Next

\* The iterate at hand becomes the best if it is better than the best of those
\* before it, so that nothing measured is below what is remembered.
LEMMA IpmBestStep == ASSUME IpmInv, [I!Next]_(I!vars) PROVE IpmBestInv'
<1> USE DEF I!OptionsAssumption, IpmInv, I!TypeOK, IpmLoopInv, IpmBestInv, I!Iterate, I!NoPoint
<1>1. CASE I!Refuse \/ I!PollCancelled \/ I!PollTimesOut \/ I!Converge \/ I!BreakDown
  BY <1>1 DEF I!Refuse, I!PollCancelled, I!PollTimesOut, I!Converge, I!BreakDown, I!Finish
<1>2. CASE I!Begin
  BY <1>2 DEF I!Begin, I!Loop, I!Finish
<1>3. CASE I!PollProceeds \/ I!SetToken \/ I!Crash \/ I!Stopped \/ UNCHANGED I!vars
  BY <1>3 DEF I!PollProceeds, I!SetToken, I!Crash, I!Stopped, I!vars, I!result
<1>4. CASE I!Remember
  <2>1. merit[z] \in Tolerance..TopMerit
    BY <1>4 DEF I!Remember, I!Measuring, I!is_finite, I!Merit, I!Infinite
  <2>2. CASE best_z = I!NoPoint
    <3>1. z = 0 /\ best_z' = z
      BY <1>4, <2>1, <2>2 DEF I!Remember, I!Measuring, I!Better, I!best_merit, I!Infinite
    <3> QED
      BY <1>4, <2>1, <3>1 DEF I!Remember, I!Measuring
  <2>3. CASE best_z # I!NoPoint
    <3>1. /\ best_z \in 0..(z - 1) /\ merit[best_z] \in Tolerance..TopMerit
          /\ \A k \in 0..(z - 1) : merit[best_z] <= merit[k]
      BY <1>4, <2>3 DEF I!Remember, I!Measuring
    <3>2. best_z' = IF merit[z] < merit[best_z] THEN z ELSE best_z
      BY <1>4, <2>3 DEF I!Remember, I!Measuring, I!Better, I!best_merit
    <3>3. merit' = merit /\ residuals' = z
      BY <1>4 DEF I!Remember, I!Measuring
    <3>4. \A k \in 0..z : k = z \/ k \in 0..(z - 1)
      OBVIOUS
    <3>5. \A k \in 0..z : merit[k] \in Int
      BY DEF I!Merit, I!Infinite
    <3>6. CASE merit[z] < merit[best_z]
      <4>1. \A k \in 0..z : merit[z] <= merit[k]
        BY <3>1, <3>4, <3>5, <3>6, SMTT(30)
      <4> QED
        BY <2>1, <3>2, <3>3, <3>6, <4>1
    <3>7. CASE ~(merit[z] < merit[best_z])
      <4>1. \A k \in 0..z : merit[best_z] <= merit[k]
        BY <3>1, <3>4, <3>5, <3>7
      <4> QED
        BY <3>1, <3>2, <3>3, <3>7, <4>1
    <3> QED
      BY <3>6, <3>7
  <2> QED
    BY <2>2, <2>3
<1>5. CASE I!FactorizationFails
  BY <1>5 DEF I!FactorizationFails, I!Finish
<1>6. CASE I!Step
  BY <1>6 DEF I!Step, I!Loop, I!Finish
<1> QED
  BY <1>1, <1>2, <1>3, <1>4, <1>5, <1>6 DEF I!Next

\* Whatever ends the loop, what it reports is what it remembered, or an iterate
\* that converged, and that is below all the others.
LEMMA IpmReportStep == ASSUME IpmInv, [I!Next]_(I!vars) PROVE I!BestIsReported'
<1> USE DEF I!OptionsAssumption, IpmInv, I!TypeOK, IpmLoopInv, I!BestIsReported, I!Iterate, I!NoPoint
<1>1. CASE I!Refuse \/ I!Begin
  BY <1>1 DEF I!Refuse, I!Begin, I!Loop, I!Finish
<1>2. CASE I!PollCancelled \/ I!PollTimesOut
  BY <1>2 DEF I!PollCancelled, I!PollTimesOut, IpmBestInv, I!Finish
<1>3. CASE I!PollProceeds \/ I!Crash \/ I!Remember
  BY <1>3 DEF I!PollProceeds, I!Crash, I!Remember, I!result
<1>4. CASE I!SetToken \/ I!Stopped \/ UNCHANGED I!vars
  BY <1>4 DEF I!SetToken, I!Stopped, I!vars, I!result
<1>5. CASE I!Converge
  <2>1. /\ best_z' = z /\ residuals' = z /\ merit' = merit /\ status' = "Optimal"
        /\ merit[z] < Tolerance
    BY <1>5 DEF I!Converge, I!Measuring, I!Finish
  <2>2. \A k \in 0..(z - 1) : merit[k] >= Tolerance
    BY <1>5, <2>1 DEF I!Converge, I!Measuring, IpmBestInv, I!Merit, I!Infinite
  <2>3. \A k \in 0..z : k = z \/ k \in 0..(z - 1)
    OBVIOUS
  <2>4. merit[z] \in Int /\ \A k \in 0..z : merit[k] \in Int
    BY DEF I!Merit, I!Infinite
  <2> QED
    BY <2>1, <2>2, <2>3, <2>4
<1>6. CASE I!BreakDown
  BY <1>6 DEF I!BreakDown, I!Measuring, IpmBestInv, I!Finish, I!is_finite, I!Merit, I!Infinite
<1>7. CASE I!FactorizationFails
  BY <1>7 DEF I!FactorizationFails, IpmBestInv, I!Finish
<1>8. CASE I!Step
  BY <1>8 DEF I!Step, I!Loop, IpmBestInv, I!Finish
<1> QED
  BY <1>1, <1>2, <1>3, <1>4, <1>5, <1>6, <1>7, <1>8 DEF I!Next

\* Every step of the loop is one the contract of an engine allows.
LEMMA IpmStepKept == ASSUME IpmInv, [I!Next]_(I!vars) PROVE [I!Contract!Next]_(I!Contract!vars)
<1> USE DEF IpmInv, I!TypeOK, IpmLoopInv, I!Claim, I!Failure, I!Contract!vars, I!Contract!Next,
      I!Contract!Ends, I!Contract!GoesOn
<1>1. CASE I!SetToken
  BY <1>1 DEF I!SetToken, I!Contract!SetToken, I!result
<1>2. CASE I!Refuse
  BY <1>2 DEF I!Refuse, I!Contract!Refuse
<1>3. CASE I!Begin
  BY <1>3 DEF I!Begin, I!Loop, I!Finish, I!Contract!Begin, I!Contract!Refuse
<1>4. CASE I!PollCancelled
  BY <1>4 DEF I!PollCancelled, I!Finish, I!Contract!Heed
<1>5. CASE I!PollTimesOut
  BY <1>5 DEF I!PollTimesOut, I!Finish, I!Contract!Expire
<1>6. CASE I!PollProceeds
  BY <1>6 DEF I!PollProceeds, I!MayGoOn, I!result, I!Contract!Proceed
<1>7. CASE I!Crash \/ I!Stopped \/ UNCHANGED I!vars
  BY <1>7 DEF I!Crash, I!Stopped, I!vars, I!result
<1>8. CASE I!Converge \/ I!BreakDown
  BY <1>8 DEF I!Converge, I!BreakDown, I!Measuring, I!Finish, I!Contract!Conclude
<1>9. CASE I!Remember
  BY <1>9 DEF I!Remember, I!Measuring
<1>10. CASE I!FactorizationFails
  BY <1>10 DEF I!FactorizationFails, I!Finish, I!Contract!Conclude
<1>11. CASE I!Step
  BY <1>11 DEF I!Step, I!Loop, I!Finish, I!Contract!Continue, I!Contract!Conclude
<1> QED
  BY <1>1, <1>2, <1>3, <1>4, <1>5, <1>6, <1>7, <1>8, <1>9, <1>10, <1>11 DEF I!Next

-----------------------------------------------------------------------------
\* IpmInv is an inductive invariant of the loop.
THEOREM IpmInvariance == I!OptionsAssumption /\ I!Spec => []IpmInv
<1>1. IpmInv /\ [I!Next]_(I!vars) => IpmInv'
  BY IpmTypeStep, IpmLoopStep, IpmBestStep, IpmReportStep DEF IpmInv
<1> QED
  BY IpmInitInv, <1>1, PTL DEF I!Spec

\* The loop's variables keep their types: it stays within its budgets.
THEOREM IpmTypeCorrect == I!OptionsAssumption /\ I!Spec => []I!TypeOK
BY IpmInvariance, PTL DEF IpmInv

\* Whatever ends the loop, the iterate it reports is the best it measured, and
\* it is called an optimum exactly if it is within the tolerance.
THEOREM BestReported == I!OptionsAssumption /\ I!Spec => []I!BestIsReported
BY IpmInvariance, PTL DEF IpmInv

\* The interior-point engine keeps the contract a race relies on.
THEOREM IpmImplementsEngine == I!OptionsAssumption /\ I!Spec => I!ImplementsEngine
<1>1. I!Init => I!Contract!Init
  BY DEF I!Init, I!Contract!Init
<1> QED
  BY <1>1, IpmInvariance, IpmStepKept, PTL DEF I!Spec, I!ImplementsEngine, I!Contract!Spec

-----------------------------------------------------------------------------
(* A solve is a run of the engine that was asked for *)

\* A simplex solve is a run of the simplex.
LEMMA SimplexRuns == SolveSpec /\ engine = "simplex" => Spec /\ [](engine = "simplex")
<1>1. SolveInit /\ engine = "simplex" => Init
  BY DEF SolveInit
<1>2. engine = "simplex" /\ [SolveNext]_solveVars => [Next]_vars /\ (engine = "simplex")'
  BY DEF SolveNext, RunSimplex, RunPdhg, RunIpm, solveVars
<1> QED
  BY <1>1, <1>2, PTL DEF SolveSpec, Spec

\* A first-order solve is a run of the first-order loop.
LEMMA PdhgRuns == SolveSpec /\ engine = "pdhg" => P!Spec /\ [](engine = "pdhg")
<1>1. SolveInit /\ engine = "pdhg" => P!Init
  BY DEF SolveInit
<1>2. engine = "pdhg" /\ [SolveNext]_solveVars => [P!Next]_(P!vars) /\ (engine = "pdhg")'
  <2>1. UNCHANGED solveVars => UNCHANGED P!vars
    BY DEF solveVars, vars, instance, place, point, cycling, net, pdhgVars, P!vars,
           P!averaging, P!result
  <2> QED
    BY <2>1 DEF SolveNext, RunSimplex, RunPdhg, RunIpm, solveVars
<1> QED
  BY <1>1, <1>2, PTL DEF SolveSpec, P!Spec

\* An interior-point solve is a run of the interior-point loop.
LEMMA IpmRuns == SolveSpec /\ engine = "ipm" => I!Spec /\ [](engine = "ipm")
<1>1. SolveInit /\ engine = "ipm" => I!Init
  BY DEF SolveInit
<1>2. engine = "ipm" /\ [SolveNext]_solveVars => [I!Next]_(I!vars) /\ (engine = "ipm")'
  <2>1. UNCHANGED solveVars => UNCHANGED I!vars
    BY DEF solveVars, vars, instance, place, point, cycling, net, ipmVars, I!vars, I!result
  <2> QED
    BY <2>1 DEF SolveNext, RunSimplex, RunPdhg, RunIpm, solveVars
<1> QED
  BY <1>1, <1>2, PTL DEF SolveSpec, I!Spec

\* A solve does not change its engine.
LEMMA Engines ==
  SolveSpec => \/ [](engine = "simplex") /\ Spec
               \/ [](engine = "pdhg") /\ P!Spec
               \/ [](engine = "ipm") /\ I!Spec
<1>1. SolveInit => engine = "simplex" \/ engine = "pdhg" \/ engine = "ipm"
  BY DEF SolveInit
<1> QED
  BY <1>1, SimplexRuns, PdhgRuns, IpmRuns, PTL DEF SolveSpec

\* What the module assumes of its constants is what the theorems need.
LEMMA Assumptions == P!OptionsAssumption /\ I!OptionsAssumption
BY SolveAssumption

-----------------------------------------------------------------------------
(* The theorems *)

\* Whichever engine runs, Unbounded is returned for problems with an unbounded
\* ray only: the other two never return it.
THEOREM SolvedUnbounded == SolveSpec => []UnboundedIsSound
<1>1. P!TypeOK => UnboundedIsSound
  BY DEF P!TypeOK, P!Claim, P!Failure, UnboundedIsSound
<1>2. I!TypeOK => UnboundedIsSound
  BY DEF I!TypeOK, I!Claim, I!Failure, UnboundedIsSound
<1> QED
  BY <1>1, <1>2, Assumptions, Engines, UnboundedSound, PdhgTypeCorrect,
     IpmTypeCorrect, PTL

\* Nor do they have a Phase I: where the simplex method's ends, it is at the
\* least infeasibility of any point, unless a residue is or was left.
THEOREM SolvedPhaseOne == SolveSpec => []PhaseOneEndsAtLeast
<1>1. P!TypeOK => PhaseOneEndsAtLeast
  BY DEF P!TypeOK, PhaseOneEndsAtLeast
<1>2. I!TypeOK => PhaseOneEndsAtLeast
  BY DEF I!TypeOK, PhaseOneEndsAtLeast
<1> QED
  BY <1>1, <1>2, Assumptions, Engines, PhaseOneDecisive, PdhgTypeCorrect,
     IpmTypeCorrect, PTL

\* The average that PDHG restarts from is that of the iterations since the
\* last restart.
THEOREM SolvedWindow == SolveSpec => []WindowIsExact
<1>1. P!WindowIsExact => WindowIsExact
  BY DEF WindowIsExact
<1>2. engine = "simplex" \/ engine = "ipm" => WindowIsExact
  BY DEF WindowIsExact
<1> QED
  BY <1>1, <1>2, Assumptions, Engines, WindowExact, PTL

\* PDHG's restarts shorten the tail: after k of them the residual that the
\* next one has to halve is at most that of the start, halved k times.
THEOREM SolvedRestarts == SolveSpec => []RestartsGain
<1>1. P!RestartsGain => RestartsGain
  BY DEF RestartsGain
<1>2. engine = "simplex" \/ engine = "ipm" => RestartsGain
  BY DEF RestartsGain
<1> QED
  BY <1>1, <1>2, Assumptions, Engines, RestartsHalve, PTL

\* The optimum PDHG reports is the candidate that its checkpoint saw last.
THEOREM SolvedOptimumOffered == SolveSpec => []OptimumWasOffered
<1>1. P!OptimumWasOffered => OptimumWasOffered
  BY DEF OptimumWasOffered
<1>2. engine = "simplex" \/ engine = "ipm" => OptimumWasOffered
  BY DEF OptimumWasOffered
<1> QED
  BY <1>1, <1>2, Assumptions, Engines, OptimumOffered, PTL

\* PDHG ends with a point, unless its numbers broke down.
THEOREM SolvedPoint == SolveSpec => []PointUnlessBroken
<1>1. P!PointUnlessBroken => PointUnlessBroken
  BY DEF PointUnlessBroken
<1>2. engine = "simplex" \/ engine = "ipm" => PointUnlessBroken
  BY DEF PointUnlessBroken
<1> QED
  BY <1>1, <1>2, Assumptions, Engines, PointReported, PTL

\* The interior point method reports the best iterate that it measured.
THEOREM SolvedBest == SolveSpec => []BestIsReported
<1>1. I!BestIsReported => BestIsReported
  BY DEF BestIsReported
<1>2. engine = "simplex" \/ engine = "pdhg" => BestIsReported
  BY DEF BestIsReported
<1> QED
  BY <1>1, <1>2, Assumptions, Engines, BestReported, PTL

\* Optimal is returned by the simplex method at verified optima only, unless
\* its numbers drift; nobody else touches what it measures.
THEOREM SolvedOptimum == SolveSpec => []OptimumIsVerified
<1>1. SolveInit /\ engine = "pdhg" => infeas = Feasible /\ ~improvable
  BY DEF SolveInit, NoSimplex
<1>2. SolveInit /\ engine = "ipm" => infeas = Feasible /\ ~improvable
  BY DEF SolveInit, NoSimplex
<1>3. /\ (infeas = Feasible /\ ~improvable)
      /\ engine = "pdhg" \/ engine = "ipm"
      /\ [SolveNext]_solveVars
      => (infeas = Feasible /\ ~improvable)'
  BY DEF SolveNext, RunSimplex, RunPdhg, RunIpm, solveVars, simplexVars, vars, point
<1>4. infeas = Feasible /\ ~improvable => OptimumIsVerified
  BY DEF OptimumIsVerified
<1> QED
  BY <1>1, <1>2, <1>3, <1>4, Engines, OptimumVerified, PTL DEF SolveSpec

\* PDHG's contract is that of the simplex method, with fewer answers.
LEMMA PdhgContractKept ==
  P!TypeOK /\ P!TypeOK' /\ [P!Contract!Next]_(P!Contract!vars) => [Contract!Next]_(Contract!vars)
<1> SUFFICES ASSUME P!TypeOK, P!TypeOK', [P!Contract!Next]_(P!Contract!vars)
             PROVE  [Contract!Next]_(Contract!vars)
  OBVIOUS
<1>a. pc # "factor" /\ pc' # "factor"
  BY DEF P!TypeOK
<1>b. P!Claim \subseteq Claim /\ P!Failure \subseteq Failure
  BY DEF P!Claim, Claim, P!Failure, Failure
<1>1. CASE P!Contract!SetToken
  BY <1>a, <1>b, <1>1 DEF P!Contract!SetToken, Contract!SetToken, Contract!Next
<1>2. CASE P!Contract!Begin
  BY <1>a, <1>b, <1>2 DEF P!Contract!Begin, Contract!Begin, P!Contract!GoesOn, Contract!GoesOn, Contract!Next
<1>3. CASE P!Contract!Refuse
  BY <1>a, <1>b, <1>3 DEF P!Contract!Refuse, Contract!Refuse, P!Contract!Ends, Contract!Ends, Contract!Next
<1>4. CASE P!Contract!Heed
  BY <1>a, <1>b, <1>4 DEF P!Contract!Heed, Contract!Heed, P!Contract!Ends, Contract!Ends, Contract!Next
<1>5. CASE P!Contract!Expire
  BY <1>a, <1>b, <1>5 DEF P!Contract!Expire, Contract!Expire, P!Contract!Ends, Contract!Ends, Contract!Next
<1>6. CASE P!Contract!Proceed
  BY <1>a, <1>b, <1>6 DEF P!Contract!Proceed, Contract!Proceed, P!Contract!GoesOn, Contract!GoesOn, Contract!Next
<1>7. CASE P!Contract!Continue
  BY <1>a, <1>b, <1>7 DEF P!Contract!Continue, Contract!Continue, P!Contract!GoesOn, Contract!GoesOn, Contract!Next
<1>8. CASE P!Contract!Conclude
  BY <1>a, <1>b, <1>8 DEF P!Contract!Conclude, Contract!Conclude, P!Contract!Ends, Contract!Ends, Contract!Next
<1>9. CASE UNCHANGED P!Contract!vars
  BY <1>a, <1>9 DEF P!Contract!vars, Contract!vars
<1> QED
  BY <1>1, <1>2, <1>3, <1>4, <1>5, <1>6, <1>7, <1>8, <1>9 DEF P!Contract!Next

\* The interior point method's contract is that of the simplex method, with fewer answers.
LEMMA IpmContractKept ==
  I!TypeOK /\ I!TypeOK' /\ [I!Contract!Next]_(I!Contract!vars) => [Contract!Next]_(Contract!vars)
<1> SUFFICES ASSUME I!TypeOK, I!TypeOK', [I!Contract!Next]_(I!Contract!vars)
             PROVE  [Contract!Next]_(Contract!vars)
  OBVIOUS
<1>a. pc # "factor" /\ pc' # "factor"
  BY DEF I!TypeOK
<1>b. I!Claim \subseteq Claim /\ I!Failure \subseteq Failure
  BY DEF I!Claim, Claim, I!Failure, Failure
<1>1. CASE I!Contract!SetToken
  BY <1>a, <1>b, <1>1 DEF I!Contract!SetToken, Contract!SetToken, Contract!Next
<1>2. CASE I!Contract!Begin
  BY <1>a, <1>b, <1>2 DEF I!Contract!Begin, Contract!Begin, I!Contract!GoesOn, Contract!GoesOn, Contract!Next
<1>3. CASE I!Contract!Refuse
  BY <1>a, <1>b, <1>3 DEF I!Contract!Refuse, Contract!Refuse, I!Contract!Ends, Contract!Ends, Contract!Next
<1>4. CASE I!Contract!Heed
  BY <1>a, <1>b, <1>4 DEF I!Contract!Heed, Contract!Heed, I!Contract!Ends, Contract!Ends, Contract!Next
<1>5. CASE I!Contract!Expire
  BY <1>a, <1>b, <1>5 DEF I!Contract!Expire, Contract!Expire, I!Contract!Ends, Contract!Ends, Contract!Next
<1>6. CASE I!Contract!Proceed
  BY <1>a, <1>b, <1>6 DEF I!Contract!Proceed, Contract!Proceed, I!Contract!GoesOn, Contract!GoesOn, Contract!Next
<1>7. CASE I!Contract!Continue
  BY <1>a, <1>b, <1>7 DEF I!Contract!Continue, Contract!Continue, I!Contract!GoesOn, Contract!GoesOn, Contract!Next
<1>8. CASE I!Contract!Conclude
  BY <1>a, <1>b, <1>8 DEF I!Contract!Conclude, Contract!Conclude, I!Contract!Ends, Contract!Ends, Contract!Next
<1>9. CASE UNCHANGED I!Contract!vars
  BY <1>a, <1>9 DEF I!Contract!vars, Contract!vars
<1> QED
  BY <1>1, <1>2, <1>3, <1>4, <1>5, <1>6, <1>7, <1>8, <1>9 DEF I!Contract!Next

\* Whichever engine runs keeps the contract a race relies on.
THEOREM SolvedEnginesKeepContract == SolveSpec => ImplementsEngine
<1>1. P!TypeOK /\ P!Contract!Init => Contract!Init
  BY DEF P!TypeOK, P!Contract!Init, Contract!Init
<1>2. I!TypeOK /\ I!Contract!Init => Contract!Init
  BY DEF I!TypeOK, I!Contract!Init, Contract!Init
<1>3. P!Spec => ImplementsEngine
  BY <1>1, Assumptions, PdhgContractKept, PdhgTypeCorrect, PdhgImplementsEngine, PTL
     DEF ImplementsEngine, Contract!Spec, P!ImplementsEngine, P!Contract!Spec
<1>4. I!Spec => ImplementsEngine
  BY <1>2, Assumptions, IpmContractKept, IpmTypeCorrect, IpmImplementsEngine, PTL
     DEF ImplementsEngine, Contract!Spec, I!ImplementsEngine, I!Contract!Spec
<1> QED
  BY <1>3, <1>4, Engines, SimplexImplementsEngine, PTL
===============================================================================
