------------------------------ MODULE Crossover ------------------------------
(***************************************************************************)
(* Concurrent checkpoint crossover (src/l1/crossover.cpp).  One thread     *)
(* runs PDHG; at each checkpoint its callback starts a simplex attempt     *)
(* from the checkpoint's point and, once Window points are in hand, maybe  *)
(* another one from their extrapolation.  The first attempt with a valid   *)
(* answer wins and cancels PDHG and every attempt; without one, the calling*)
(* thread makes a last attempt on PDHG's own point.  Every thread is joined*)
(* before the call returns.                                                *)
(*                                                                         *)
(* What runs under shared.mtx is one action here: Race models the same     *)
(* report at the grain of the lock.  A solve is one state that an attempt  *)
(* leaves with a verdict of its own at any time, or as cancelled once its  *)
(* token is set.                                                           *)
(***************************************************************************)
EXTENDS Integers, FiniteSets

CONSTANTS
  MaxCheckpoints,  \* bound on the checkpoints PDHG reaches in one solve
  Window,          \* points a spiral jump extrapolates from (4 in the code)
  SpiralJump,      \* options.enable_spiral_jump
  DeviceMayFail    \* an allocation or transfer of PDHG's backend may fail

ASSUME BoundsAssumption == MaxCheckpoints \in Nat /\ Window \in Nat \ {0}
ASSUME OptionsAssumption == SpiralJump \in BOOLEAN /\ DeviceMayFail \in BOOLEAN

\* The k-th attempt thread started is attempt k; each checkpoint starts at
\* most two.
MaxAttempts == 2 * MaxCheckpoints
Attempt == 1..MaxAttempts
Fallback == 0
NoWinner == -1

VARIABLES
  main,         \* where the calling thread is
  pdhg,         \* where the PDHG thread is
  pdhgToken,    \* PDHG's token is set
  hasPoint,     \* PDHG's result holds a primal point
  pdhgFinished, \* shared.pdhg_finished
  checkpoints,  \* checkpoints PDHG has reached
  history,      \* length of spiral_history
  launched,     \* shared.launched_attempts
  finished,     \* shared.finished_attempts
  jumps,        \* shared.spiral_jump_attempts
  spawned,      \* number of attempt threads, and of attempt tokens
  attempt,      \* where attempt k's thread is
  isJump,       \* attempt k starts from an extrapolated point
  tokens,       \* attempt k's token is set
  verdict,      \* what the simplex of attempt k (or of the fallback) returned
  winner        \* the attempt whose result is shared.winner

pdhgVars == <<pdhg, hasPoint, pdhgFinished, checkpoints, history>>
countVars == <<launched, finished, jumps>>
attemptVars == <<spawned, attempt, isJump, verdict>>
stopVars == <<pdhgToken, tokens, winner>>
vars == <<main, pdhgVars, countVars, attemptVars, stopVars>>

Final == {"returned", "terminated"}
MainPC == {"entry", "test", "blocked", "decide", "fallback", "joinPdhg",
           "joinAttempts"} \cup Final
PdhgPC == {"absent", "iterate", "check", "launch", "window", "launchJump",
           "converge", "finish", "notify", "exited"}
AttemptPC == {"absent", "solve", "report", "exited"}

\* "valid" stands for the statuses that may win (Optimal, Infeasible and
\* Unbounded), "useless" for all others, for Cancelled, and for the exception
\* whose handler reports an empty SimplexResult; "none" is no verdict yet.
Verdict == {"none", "valid", "useless"}

is_valid(s) == s = "valid"

TypeOK ==
  /\ main \in MainPC
  /\ pdhg \in PdhgPC
  /\ pdhgToken \in BOOLEAN
  /\ hasPoint \in BOOLEAN
  /\ pdhgFinished \in BOOLEAN
  /\ checkpoints \in 0..MaxCheckpoints
  /\ history \in 0..Window
  /\ launched \in 0..(MaxAttempts + 1)
  /\ finished \in 0..(MaxAttempts + 1)
  /\ jumps \in 0..MaxAttempts
  /\ spawned \in 0..MaxAttempts
  /\ attempt \in [Attempt -> AttemptPC]
  /\ isJump \in [Attempt -> BOOLEAN]
  /\ tokens \in [Attempt -> BOOLEAN]
  /\ verdict \in [Attempt \cup {Fallback} -> Verdict]
  /\ winner \in Attempt \cup {Fallback, NoWinner}

Init ==
  /\ main = "entry"
  /\ pdhg = "absent"
  /\ pdhgToken = FALSE
  /\ hasPoint = FALSE
  /\ pdhgFinished = FALSE
  /\ checkpoints = 0
  /\ history = 0
  /\ launched = 0
  /\ finished = 0
  /\ jumps = 0
  /\ spawned = 0
  /\ attempt = [k \in Attempt |-> "absent"]
  /\ isJump = [k \in Attempt |-> FALSE]
  /\ tokens = [k \in Attempt |-> FALSE]
  /\ verdict = [k \in Attempt \cup {Fallback} |-> "none"]
  /\ winner = NoWinner

Undecided == winner = NoWinner

\* cv.notify_all: the calling thread, if it waits, looks at its predicate again.
Woken == IF main = "blocked" THEN "test" ELSE main

-----------------------------------------------------------------------------
(* The PDHG thread *)

PdhgGoes(pc) == pdhg' = pc

\* The poll at the top of the loop: cancelled, out of time or out of
\* iterations.  The current iterate is reported as PDHG's point.
PdhgCancelled ==
  /\ pdhg = "iterate" /\ pdhgToken
  /\ PdhgGoes("finish")
  /\ hasPoint' = TRUE
  /\ UNCHANGED <<main, pdhgFinished, checkpoints, history, countVars, attemptVars, stopVars>>

PdhgOutOfBudget ==
  /\ pdhg = "iterate" /\ ~pdhgToken
  /\ PdhgGoes("finish")
  /\ hasPoint' = TRUE
  /\ UNCHANGED <<main, pdhgFinished, checkpoints, history, countVars, attemptVars, stopVars>>

\* A residual that is not finite: PDHG returns without any point.
PdhgBreaksDown ==
  /\ pdhg = "iterate"
  /\ PdhgGoes("finish")
  /\ UNCHANGED <<main, hasPoint, pdhgFinished, checkpoints, history, countVars, attemptVars, stopVars>>

\* A failed allocation or transfer, promoted to an exception by DeviceBuffer:
\* the thread's function has no handler, so the process terminates.
PdhgThrows ==
  /\ DeviceMayFail
  /\ pdhg = "iterate"
  /\ main' = "terminated"
  /\ UNCHANGED <<pdhgVars, countVars, attemptVars, stopVars>>

ReachCheckpoint ==
  /\ pdhg = "iterate"
  /\ checkpoints < MaxCheckpoints
  /\ checkpoints' = checkpoints + 1
  /\ PdhgGoes("check")
  /\ UNCHANGED <<main, hasPoint, pdhgFinished, history, countVars, attemptVars, stopVars>>

\* The callback's early return, under a lock it gives up again.
CheckWinner ==
  /\ pdhg = "check"
  /\ PdhgGoes(IF Undecided THEN "launch" ELSE "converge")
  /\ UNCHANGED <<main, hasPoint, pdhgFinished, checkpoints, history, countVars, attemptVars, stopVars>>

\* Mutant: a jump is started but not counted.
LaunchUncounted(jump) ==
  LET k == spawned + 1
  IN  IF ~Undecided
      THEN UNCHANGED <<countVars, attemptVars>>
      ELSE /\ launched' = IF jump THEN launched ELSE launched + 1
           /\ jumps' = IF jump THEN jumps + 1 ELSE jumps
           /\ spawned' = k
           /\ attempt' = [attempt EXCEPT ![k] = "solve"]
           /\ isJump' = [isJump EXCEPT ![k] = jump]
           /\ UNCHANGED <<finished, verdict>>

\* launch_attempt: nothing once there is a winner, else a count, a fresh
\* token and a thread.
LaunchAttempt(jump) ==
  LET k == spawned + 1
  IN  IF ~Undecided
      THEN UNCHANGED <<countVars, attemptVars>>
      ELSE /\ launched' = launched + 1
           /\ jumps' = IF jump THEN jumps + 1 ELSE jumps
           /\ spawned' = k
           /\ attempt' = [attempt EXCEPT ![k] = "solve"]
           /\ isJump' = [isJump EXCEPT ![k] = jump]
           /\ UNCHANGED <<finished, verdict>>

LaunchLiteral ==
  /\ pdhg = "launch"
  /\ LaunchAttempt(FALSE)
  /\ PdhgGoes(IF SpiralJump THEN "window" ELSE "converge")
  /\ UNCHANGED <<main, hasPoint, pdhgFinished, checkpoints, history, stopVars>>

\* The window keeps the last points; a full one may or may not fit a spiral.
PushPoint ==
  /\ pdhg = "window"
  /\ history' = IF history < Window THEN history + 1 ELSE history
  /\ \E fits \in BOOLEAN :
       PdhgGoes(IF history' = Window /\ fits THEN "launchJump" ELSE "converge")
  /\ UNCHANGED <<main, hasPoint, pdhgFinished, checkpoints, countVars, attemptVars, stopVars>>

LaunchJump ==
  /\ pdhg = "launchJump"
  /\ LaunchAttempt(TRUE)
  /\ PdhgGoes("converge")
  /\ UNCHANGED <<main, hasPoint, pdhgFinished, checkpoints, history, stopVars>>

\* After the callback PDHG has either converged or goes on.
TestConvergence ==
  /\ pdhg = "converge"
  /\ \/ PdhgGoes("finish") /\ hasPoint' = TRUE
     \/ PdhgGoes("iterate") /\ UNCHANGED hasPoint
  /\ UNCHANGED <<main, pdhgFinished, checkpoints, history, countVars, attemptVars, stopVars>>

\* The result and the flag are stored under the lock ...
StorePdhgResult ==
  /\ pdhg = "finish"
  /\ pdhgFinished' = TRUE
  /\ PdhgGoes("notify")
  /\ UNCHANGED <<main, hasPoint, checkpoints, history, countVars, attemptVars, stopVars>>

\* Mutant: PDHG's end notifies nobody.
PdhgExitsSilently ==
  /\ pdhg = "notify"
  /\ PdhgGoes("exited")
  /\ UNCHANGED <<main, hasPoint, pdhgFinished, checkpoints, history, countVars, attemptVars, stopVars>>

\* ... and the notification comes after its release.
PdhgNotifies ==
  /\ pdhg = "notify"
  /\ main' = Woken
  /\ PdhgGoes("exited")
  /\ UNCHANGED <<hasPoint, pdhgFinished, checkpoints, history, countVars, attemptVars, stopVars>>

PdhgStep ==
  \/ PdhgCancelled \/ PdhgOutOfBudget \/ PdhgBreaksDown
  \/ ReachCheckpoint \/ CheckWinner \/ LaunchLiteral \/ PushPoint \/ LaunchJump
  \/ TestConvergence \/ StorePdhgResult \/ PdhgNotifies

-----------------------------------------------------------------------------
(* The thread of attempt k *)

AttemptEnds(k, v) ==
  /\ attempt[k] = "solve"
  /\ attempt' = [attempt EXCEPT ![k] = "report"]
  /\ verdict' = [verdict EXCEPT ![k] = v]
  /\ UNCHANGED <<main, spawned, isJump, pdhgVars, countVars, stopVars>>

\* Its next poll finds the token set.
AttemptCancelled(k) ==
  /\ tokens[k]
  /\ AttemptEnds(k, "useless")

\* It ends by itself, whatever its token says by then.
AttemptConcludes(k) ==
  \E v \in {"valid", "useless"} : AttemptEnds(k, v)

\* Mutant: the newest attempt's token is forgotten.
CancelOlder == [k \in Attempt |-> tokens[k] \/ k < spawned]
CancelAll == [k \in Attempt |-> tokens[k] \/ k <= spawned]

\* Mutant: a second valid report replaces the winner.
AcceptsAlways(k) == is_valid(verdict[k])
Accepts(k) == is_valid(verdict[k]) /\ Undecided

\* report(): count, claim, cancel PDHG and all attempts, notify.
Report(k) ==
  /\ attempt[k] = "report"
  /\ attempt' = [attempt EXCEPT ![k] = "exited"]
  /\ finished' = finished + 1
  /\ winner' = IF Accepts(k) THEN k ELSE winner
  /\ pdhgToken' = (pdhgToken \/ Accepts(k))
  /\ tokens' = IF Accepts(k) THEN CancelAll ELSE tokens
  /\ main' = Woken
  /\ UNCHANGED <<launched, jumps, spawned, isJump, verdict, pdhgVars>>

-----------------------------------------------------------------------------
(* The calling thread *)

\* Validation failed: the call returns Failed before any thread exists.
RejectProblem ==
  /\ main = "entry"
  /\ main' = "returned"
  /\ UNCHANGED <<pdhgVars, countVars, attemptVars, stopVars>>

StartPdhg ==
  /\ main = "entry"
  /\ main' = "test"
  /\ PdhgGoes("iterate")
  /\ UNCHANGED <<hasPoint, pdhgFinished, checkpoints, history, countVars, attemptVars, stopVars>>

\* Mutant: the end of PDHG is not waited for.
DecidedEarly == ~Undecided \/ (finished >= launched /\ launched > 0)
Decided == ~Undecided \/ (pdhgFinished /\ finished >= launched)

\* The predicate of cv.wait, under the lock that blocking gives up.
TestDecided ==
  /\ main = "test"
  /\ main' = IF Decided THEN "decide" ELSE "blocked"
  /\ UNCHANGED <<pdhgVars, countVars, attemptVars, stopVars>>

SpuriousWakeup ==
  /\ main = "blocked"
  /\ main' = "test"
  /\ UNCHANGED <<pdhgVars, countVars, attemptVars, stopVars>>

\* Without a winner, and with a point of PDHG's, a last attempt is made here.
StartFallback ==
  /\ main = "decide"
  /\ main' = IF Undecided /\ hasPoint THEN "fallback" ELSE "joinPdhg"
  /\ UNCHANGED <<pdhgVars, countVars, attemptVars, stopVars>>

\* It has no token; its counters and the winner are written without the lock.
ConcludeFallback ==
  /\ main = "fallback"
  /\ \E v \in {"valid", "useless"} :
       /\ verdict' = [verdict EXCEPT ![Fallback] = v]
       /\ winner' = IF is_valid(v) THEN Fallback ELSE winner
  /\ launched' = launched + 1
  /\ finished' = finished + 1
  /\ main' = "joinPdhg"
  /\ UNCHANGED <<jumps, spawned, attempt, isJump, pdhgToken, tokens, pdhgVars>>

JoinPdhg ==
  /\ main = "joinPdhg" /\ pdhg = "exited"
  /\ main' = "joinAttempts"
  /\ UNCHANGED <<pdhgVars, countVars, attemptVars, stopVars>>

\* The threads are moved out of the shared state and joined, each in turn.
JoinAttempts ==
  /\ main = "joinAttempts"
  /\ \A k \in 1..spawned : attempt[k] = "exited"
  /\ main' = "returned"
  /\ UNCHANGED <<pdhgVars, countVars, attemptVars, stopVars>>

MainStep ==
  \/ StartPdhg \/ TestDecided \/ StartFallback \/ JoinPdhg \/ JoinAttempts

-----------------------------------------------------------------------------
Running == main \notin Final

Stopped ==
  /\ ~Running
  /\ UNCHANGED vars

Next ==
  \/ RejectProblem \/ MainStep \/ ConcludeFallback \/ SpuriousWakeup
  \/ Running /\ (PdhgStep \/ PdhgThrows)
  \/ Running /\ \E k \in Attempt :
       AttemptCancelled(k) \/ AttemptConcludes(k) \/ Report(k)
  \/ Stopped

Spec == Init /\ [][Next]_vars

(***************************************************************************)
(* Threads are scheduled, and a solve whose token is set finds it at its   *)
(* next poll.  PDHG has an iteration limit.  Nothing makes an attempt, or  *)
(* the fallback, come to a verdict of its own: their limits are options.   *)
(***************************************************************************)
Fairness ==
  /\ WF_vars(MainStep)
  /\ WF_vars(Running /\ PdhgStep)
  /\ \A k \in Attempt : WF_vars(Running /\ AttemptCancelled(k))
  /\ \A k \in Attempt : WF_vars(Running /\ Report(k))

FairSpec == Spec /\ Fairness

-----------------------------------------------------------------------------
(* Properties *)

Exited(k) == attempt[k] = "exited"
AllExited == \A k \in Attempt : attempt[k] \in {"absent", "exited"}

\* shared.launched_attempts and shared.finished_attempts, compared by the
\* wait, stand for the threads there are: the difference is the number of
\* attempts still to report, and it is zero only when none is.
CountsAreExact ==
  /\ launched - finished = Cardinality({k \in Attempt : attempt[k] \in {"solve", "report"}})
  /\ jumps = Cardinality({k \in Attempt : isJump[k]})

\* Once the calling thread is past the wait without a winner, it is alone:
\* PDHG has stored its result and cannot launch any more, and no attempt is
\* under way.  The fallback reads PDHG's result and writes the counters and
\* the winner without the lock, which is a data race otherwise.
AloneWithoutWinner ==
  main \in {"decide", "fallback"} /\ Undecided =>
    /\ pdhgFinished /\ pdhg \in {"notify", "exited"}
    /\ AllExited

\* A decided solve has told PDHG and every attempt to stop, also the ones
\* launched from the checkpoint during which the winner reported.
LosersAreTold ==
  winner \in Attempt => pdhgToken /\ \A k \in 1..spawned : tokens[k]

\* No valid answer is lost, the answer returned is a valid one, and Failed
\* means that no attempt had one, the fallback included if PDHG left a point.
AnswerIsKept ==
  /\ \A k \in Attempt : Exited(k) /\ is_valid(verdict[k]) => ~Undecided
  /\ ~Undecided => is_valid(verdict[winner])
  /\ main = "returned" /\ Undecided =>
       /\ \A k \in Attempt \cup {Fallback} : ~is_valid(verdict[k])
       /\ hasPoint => verdict[Fallback] # "none"

\* Nothing the call started is alive when it returns.
NothingOutlivesTheCall ==
  main = "returned" => pdhg \in {"absent", "exited"} /\ AllExited

\* A jump needs Window earlier points, and each point came with a literal
\* attempt of its own: the jumps are additional entrants, never replacements.
JumpsAreExtra ==
  jumps > 0 => (spawned - jumps) >= jumps + Window - 1

\* Once accepted, an answer is final, and no attempt is started any more.
WinnerIsFinal ==
  [][~Undecided => winner' = winner /\ spawned' = spawned]_vars

\* A decided solve ends, although neither PDHG nor the losing attempts need
\* ever stop by themselves.
WinnerEndsTheSolve == (~Undecided /\ Running) ~> ~Running

\* When PDHG and the last attempt are gone, in whichever order, the calling
\* thread does not stay asleep.
EndIsNoticed ==
  (pdhg = "exited" /\ AllExited) ~> main \in {"fallback", "returned", "terminated"}

\* What Crossover::solve promises its caller; the claimants are the attempts
\* and the fallback.
FallbackEntered == main = "fallback" \/ verdict[Fallback] # "none"
Promise == INSTANCE FirstAnswer WITH
  Claimant <- Attempt \cup {Fallback},
  NoAnswer <- NoWinner,
  entered <- {k \in Attempt : attempt[k] # "absent"}
               \cup (IF FallbackEntered THEN {Fallback} ELSE {}),
  inside <- {k \in Attempt : attempt[k] \in {"solve", "report"}}
              \cup (IF main = "fallback" THEN {Fallback} ELSE {}),
  answer <- winner,
  returned <- (main = "returned")

\* The solve is a single decision among everything it started.
ImplementsFirstAnswer == Promise!Spec
=============================================================================
