--------------------------------- MODULE Race ---------------------------------
(***************************************************************************)
(* The concurrent engine race (src/l1/race.cpp).  race_solve starts one    *)
(* thread per enabled entrant, waits on a condition variable until an      *)
(* entrant has reported a valid answer or all have reported, joins every   *)
(* thread and returns.  Each entrant polls its own cancellation token at   *)
(* the top of each iteration and reports once, under the mutex.            *)
(*                                                                         *)
(* The engines are opaque: an iteration may end the solve with any verdict *)
(* the engine can return, or go on for ever.  The steps taken under the    *)
(* mutex are separate actions wherever another thread can see a difference:*)
(* tokens are atomics read without the lock, so they are set one at a time.*)
(***************************************************************************)
EXTENDS Integers, Sequences, FiniteSets

CONSTANTS
  entrants,       \* the array of engines to race, in launch order
  TimeLimited,    \* options.time_limit_seconds > 0
  LaunchMayFail   \* the system may be unable to start a thread

Engine == {"simplex", "pdhg", "ipm"}

ASSUME EntrantsAssumption == entrants \in Seq(Engine)
ASSUME OptionsAssumption == TimeLimited \in BOOLEAN /\ LaunchMayFail \in BOOLEAN

N == Len(entrants)
Idx == 1..N
NoWinner == 0
Main == -1      \* the calling thread, as a holder of the mutex
Free == 0       \* nobody holds the mutex

VARIABLES
  enabled,   \* options.use_simplex, use_pdhg, use_ipm
  main,      \* where the calling thread is
  cursor,    \* loop index of the calling thread (launch loop, join loop)
  mtx,       \* holder of shared.mtx
  remaining, \* shared.remaining
  winner,    \* index of the entrant whose result is shared.winner
  tokens,    \* tokens[i] is set
  worker,    \* where entrant i's thread is
  verdict,   \* what entrant i's engine returned
  sweep      \* loop index of the report that is cancelling the losers

vars == <<enabled, main, cursor, mtx, remaining, winner, tokens, worker,
          verdict, sweep>>

\* The calling thread stays in one of these for ever.
Final == {"returned", "threw", "terminated"}
MainPC == {"launch", "lock", "test", "blocked", "join"} \cup Final
WorkerPC == {"absent", "setup", "poll", "step", "report", "cancelling",
             "notify", "exited"}

\* "none" is an engine still solving; "noanswer" stands for IterationLimit,
\* TimeLimit and NumericalFailure, "threw" for a std::exception.
Verdict == {"none", "optimal", "infeasible", "unbounded", "noanswer",
            "cancelled", "threw"}

\* The verdicts an engine may come to in an iteration.
Verdicts(e) ==
  {"optimal", "noanswer", "threw"}
    \cup (IF e = "simplex" THEN {"infeasible", "unbounded"} ELSE {})

\* A status the race may trust as a terminal answer.
is_valid(e, s) ==
  \/ s = "optimal"
  \/ e = "simplex" /\ s \in {"infeasible", "unbounded"}

ValidAnswer(i) == is_valid(entrants[i], verdict[i])

Enabled == {i \in Idx : enabled[i]}

\* The entrants that have been counted down, or will never be.
Reported(i) == worker[i] \in {"cancelling", "notify", "exited"}
Unreported == {i \in Enabled : ~Reported(i)}

\* Mutant: the counting loop misses the last entrant.
CountButLast == Cardinality(Enabled \ {N})
InitialRemaining == Cardinality(Enabled)

Init ==
  /\ enabled \in [Idx -> BOOLEAN]
  /\ main = "launch"
  /\ cursor = 1
  /\ mtx = Free
  /\ remaining = InitialRemaining
  /\ winner = NoWinner
  /\ tokens = [i \in Idx |-> FALSE]
  /\ worker = [i \in Idx |-> "absent"]
  /\ verdict = [i \in Idx |-> "none"]
  /\ sweep = 1

-----------------------------------------------------------------------------
(* The calling thread *)

\* One turn of the launch loop: a disabled entrant is skipped.
LaunchNext ==
  /\ main = "launch" /\ cursor <= N
  /\ worker' = IF enabled[cursor] THEN [worker EXCEPT ![cursor] = "setup"] ELSE worker
  /\ cursor' = cursor + 1
  /\ UNCHANGED <<enabled, main, mtx, remaining, winner, tokens, verdict, sweep>>

\* std::thread's constructor throws.  Unwinding destroys `workers`: with no
\* thread in it the exception reaches the caller, with a joinable one in it
\* the process terminates.
LaunchFails ==
  /\ LaunchMayFail
  /\ main = "launch" /\ cursor <= N
  /\ enabled[cursor]
  /\ main' = IF \E i \in 1..(cursor - 1) : enabled[i] THEN "terminated" ELSE "threw"
  /\ UNCHANGED <<enabled, cursor, mtx, remaining, winner, tokens, worker, verdict, sweep>>

LaunchDone ==
  /\ main = "launch" /\ cursor > N
  /\ main' = "lock"
  /\ cursor' = 1
  /\ UNCHANGED <<enabled, mtx, remaining, winner, tokens, worker, verdict, sweep>>

\* Taking the lock, on the way into cv.wait and again after each wake-up.
MainLocks ==
  /\ main = "lock" /\ mtx = Free
  /\ mtx' = Main
  /\ main' = "test"
  /\ UNCHANGED <<enabled, cursor, remaining, winner, tokens, worker, verdict, sweep>>

\* The predicate of cv.wait, evaluated under the lock; waiting releases the
\* lock and blocks in one step.
Decided == winner # NoWinner \/ remaining = 0

MainTests ==
  /\ main = "test"
  /\ main' = IF Decided THEN "join" ELSE "blocked"
  /\ mtx' = Free
  /\ UNCHANGED <<enabled, cursor, remaining, winner, tokens, worker, verdict, sweep>>

\* A condition variable may wake its waiter for no reason.
SpuriousWakeup ==
  /\ main = "blocked"
  /\ main' = "lock"
  /\ UNCHANGED <<enabled, cursor, mtx, remaining, winner, tokens, worker, verdict, sweep>>

\* Mutant: a thread that was told to stop is not waited for.
JoinsUncancelled ==
  /\ main = "join" /\ cursor <= N
  /\ enabled[cursor] => worker[cursor] = "exited" \/ tokens[cursor]
  /\ cursor' = cursor + 1
  /\ UNCHANGED <<enabled, main, mtx, remaining, winner, tokens, worker, verdict, sweep>>

\* One turn of the join loop: it waits for the thread to end.
JoinNext ==
  /\ main = "join" /\ cursor <= N
  /\ enabled[cursor] => worker[cursor] = "exited"
  /\ cursor' = cursor + 1
  /\ UNCHANGED <<enabled, main, mtx, remaining, winner, tokens, worker, verdict, sweep>>

\* The result is read from shared.winner without the lock.
Return ==
  /\ main = "join" /\ cursor > N
  /\ main' = "returned"
  /\ UNCHANGED <<enabled, cursor, mtx, remaining, winner, tokens, worker, verdict, sweep>>

MainStep ==
  \/ LaunchNext \/ LaunchDone \/ MainLocks \/ MainTests \/ JoinNext \/ Return

-----------------------------------------------------------------------------
(* Entrant i's thread.  A terminated process runs no thread. *)

Stop(i, v) ==
  /\ verdict' = [verdict EXCEPT ![i] = v]
  /\ worker' = [worker EXCEPT ![i] = "report"]
  /\ UNCHANGED <<enabled, main, cursor, mtx, remaining, winner, tokens, sweep>>

\* What comes before the loop: the model is rejected (simplex throws, the
\* others return a status), the problem is too large for a dense engine, or
\* the loop begins.
Refuses(i) ==
  /\ worker[i] = "setup"
  /\ \E v \in {"noanswer", "threw"} : Stop(i, v)

Begins(i) ==
  /\ worker[i] = "setup"
  /\ worker' = [worker EXCEPT ![i] = "poll"]
  /\ UNCHANGED <<enabled, main, cursor, mtx, remaining, winner, tokens, verdict, sweep>>

\* The poll at the top of an iteration finds the token set ...
PollCancelled(i) ==
  /\ worker[i] = "poll" /\ tokens[i]
  /\ Stop(i, "cancelled")

\* ... or else the time limit passed ...
PollTimesOut(i) ==
  /\ TimeLimited
  /\ worker[i] = "poll" /\ ~tokens[i]
  /\ Stop(i, "noanswer")

\* ... or nothing to stop for.
PollProceeds(i) ==
  /\ worker[i] = "poll" /\ ~tokens[i]
  /\ worker' = [worker EXCEPT ![i] = "step"]
  /\ UNCHANGED <<enabled, main, cursor, mtx, remaining, winner, tokens, verdict, sweep>>

\* The rest of the iteration: it ends the solve, whatever the token says by
\* now, or leads to the next poll.
Concludes(i) ==
  /\ worker[i] = "step"
  /\ \E v \in Verdicts(entrants[i]) : Stop(i, v)

Continues(i) ==
  /\ worker[i] = "step"
  /\ worker' = [worker EXCEPT ![i] = "poll"]
  /\ UNCHANGED <<enabled, main, cursor, mtx, remaining, winner, tokens, verdict, sweep>>

\* Mutant: a later valid answer replaces the first.
AcceptsAlways(i) == ValidAnswer(i)
Accepts(i) == ValidAnswer(i) /\ winner = NoWinner

\* report(): take the lock, count down, and claim the race if the answer is
\* valid and the first.
ReportLocks(i) ==
  /\ worker[i] = "report" /\ mtx = Free
  /\ mtx' = i
  /\ remaining' = remaining - 1
  /\ sweep' = 1
  /\ winner' = IF Accepts(i) THEN i ELSE winner
  /\ worker' = [worker EXCEPT ![i] = IF Accepts(i) THEN "cancelling" ELSE "notify"]
  /\ UNCHANGED <<enabled, main, cursor, tokens, verdict>>

\* Mutant: the loop over the tokens misses the last one.
CancelsButLast(i) ==
  /\ worker[i] = "cancelling"
  /\ tokens' = [tokens EXCEPT ![sweep] = @ \/ (sweep # i /\ sweep < N)]
  /\ sweep' = sweep + 1
  /\ worker' = IF sweep = N THEN [worker EXCEPT ![i] = "notify"] ELSE worker
  /\ UNCHANGED <<enabled, main, cursor, mtx, remaining, winner, verdict>>

\* One turn of the loop that cancels every entrant but the winner.
CancelNext(i) ==
  /\ worker[i] = "cancelling"
  /\ tokens' = [tokens EXCEPT ![sweep] = @ \/ sweep # i]
  /\ sweep' = sweep + 1
  /\ worker' = IF sweep = N THEN [worker EXCEPT ![i] = "notify"] ELSE worker
  /\ UNCHANGED <<enabled, main, cursor, mtx, remaining, winner, verdict>>

\* Mutant: only the winner wakes the calling thread.
NotifiesIfWon(i) ==
  /\ worker[i] = "notify"
  /\ main' = IF main = "blocked" /\ winner = i THEN "lock" ELSE main
  /\ mtx' = Free
  /\ worker' = [worker EXCEPT ![i] = "exited"]
  /\ UNCHANGED <<enabled, cursor, remaining, winner, tokens, verdict, sweep>>

\* cv.notify_all(), the release of the lock, and the end of the thread.
Notify(i) ==
  /\ worker[i] = "notify"
  /\ main' = IF main = "blocked" THEN "lock" ELSE main
  /\ mtx' = Free
  /\ worker' = [worker EXCEPT ![i] = "exited"]
  /\ UNCHANGED <<enabled, cursor, remaining, winner, tokens, verdict, sweep>>

WorkerStep(i) ==
  \/ Refuses(i) \/ Begins(i)
  \/ PollCancelled(i) \/ PollTimesOut(i) \/ PollProceeds(i)
  \/ Concludes(i) \/ Continues(i)
  \/ ReportLocks(i) \/ CancelNext(i) \/ Notify(i)

-----------------------------------------------------------------------------
Running == main \notin Final

Stopped ==
  /\ ~Running
  /\ UNCHANGED vars

Next ==
  \/ MainStep
  \/ LaunchFails
  \/ SpuriousWakeup
  \/ Running /\ \E i \in Idx : WorkerStep(i)
  \/ Stopped

Spec == Init /\ [][Next]_vars

(***************************************************************************)
(* Threads are scheduled, and a thread that finds the lock free again and  *)
(* again gets it in the end (weak fairness would not do: spurious wake-ups *)
(* may make the calling thread take the lock any number of times).         *)
(* Nothing says that an engine ever stops by itself, a time limit is not   *)
(* relied on.                                                              *)
(***************************************************************************)
Fairness ==
  /\ WF_vars(MainStep)
  /\ \A i \in Idx : WF_vars(Running /\ WorkerStep(i))
  /\ \A i \in Idx : SF_vars(Running /\ ReportLocks(i))

FairSpec == Spec /\ Fairness

-----------------------------------------------------------------------------
(* Properties *)

TypeOK ==
  /\ enabled \in [Idx -> BOOLEAN]
  /\ main \in MainPC
  /\ cursor \in 1..(N + 1)
  /\ mtx \in Idx \cup {Free, Main}
  /\ remaining \in 0..N
  /\ winner \in Idx \cup {NoWinner}
  /\ tokens \in [Idx -> BOOLEAN]
  /\ worker \in [Idx -> WorkerPC]
  /\ verdict \in [Idx -> Verdict]
  /\ sweep \in 1..(N + 1)

\* shared.remaining always equals the number of enabled entrants that have
\* not yet been counted down, including those the launch loop has not
\* reached: the count cannot touch zero while somebody may still answer
\* (race.cpp, "Both counts are fixed BEFORE any thread exists").
RemainingIsExact == remaining = Cardinality(Unreported)

\* No valid answer is lost: as soon as an entrant whose engine came to a
\* valid answer has been counted down, the race has a winner, the winner's
\* own answer is valid, and a race that returns without a winner is one in
\* which every enabled entrant ended without a valid answer.
AnswerIsKept ==
  /\ \A i \in Idx : Reported(i) /\ ValidAnswer(i) => winner # NoWinner
  /\ winner # NoWinner => ValidAnswer(winner) /\ Reported(winner)
  /\ main = "returned" /\ winner = NoWinner =>
       \A i \in Enabled : worker[i] = "exited" /\ ~ValidAnswer(i)

\* When the calling thread starts to join with a winner in hand, every other
\* entrant, even one that is not launched, has been told to stop; the
\* winner's own token is never touched.
LosersAreTold ==
  /\ winner # NoWinner => ~tokens[winner]
  /\ main \in {"join", "returned"} /\ winner # NoWinner =>
       \A j \in Idx \ {winner} : tokens[j]
  /\ winner = NoWinner => \A j \in Idx : ~tokens[j]

\* When race_solve leaves, by returning or by an exception, no thread it
\* started is still alive and nobody holds the mutex that is about to be
\* destroyed.  The unlocked read of shared.winner therefore races with
\* nothing.
NothingOutlivesTheCall ==
  main \in {"returned", "threw"} =>
    /\ mtx = Free
    /\ \A i \in Idx : worker[i] \in {"absent", "exited"}
    /\ main = "returned" => \A i \in Enabled : worker[i] = "exited"

\* Once accepted, an answer is final: neither a second valid report nor a
\* late one changes which entrant won or what it said.
WinnerIsFinal ==
  [][winner # NoWinner =>
       winner' = winner /\ verdict'[winner] = verdict[winner]]_vars

\* A race that is decided, or whose engines have all reported, ends: every loser
\* sees its token and unwinds, and no wake-up is lost between the last report
\* and the wait.
DecidedRaceEnds ==
  ((winner # NoWinner \/ remaining = 0) /\ Running) ~> ~Running

\* What race_solve promises its caller.
Promise == INSTANCE FirstAnswer WITH
  Claimant <- Idx,
  NoAnswer <- NoWinner,
  entered <- Enabled,
  inside <- Unreported,
  answer <- winner,
  returned <- (main = "returned")

\* Every step of the race is a step of a single decision among the enabled
\* entrants, and the call returns only after each of them has left.
ImplementsFirstAnswer == Promise!Spec
=============================================================================
