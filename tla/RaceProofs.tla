------------------------------ MODULE RaceProofs ------------------------------
(***************************************************************************)
(* Proofs about the engine race, for any array of entrants, with and       *)
(* without a time limit and whether or not a thread may fail to start.     *)
(***************************************************************************)
EXTENDS Race, FiniteSetTheorems, TLAPS

\* Who may hold the mutex: a reporting entrant between counting itself down
\* and notifying, or the calling thread while it evaluates its predicate.
MutexInv ==
  /\ \A i \in Idx : mtx = i <=> worker[i] \in {"cancelling", "notify"}
  /\ mtx = Main <=> main = "test"

\* The entrants without a thread are the disabled ones and those the launch
\* loop has not reached; an engine still at work has said nothing yet.
ThreadInv ==
  /\ \A i \in Idx : worker[i] = "absent" <=>
       ~enabled[i] \/ (main \in {"launch", "threw", "terminated"} /\ i >= cursor)
  /\ \A i \in Idx : worker[i] \in {"absent", "setup", "poll", "step"} =>
       verdict[i] = "none"

\* The winner, its claim, and everybody else's silence.
WinnerInv ==
  /\ \A i \in Idx : Reported(i) /\ ValidAnswer(i) => winner # NoWinner
  /\ winner # NoWinner => ValidAnswer(winner) /\ Reported(winner)
  /\ \A i \in Idx : worker[i] = "cancelling" => winner = i /\ sweep <= N

\* The tokens set so far: none without a winner; with one, all but its own,
\* apart from those its loop has still to visit.
TokenInv ==
  /\ winner = NoWinner => \A j \in Idx : ~tokens[j]
  /\ winner # NoWinner => ~tokens[winner]
  /\ winner # NoWinner => \A j \in Idx \ {winner} :
       tokens[j] \/ (worker[winner] = "cancelling" /\ j >= sweep)

\* What the calling thread knows once it is past the wait.
JoinInv ==
  /\ main \in {"lock", "test", "blocked"} => cursor = 1
  /\ main \in {"join", "returned"} => Decided
  /\ main \in {"join", "returned"} /\ winner # NoWinner =>
       worker[winner] # "cancelling"
  /\ main \in {"join", "returned"} =>
       \A i \in Idx : i < cursor /\ enabled[i] => worker[i] = "exited"
  /\ main = "returned" => cursor = N + 1
  /\ main = "threw" => \A i \in Idx : worker[i] = "absent"

RaceInv ==
  /\ TypeOK
  /\ RemainingIsExact
  /\ MutexInv
  /\ ThreadInv
  /\ WinnerInv
  /\ TokenInv
  /\ JoinInv

-----------------------------------------------------------------------------
\* The array of entrants has a natural number of elements, each an engine.
LEMMA EntrantsType ==
  /\ N \in Nat
  /\ \A i \in Idx : entrants[i] \in Engine
BY EntrantsAssumption DEF N, Idx

\* The set of entrants that have not reported is finite.
LEMMA UnreportedFinite == IsFiniteSet(Unreported)
<1>1. IsFiniteSet(Idx)
  BY EntrantsType, FS_Interval DEF Idx
<1>2. Unreported \subseteq Idx
  BY DEF Unreported, Enabled
<1> QED
  BY <1>1, <1>2, FS_Subset

\* An entrant with a thread that has not reported is still counted.
LEMMA ActiveIsCounted ==
  ASSUME RaceInv, NEW i \in Idx, ~Reported(i), worker[i] # "absent"
  PROVE  /\ i \in Unreported
         /\ remaining \in Nat \ {0}
         /\ Cardinality(Unreported \ {i}) = remaining - 1
<1>1. enabled[i]
  BY DEF RaceInv, ThreadInv, TypeOK
<1>2. i \in Unreported
  BY <1>1 DEF Unreported, Enabled
<1>3. /\ Cardinality(Unreported \ {i}) = Cardinality(Unreported) - 1
      /\ Cardinality(Unreported) \in Nat
      /\ Cardinality(Unreported \ {i}) \in Nat
  BY <1>2, UnreportedFinite, FS_RemoveElement, FS_CardinalityType
<1> QED
  BY <1>2, <1>3 DEF RaceInv, RemainingIsExact

-----------------------------------------------------------------------------
\* The invariant holds before the first thread starts.
LEMMA RaceInit == Init => RaceInv
<1> SUFFICES ASSUME Init PROVE RaceInv
  OBVIOUS
<1> USE EntrantsType
<1>1. Unreported = Enabled
  BY DEF Init, Unreported, Enabled, Reported
<1>2. IsFiniteSet(Idx) /\ Cardinality(Idx) = N
  BY FS_Interval DEF Idx
<1>3. Cardinality(Enabled) \in 0..N
  <2>1. Enabled \subseteq Idx
    BY DEF Enabled
  <2> QED
    BY <1>2, <2>1, FS_Subset, FS_CardinalityType
<1>4. TypeOK
  BY <1>3 DEF Init, TypeOK, InitialRemaining, MainPC, WorkerPC, Verdict, Free, NoWinner
<1>5. RemainingIsExact
  BY <1>1 DEF Init, RemainingIsExact, InitialRemaining
<1>6. MutexInv
  BY DEF Init, MutexInv, Free, Main, Idx
<1>7. ThreadInv
  BY DEF Init, ThreadInv, Idx
<1>8. WinnerInv /\ TokenInv /\ JoinInv
  BY DEF Init, WinnerInv, TokenInv, JoinInv, Reported, NoWinner
<1> QED
  BY <1>4, <1>5, <1>6, <1>7, <1>8 DEF RaceInv

\* A step of an entrant's solve that neither starts nor reports anything.
LEMMA SolveStep ==
  ASSUME RaceInv, NEW i \in Idx, worker[i] \in {"setup", "poll", "step"},
         NEW pc \in {"poll", "step", "report"}, NEW v \in Verdict,
         worker' = [worker EXCEPT ![i] = pc],
         verdict' = [verdict EXCEPT ![i] = v],
         pc = "report" \/ v = "none",
         UNCHANGED <<enabled, main, cursor, mtx, remaining, winner, tokens, sweep>>
  PROVE  RaceInv'
<1> USE EntrantsType
<1>1. Unreported' = Unreported
  BY DEF RaceInv, TypeOK, Unreported, Enabled, Reported
<1>2. TypeOK'
  BY DEF RaceInv, TypeOK, WorkerPC
<1>3. RemainingIsExact'
  BY <1>1 DEF RaceInv, RemainingIsExact
<1>4. MutexInv'
  BY DEF RaceInv, MutexInv, TypeOK
<1>5. ThreadInv'
  BY DEF RaceInv, ThreadInv, TypeOK
<1>6. WinnerInv'
  BY DEF RaceInv, WinnerInv, TypeOK, Reported, ValidAnswer, NoWinner, Idx
<1>7. TokenInv'
  BY DEF RaceInv, WinnerInv, TokenInv, TypeOK, Reported, NoWinner, Idx
<1>8. JoinInv'
  <2>1. main # "threw"
    BY DEF RaceInv, JoinInv
  <2> QED
    BY <2>1 DEF RaceInv, WinnerInv, JoinInv, TypeOK, Decided, Reported, NoWinner, Idx
<1> QED
  BY <1>2, <1>3, <1>4, <1>5, <1>6, <1>7, <1>8 DEF RaceInv

\* The calling thread's steps, and the ones of the system it runs on.
LEMMA MainPreserves ==
  ASSUME RaceInv, MainStep \/ LaunchFails \/ SpuriousWakeup
  PROVE  RaceInv'
<1> USE EntrantsType DEF Free, Main, NoWinner, Idx
<1>1. CASE LaunchNext
  <2>1. Unreported' = Unreported
    BY <1>1 DEF LaunchNext, RaceInv, TypeOK, ThreadInv, Unreported, Enabled, Reported
  <2>2. TypeOK'
    BY <1>1 DEF LaunchNext, RaceInv, TypeOK, WorkerPC
  <2>3. RemainingIsExact'
    BY <1>1, <2>1 DEF LaunchNext, RaceInv, RemainingIsExact
  <2>4. MutexInv'
    BY <1>1 DEF LaunchNext, RaceInv, TypeOK, MutexInv, ThreadInv
  <2>5. ThreadInv'
    BY <1>1 DEF LaunchNext, RaceInv, TypeOK, ThreadInv
  <2>6. WinnerInv'
    BY <1>1 DEF LaunchNext, RaceInv, TypeOK, ThreadInv, WinnerInv, Reported, ValidAnswer
  <2>7. TokenInv'
    BY <1>1 DEF LaunchNext, RaceInv, TypeOK, ThreadInv, WinnerInv, TokenInv, Reported
  <2>8. JoinInv'
    BY <1>1 DEF LaunchNext, RaceInv, JoinInv
  <2> QED
    BY <2>2, <2>3, <2>4, <2>5, <2>6, <2>7, <2>8 DEF RaceInv
<1>2. CASE JoinNext
  <2>1. UNCHANGED <<enabled, main, mtx, remaining, winner, tokens, worker, verdict, sweep>>
    BY <1>2 DEF JoinNext
  <2>2. Unreported' = Unreported
    BY <2>1 DEF Unreported, Enabled, Reported
  <2>3. TypeOK' /\ RemainingIsExact' /\ MutexInv' /\ WinnerInv' /\ TokenInv'
    BY <1>2, <2>1, <2>2 DEF JoinNext, RaceInv, TypeOK, RemainingIsExact, MutexInv,
                            WinnerInv, TokenInv, Reported, ValidAnswer
  <2>4. ThreadInv'
    BY <1>2, <2>1 DEF JoinNext, RaceInv, TypeOK, ThreadInv
  <2>5. JoinInv'
    BY <1>2, <2>1 DEF JoinNext, RaceInv, TypeOK, JoinInv, Decided
  <2> QED
    BY <2>3, <2>4, <2>5 DEF RaceInv
<1>3. CASE LaunchDone \/ MainLocks \/ MainTests \/ Return \/ LaunchFails \/ SpuriousWakeup
  <2>1. UNCHANGED <<enabled, remaining, winner, tokens, worker, verdict, sweep>>
    BY <1>3 DEF LaunchDone, MainLocks, MainTests, Return, LaunchFails, SpuriousWakeup
  <2>2. Unreported' = Unreported
    BY <2>1 DEF Unreported, Enabled, Reported
  <2>3. TypeOK'
    BY <1>3, <2>1 DEF LaunchDone, MainLocks, MainTests, Return, LaunchFails,
                      SpuriousWakeup, RaceInv, TypeOK, MainPC, Final
  <2>4. RemainingIsExact'
    BY <2>1, <2>2 DEF RaceInv, RemainingIsExact
  <2>5. MutexInv'
    BY <1>3, <2>1 DEF LaunchDone, MainLocks, MainTests, Return, LaunchFails,
                      SpuriousWakeup, RaceInv, TypeOK, MutexInv
  <2>6. ThreadInv'
    BY <1>3, <2>1 DEF LaunchDone, MainLocks, MainTests, Return, LaunchFails,
                      SpuriousWakeup, RaceInv, TypeOK, ThreadInv
  <2>7. WinnerInv' /\ TokenInv'
    BY <2>1 DEF RaceInv, WinnerInv, TokenInv, Reported, ValidAnswer
  <2>8. JoinInv'
    <3>1. CASE LaunchDone \/ MainLocks \/ SpuriousWakeup
      BY <3>1, <2>1 DEF LaunchDone, MainLocks, SpuriousWakeup, RaceInv, JoinInv
    <3>2. CASE MainTests
      \* The calling thread holds the lock, so no report is under way; the
      \* launch loop left the cursor at 1, so nothing has been joined yet.
      BY <3>2, <2>1 DEF MainTests, RaceInv, TypeOK, JoinInv, MutexInv, Decided
    <3>3. CASE Return
      BY <3>3, <2>1 DEF Return, RaceInv, TypeOK, JoinInv, Decided
    <3>4. CASE LaunchFails
      BY <3>4, <2>1 DEF LaunchFails, RaceInv, TypeOK, ThreadInv, JoinInv
    <3> QED
      BY <1>3, <3>1, <3>2, <3>3, <3>4
  <2> QED
    BY <2>3, <2>4, <2>5, <2>6, <2>7, <2>8 DEF RaceInv
<1> QED
  BY <1>1, <1>2, <1>3 DEF MainStep

\* Counting down, and claiming the race or not.
LEMMA ReportPreserves ==
  ASSUME RaceInv, NEW i \in Idx, ReportLocks(i)
  PROVE  RaceInv'
<1> USE EntrantsType DEF Free, Main, NoWinner, Idx
<1>1. /\ i \in Unreported
      /\ remaining \in Nat \ {0}
      /\ Cardinality(Unreported \ {i}) = remaining - 1
  BY ActiveIsCounted DEF ReportLocks, Reported
<1>2. Unreported' = Unreported \ {i}
  BY DEF ReportLocks, RaceInv, TypeOK, Unreported, Enabled, Reported
<1>3. TypeOK'
  BY <1>1 DEF ReportLocks, RaceInv, TypeOK, WorkerPC
<1>4. RemainingIsExact'
  BY <1>1, <1>2 DEF ReportLocks, RemainingIsExact
<1>5. MutexInv'
  BY DEF ReportLocks, RaceInv, TypeOK, MutexInv
<1>6. ThreadInv'
  BY DEF ReportLocks, RaceInv, TypeOK, ThreadInv
<1>7. \A j \in Idx : worker[j] \notin {"cancelling", "notify"}
  BY DEF ReportLocks, RaceInv, MutexInv
<1>8. WinnerInv'
  BY <1>7 DEF ReportLocks, RaceInv, TypeOK, WinnerInv, Reported, ValidAnswer, Accepts
<1>9. TokenInv'
  BY <1>7 DEF ReportLocks, RaceInv, TypeOK, WinnerInv, TokenInv, Reported, Accepts
<1>10. JoinInv'
  \* Past the wait nobody is left to claim: there is a winner, or nobody is
  \* still counted.
  <2>1. main \in {"join", "returned"} => winner # NoWinner
    BY <1>1 DEF RaceInv, JoinInv, Decided
  <2>2. main # "threw"
    BY DEF ReportLocks, RaceInv, JoinInv
  <2> QED
    BY <2>1, <2>2 DEF ReportLocks, RaceInv, TypeOK, JoinInv, Decided, Accepts
<1> QED
  BY <1>3, <1>4, <1>5, <1>6, <1>8, <1>9, <1>10 DEF RaceInv

\* Setting one loser's token.
LEMMA CancelPreserves ==
  ASSUME RaceInv, NEW i \in Idx, CancelNext(i)
  PROVE  RaceInv'
<1> USE EntrantsType DEF Free, Main, NoWinner, Idx
<1>1. winner = i /\ sweep \in Idx
  BY DEF CancelNext, RaceInv, TypeOK, WinnerInv
<1>2. Unreported' = Unreported
  BY DEF CancelNext, RaceInv, TypeOK, Unreported, Enabled, Reported
<1>3. TypeOK'
  BY <1>1 DEF CancelNext, RaceInv, TypeOK, WorkerPC
<1>4. RemainingIsExact' /\ MutexInv' /\ ThreadInv'
  BY <1>2 DEF CancelNext, RaceInv, TypeOK, RemainingIsExact, MutexInv, ThreadInv
<1>5. WinnerInv'
  BY <1>1 DEF CancelNext, RaceInv, TypeOK, WinnerInv, Reported, ValidAnswer
<1>6. TokenInv'
  <2>1. /\ tokens' = [tokens EXCEPT ![sweep] = tokens[sweep] \/ sweep # i]
        /\ sweep' = sweep + 1
        /\ sweep < N => worker' = worker
        /\ winner' = winner
    BY DEF CancelNext, RaceInv, TypeOK
  <2>2. ~tokens'[i]
    BY <1>1, <2>1 DEF RaceInv, TypeOK, TokenInv
  <2>3. ASSUME NEW j \in Idx \ {i}
        PROVE  tokens'[j] \/ (worker'[i] = "cancelling" /\ j >= sweep')
    <3>1. tokens[j] \/ j = sweep => tokens'[j]
      BY <1>1, <2>1, <2>3 DEF RaceInv, TypeOK
    <3>2. tokens[j] \/ j >= sweep
      BY <1>1, <2>3 DEF RaceInv, TokenInv
    <3>3. j > sweep => sweep < N /\ j >= sweep'
      BY <1>1, <2>1, <2>3
    <3> QED
      BY <1>1, <2>1, <3>1, <3>2, <3>3 DEF CancelNext
  <2> QED
    BY <1>1, <2>1, <2>2, <2>3 DEF TokenInv
<1>7. JoinInv'
  BY <1>1 DEF CancelNext, RaceInv, TypeOK, JoinInv, Decided
<1> QED
  BY <1>3, <1>4, <1>5, <1>6, <1>7 DEF RaceInv

\* Waking the calling thread and ending the entrant's own.
LEMMA NotifyPreserves ==
  ASSUME RaceInv, NEW i \in Idx, Notify(i)
  PROVE  RaceInv'
<1> USE EntrantsType DEF Free, Main, NoWinner, Idx
<1>1. Unreported' = Unreported
  BY DEF Notify, RaceInv, TypeOK, Unreported, Enabled, Reported
<1>2. TypeOK'
  BY DEF Notify, RaceInv, TypeOK, WorkerPC, MainPC
<1>3. RemainingIsExact' /\ MutexInv' /\ ThreadInv'
  BY <1>1 DEF Notify, RaceInv, TypeOK, RemainingIsExact, MutexInv, ThreadInv
<1>4. WinnerInv' /\ TokenInv'
  BY DEF Notify, RaceInv, TypeOK, WinnerInv, TokenInv, Reported, ValidAnswer
<1>5. JoinInv'
  BY DEF Notify, RaceInv, TypeOK, JoinInv, Decided
<1> QED
  BY <1>2, <1>3, <1>4, <1>5 DEF RaceInv

\* Every step preserves the invariant.
LEMMA RaceStep == RaceInv /\ [Next]_vars => RaceInv'
<1> SUFFICES ASSUME RaceInv, [Next]_vars PROVE RaceInv'
  OBVIOUS
<1>1. CASE MainStep \/ LaunchFails \/ SpuriousWakeup
  BY <1>1, MainPreserves
<1>2. ASSUME NEW i \in Idx, WorkerStep(i) PROVE RaceInv'
  <2>1. CASE Refuses(i) \/ PollCancelled(i) \/ PollTimesOut(i) \/ Concludes(i)
    <3>1. PICK v \in Verdict : Stop(i, v) /\ worker[i] \in {"setup", "poll", "step"}
      BY <2>1 DEF Refuses, PollCancelled, PollTimesOut, Concludes, Verdicts, Verdict
    <3> QED
      BY <3>1, SolveStep DEF Stop
  <2>2. CASE Begins(i) \/ PollProceeds(i) \/ Continues(i)
    <3>1. PICK pc \in {"poll", "step"} : worker' = [worker EXCEPT ![i] = pc]
      BY <2>2 DEF Begins, PollProceeds, Continues
    <3>2. worker[i] \in {"setup", "poll", "step"} /\ UNCHANGED <<enabled, main, cursor,
            mtx, remaining, winner, tokens, verdict, sweep>>
      BY <2>2 DEF Begins, PollProceeds, Continues
    <3>3. verdict' = [verdict EXCEPT ![i] = "none"] /\ "none" \in Verdict
      BY <3>2 DEF RaceInv, ThreadInv, TypeOK, Verdict
    <3> QED
      BY <3>1, <3>2, <3>3, SolveStep
  <2>3. CASE ReportLocks(i)
    BY <2>3, ReportPreserves
  <2>4. CASE CancelNext(i)
    BY <2>4, CancelPreserves
  <2>5. CASE Notify(i)
    BY <2>5, NotifyPreserves
  <2> QED
    BY <1>2, <2>1, <2>2, <2>3, <2>4, <2>5 DEF WorkerStep
<1>3. CASE UNCHANGED vars
  BY <1>3 DEF vars, RaceInv, TypeOK, RemainingIsExact, Unreported, Enabled, Reported,
              MutexInv, ThreadInv, WinnerInv, TokenInv, JoinInv, Decided, ValidAnswer
<1> QED
  BY <1>1, <1>2, <1>3 DEF Next, Stopped

\* The invariant holds in every reachable state.
LEMMA RaceInvariant == Spec => []RaceInv
BY RaceInit, RaceStep, PTL DEF Spec

-----------------------------------------------------------------------------
\* Every variable of the race keeps its type; in particular the count of
\* entrants still to report never drops below zero.
THEOREM RaceTypeCorrect == Spec => []TypeOK
<1>1. RaceInv => TypeOK
  BY DEF RaceInv
<1> QED
  BY <1>1, RaceInvariant, PTL

\* shared.remaining is always the number of enabled entrants still to report,
\* whatever the launch loop has reached.
THEOREM RemainingCorrect == Spec => []RemainingIsExact
<1>1. RaceInv => RemainingIsExact
  BY DEF RaceInv
<1> QED
  BY <1>1, RaceInvariant, PTL

\* A valid answer that was reported is never lost, and "no winner" means that
\* nobody had one.
THEOREM AnswerKept == Spec => []AnswerIsKept
<1>1. ASSUME RaceInv, main = "returned", winner = NoWinner, NEW i \in Enabled
      PROVE  worker[i] = "exited" /\ ~ValidAnswer(i)
  <2>1. i \in Idx /\ enabled[i] /\ i < cursor
    BY <1>1, EntrantsType DEF RaceInv, JoinInv, Enabled, Idx
  <2>2. worker[i] = "exited"
    BY <1>1, <2>1 DEF RaceInv, JoinInv
  <2> QED
    BY <1>1, <2>1, <2>2 DEF RaceInv, WinnerInv, Reported
<1>2. RaceInv => AnswerIsKept
  BY <1>1 DEF RaceInv, WinnerInv, AnswerIsKept
<1> QED
  BY <1>2, RaceInvariant, PTL

\* Past the wait of a decided race every loser's token is set, and nobody ever
\* sets the winner's.
THEOREM LosersTold == Spec => []LosersAreTold
<1>1. RaceInv => LosersAreTold
  BY DEF RaceInv, TokenInv, JoinInv, LosersAreTold
<1> QED
  BY <1>1, RaceInvariant, PTL

\* race_solve leaves no thread and no held mutex behind, also when a thread
\* fails to start.
THEOREM NothingOutlives == Spec => []NothingOutlivesTheCall
<1>1. ASSUME RaceInv, main = "returned", NEW i \in Idx
      PROVE  worker[i] \in {"absent", "exited"} /\ (enabled[i] => worker[i] = "exited")
  <2>1. i < cursor
    BY <1>1, EntrantsType DEF RaceInv, JoinInv, Idx
  <2> QED
    BY <1>1, <2>1 DEF RaceInv, JoinInv, ThreadInv, TypeOK
<1>2. ASSUME RaceInv, main \in {"returned", "threw"}
      PROVE  mtx = Free
  <2>1. \A i \in Idx : worker[i] \in {"absent", "exited"}
    BY <1>1, <1>2 DEF RaceInv, JoinInv
  <2> QED
    BY <1>2, <2>1 DEF RaceInv, TypeOK, MutexInv
<1>3. RaceInv => NothingOutlivesTheCall
  BY <1>1, <1>2 DEF RaceInv, JoinInv, NothingOutlivesTheCall, Enabled
<1> QED
  BY <1>3, RaceInvariant, PTL

\* The winner and its verdict never change.
THEOREM WinnerFinal == Spec => WinnerIsFinal
<1>1. ASSUME RaceInv, [Next]_vars, winner # NoWinner
      PROVE  winner' = winner /\ verdict'[winner] = verdict[winner]
  <2>1. winner \in Idx /\ Reported(winner)
    BY <1>1 DEF RaceInv, TypeOK, WinnerInv
  <2>2. CASE MainStep \/ LaunchFails \/ SpuriousWakeup \/ UNCHANGED vars
    BY <2>2 DEF MainStep, LaunchNext, LaunchDone, MainLocks, MainTests, JoinNext, Return,
                LaunchFails, SpuriousWakeup, vars
  <2>3. ASSUME NEW i \in Idx, WorkerStep(i)
        PROVE  winner' = winner /\ verdict'[winner] = verdict[winner]
    BY <1>1, <2>1, <2>3 DEF RaceInv, TypeOK, Reported, WorkerStep, Refuses, Begins,
         PollCancelled, PollTimesOut, PollProceeds, Concludes, Continues, Stop,
         ReportLocks, Accepts, CancelNext, Notify
  <2> QED
    BY <1>1, <2>2, <2>3 DEF Next, Stopped
<1>2. RaceInv /\ [Next]_vars =>
        [winner # NoWinner => winner' = winner /\ verdict'[winner] = verdict[winner]]_vars
  BY <1>1
<1> QED
  BY <1>2, RaceInvariant, PTL DEF Spec, WinnerIsFinal

-----------------------------------------------------------------------------
\* The race is a single decision among its enabled entrants: an entrant leaves
\* when it counts itself down, as the one that answered or as one that was not
\* heard, and the call returns after the last of them.
THEOREM RaceImplementsFirstAnswer == Spec => ImplementsFirstAnswer
<1>1. Init => Promise!Init
  BY DEF Init, Promise!Init, Unreported, Enabled, Reported
<1>2. ASSUME RaceInv, [Next]_vars
      PROVE  [Promise!Next]_(Promise!vars)
  <2>1. CASE LaunchNext
    <3>1. Unreported' = Unreported
      BY <1>2, <2>1 DEF LaunchNext, RaceInv, TypeOK, ThreadInv, Unreported, Enabled, Reported
    <3> QED
      BY <2>1, <3>1 DEF LaunchNext, Promise!vars, Enabled
  <2>2. CASE Return
    <3>1. Unreported = {}
      BY <1>2, <2>2, EntrantsType DEF Return, RaceInv, TypeOK, JoinInv, Unreported, Enabled,
                                      Reported, Idx
    <3> QED
      BY <2>2, <3>1 DEF Return, Promise!Next, Promise!Return, Unreported, Enabled, Reported
  <2>3. CASE LaunchDone \/ MainLocks \/ MainTests \/ JoinNext \/ LaunchFails \/ SpuriousWakeup
    BY <2>3 DEF LaunchDone, MainLocks, MainTests, JoinNext, LaunchFails, SpuriousWakeup,
                Promise!vars, Unreported, Enabled, Reported
  <2>4. ASSUME NEW i \in Idx, ReportLocks(i)
        PROVE  Promise!Next
    <3>1. i \in Unreported
      BY <1>2, <2>4, ActiveIsCounted DEF ReportLocks, Reported
    <3>2. Unreported' = Unreported \ {i}
      BY <1>2, <2>4 DEF ReportLocks, RaceInv, TypeOK, Unreported, Enabled, Reported
    <3>3. Enabled' = Enabled /\ main' = main
      BY <2>4 DEF ReportLocks, Enabled
    <3>4. CASE Accepts(i)
      BY <2>4, <3>1, <3>2, <3>3, <3>4 DEF ReportLocks, Accepts, Promise!Next, Promise!Claim
    <3>5. CASE ~Accepts(i)
      BY <2>4, <3>1, <3>2, <3>3, <3>5 DEF ReportLocks, Promise!Next, Promise!Withdraw
    <3> QED
      BY <3>4, <3>5
  <2>5. ASSUME NEW i \in Idx, WorkerStep(i), ~ReportLocks(i)
        PROVE  UNCHANGED Promise!vars
    <3>1. Unreported' = Unreported /\ Enabled' = Enabled
      BY <1>2, <2>5 DEF RaceInv, TypeOK, Unreported, Enabled, Reported, WorkerStep, Refuses,
           Begins, PollCancelled, PollTimesOut, PollProceeds, Concludes, Continues, Stop,
           CancelNext, Notify
    <3>2. winner' = winner /\ (main' = "returned") = (main = "returned")
      BY <2>5 DEF WorkerStep, Refuses, Begins, PollCancelled, PollTimesOut, PollProceeds,
           Concludes, Continues, Stop, CancelNext, Notify
    <3> QED
      BY <3>1, <3>2 DEF Promise!vars
  <2>6. CASE UNCHANGED vars
    BY <2>6 DEF vars, Promise!vars, Unreported, Enabled, Reported
  <2> QED
    BY <1>2, <2>1, <2>2, <2>3, <2>4, <2>5, <2>6 DEF Next, MainStep, Stopped
<1> QED
  BY <1>1, <1>2, RaceInvariant, PTL DEF Spec, ImplementsFirstAnswer, Promise!Spec
=============================================================================
