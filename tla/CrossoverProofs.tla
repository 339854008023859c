--------------------------- MODULE CrossoverProofs ---------------------------
(***************************************************************************)
(* Proofs about the concurrent crossover, for any number of checkpoints    *)
(* and any length of the spiral's window, with and without failures of the *)
(* device; and about the ownership of the device memory that its PDHG      *)
(* thread works in, for any number of handles, backends and blocks and any *)
(* sizes: a block has one owner, and memory is never freed twice nor used  *)
(* beyond what a handle owns.                                              *)
(***************************************************************************)
EXTENDS Crossover, DeviceMemory, FiniteSetTheorems, TLAPS

Active == {k \in Attempt : attempt[k] \in {"solve", "report"}}
Jumped == {k \in Attempt : isJump[k]}
Literals == spawned - jumps

\* Where PDHG can no longer launch anything.
PdhgEnded == pdhg \in {"notify", "exited"}

\* Attempts are numbered in the order of their threads; PDHG's place in the
\* callback bounds how many there can be.
SpawnInv ==
  /\ \A k \in Attempt : attempt[k] = "absent" <=> k > spawned
  /\ \A k \in Attempt : k > spawned => ~isJump[k]
  /\ pdhg \in {"check", "launch"} => checkpoints >= 1 /\ spawned <= 2 * (checkpoints - 1)
  /\ pdhg \in {"window", "launchJump"} => checkpoints >= 1 /\ spawned <= 2 * checkpoints - 1
  /\ spawned <= 2 * checkpoints
  /\ main = "entry" => pdhg = "absent"
  /\ pdhgFinished <=> PdhgEnded

\* The two counters and the threads they stand for.
CountInv ==
  /\ launched = spawned + (IF verdict[Fallback] = "none" THEN 0 ELSE 1)
  /\ launched - finished = Cardinality(Active)
  /\ jumps = Cardinality(Jumped)

\* The winner and the stop flags.
WinnerInv ==
  /\ \A k \in Attempt : attempt[k] \in {"absent", "solve"} => verdict[k] = "none"
  /\ \A k \in Attempt : attempt[k] = "exited" /\ is_valid(verdict[k]) => ~Undecided
  /\ is_valid(verdict[Fallback]) => ~Undecided
  /\ ~Undecided => is_valid(verdict[winner])
  /\ \A k \in Attempt : winner = k => attempt[k] = "exited"
  /\ winner \in Attempt => pdhgToken /\ \A k \in 1..spawned : tokens[k]

\* What the calling thread knows past its wait.
MainInv ==
  /\ main \in {"entry", "test", "blocked", "decide", "fallback"} =>
       verdict[Fallback] = "none"
  /\ main \in {"decide", "fallback"} /\ Undecided => PdhgEnded /\ Active = {}
  /\ main = "fallback" => Undecided /\ hasPoint
  /\ main \in {"joinPdhg", "joinAttempts"} /\ Undecided =>
       /\ PdhgEnded /\ Active = {}
       /\ hasPoint => verdict[Fallback] # "none"
  /\ main = "returned" /\ Undecided =>
       /\ Active = {} /\ (pdhg = "absent" \/ PdhgEnded)
       /\ pdhg = "absent" => ~hasPoint /\ verdict[Fallback] = "none"
       /\ hasPoint => verdict[Fallback] # "none"
  /\ verdict[Fallback] # "none" => PdhgEnded /\ Active = {}
  /\ main = "joinAttempts" => pdhg = "exited"
  /\ main = "returned" => pdhg \in {"absent", "exited"} /\ Active = {}
  /\ pdhg = "absent" => ~hasPoint /\ spawned = 0 /\ Undecided

\* How the window of points follows the literal attempts.
HistoryInv ==
  /\ jumps > 0 => Literals >= jumps + Window - 1
  /\ Undecided /\ pdhg \notin {"window", "launchJump"} =>
       history <= Literals /\ (history < Window => jumps = 0)
  /\ Undecided /\ pdhg = "window" =>
       /\ history + 1 <= Literals
       /\ history < Window => jumps = 0
       /\ jumps > 0 => Literals >= jumps + Window
  /\ Undecided /\ pdhg = "launchJump" => Literals >= jumps + Window /\ history = Window

CrossoverInv ==
  /\ TypeOK
  /\ SpawnInv
  /\ CountInv
  /\ WinnerInv
  /\ MainInv
  /\ HistoryInv

-----------------------------------------------------------------------------
\* The number of attempts is a natural number, and so is any count of them.
LEMMA AttemptType ==
  /\ MaxCheckpoints \in Nat /\ Window \in Nat \ {0}
  /\ MaxAttempts \in Nat /\ MaxAttempts = 2 * MaxCheckpoints
  /\ IsFiniteSet(Attempt) /\ Cardinality(Attempt) = MaxAttempts
  /\ Fallback \notin Attempt /\ NoWinner \notin Attempt
<1>1. MaxAttempts \in Nat
  BY BoundsAssumption DEF MaxAttempts
<1>2. IsFiniteSet(1..MaxAttempts) /\ Cardinality(1..MaxAttempts) = MaxAttempts
  BY <1>1, FS_Interval
<1> QED
  BY <1>1, <1>2, BoundsAssumption DEF MaxAttempts, Attempt, Fallback, NoWinner

\* The threads that are counted are finitely many.
LEMMA CountedSets ==
  /\ IsFiniteSet(Active) /\ Cardinality(Active) \in 0..MaxAttempts
  /\ IsFiniteSet(Jumped) /\ Cardinality(Jumped) \in 0..MaxAttempts
<1>1. Active \subseteq Attempt /\ Jumped \subseteq Attempt
  BY DEF Active, Jumped
<1>2. /\ IsFiniteSet(Active) /\ Cardinality(Active) <= Cardinality(Attempt)
      /\ IsFiniteSet(Jumped) /\ Cardinality(Jumped) <= Cardinality(Attempt)
  BY <1>1, AttemptType, FS_Subset
<1> QED
  BY <1>2, AttemptType, FS_CardinalityType

-----------------------------------------------------------------------------
\* The invariant holds before PDHG is started.
LEMMA CrossoverInit == Init => CrossoverInv
<1> SUFFICES ASSUME Init PROVE CrossoverInv
  OBVIOUS
<1> USE AttemptType
<1>1. TypeOK
  <2>1. verdict \in [Attempt \cup {Fallback} -> Verdict]
    BY DEF Init, Verdict
  <2>2. attempt \in [Attempt -> AttemptPC]
    BY DEF Init, AttemptPC
  <2>3. isJump \in [Attempt -> BOOLEAN] /\ tokens \in [Attempt -> BOOLEAN]
    BY DEF Init
  <2>4. winner \in Attempt \cup {Fallback, NoWinner}
    BY DEF Init
  <2>5. main \in MainPC /\ pdhg \in PdhgPC
    BY DEF Init, MainPC, PdhgPC
  <2>6. /\ checkpoints \in 0..MaxCheckpoints /\ history \in 0..Window
        /\ launched \in 0..(MaxAttempts + 1) /\ finished \in 0..(MaxAttempts + 1)
        /\ jumps \in 0..MaxAttempts /\ spawned \in 0..MaxAttempts
    BY DEF Init
  <2>7. pdhgToken \in BOOLEAN /\ hasPoint \in BOOLEAN /\ pdhgFinished \in BOOLEAN
    BY DEF Init
  <2> QED
    BY <2>1, <2>2, <2>3, <2>4, <2>5, <2>6, <2>7 DEF TypeOK
<1>2. SpawnInv
  BY DEF Init, SpawnInv, Attempt, PdhgEnded
<1>3. CountInv
  <2>1. Active = {} /\ Jumped = {}
    BY DEF Init, Active, Jumped
  <2> QED
    BY <2>1, FS_EmptySet DEF Init, CountInv, Fallback
<1>4. WinnerInv /\ MainInv
  BY DEF Init, WinnerInv, MainInv, is_valid, Undecided, NoWinner, Fallback
<1>5. HistoryInv
  BY DEF Init, HistoryInv, Literals, Undecided
<1> QED
  BY <1>1, <1>2, <1>3, <1>4, <1>5 DEF CrossoverInv

\* PDHG's own steps, those of its callback that launch nothing included.
LEMMA PdhgPreserves ==
  ASSUME CrossoverInv, Running,
         \/ PdhgCancelled \/ PdhgOutOfBudget \/ PdhgBreaksDown
         \/ ReachCheckpoint \/ CheckWinner \/ PushPoint \/ TestConvergence
         \/ StorePdhgResult \/ PdhgNotifies \/ PdhgThrows
  PROVE  CrossoverInv'
<1> USE AttemptType DEF PdhgGoes, Woken
<1> DEFINE Quiet == PdhgCancelled \/ PdhgOutOfBudget \/ PdhgBreaksDown \/ CheckWinner
                    \/ TestConvergence \/ PdhgThrows
<1>1. UNCHANGED <<countVars, attemptVars, stopVars>>
  BY DEF PdhgCancelled, PdhgOutOfBudget, PdhgBreaksDown, ReachCheckpoint, CheckWinner,
         PushPoint, TestConvergence, StorePdhgResult, PdhgNotifies, PdhgThrows
<1>2. UNCHANGED <<launched, finished, jumps, spawned, attempt, isJump, verdict,
                  pdhgToken, tokens, winner>>
  BY <1>1 DEF countVars, attemptVars, stopVars
<1>3. CountInv' /\ WinnerInv'
  BY <1>2 DEF CrossoverInv, CountInv, WinnerInv, Active, Jumped, Undecided, Literals
<1>4. TypeOK'
  <2>1. CASE ReachCheckpoint
    BY <1>2, <2>1 DEF ReachCheckpoint, CrossoverInv, TypeOK, PdhgPC
  <2>2. CASE PushPoint
    BY <1>2, <2>2 DEF PushPoint, CrossoverInv, TypeOK, PdhgPC
  <2>3. CASE Quiet
    <3>1. CASE PdhgCancelled \/ PdhgOutOfBudget \/ PdhgBreaksDown
      BY <1>2, <3>1 DEF PdhgCancelled, PdhgOutOfBudget, PdhgBreaksDown, pdhgVars,
                        CrossoverInv, TypeOK, PdhgPC
    <3>2. CASE CheckWinner \/ TestConvergence
      BY <1>2, <3>2 DEF CheckWinner, TestConvergence, pdhgVars, CrossoverInv, TypeOK, PdhgPC
    <3>3. CASE PdhgThrows
      BY <1>2, <3>3 DEF PdhgThrows, pdhgVars, CrossoverInv, TypeOK, PdhgPC, MainPC, Final
    <3> QED
      BY <2>3, <3>1, <3>2, <3>3
  <2>4. CASE StorePdhgResult \/ PdhgNotifies
    BY <1>2, <2>4 DEF StorePdhgResult, PdhgNotifies, CrossoverInv, TypeOK, PdhgPC, MainPC
  <2> QED
    BY <2>1, <2>2, <2>3, <2>4
<1>5. SpawnInv'
  <2>1. CASE ReachCheckpoint
    BY <1>2, <2>1 DEF ReachCheckpoint, CrossoverInv, TypeOK, SpawnInv, PdhgEnded
  <2>2. CASE PushPoint
    BY <1>2, <2>2 DEF PushPoint, CrossoverInv, TypeOK, SpawnInv, PdhgEnded
  <2>3. CASE Quiet
    BY <1>2, <2>3 DEF PdhgCancelled, PdhgOutOfBudget, PdhgBreaksDown, CheckWinner,
                      TestConvergence, PdhgThrows, pdhgVars, CrossoverInv, TypeOK, SpawnInv, PdhgEnded
  <2>4. CASE StorePdhgResult \/ PdhgNotifies
    BY <1>2, <2>4 DEF StorePdhgResult, PdhgNotifies, CrossoverInv, TypeOK, SpawnInv, PdhgEnded
  <2> QED
    BY <2>1, <2>2, <2>3, <2>4
<1>6. MainInv'
  <2>1. CASE Quiet \/ ReachCheckpoint \/ PushPoint
    BY <1>2, <2>1 DEF PdhgCancelled, PdhgOutOfBudget, PdhgBreaksDown, CheckWinner,
                      TestConvergence, PdhgThrows, pdhgVars, ReachCheckpoint, PushPoint,
                      CrossoverInv, MainInv, PdhgEnded, Active, Undecided, Running, Final
  <2>2. CASE StorePdhgResult \/ PdhgNotifies
    BY <1>2, <2>2 DEF StorePdhgResult, PdhgNotifies, CrossoverInv, MainInv, PdhgEnded,
                      Active, Undecided, Running, Final
  <2> QED
    BY <2>1, <2>2
<1>7. HistoryInv'
  <2>1. CASE PushPoint
    BY <1>2, <2>1 DEF PushPoint, CrossoverInv, TypeOK, HistoryInv, Undecided, Literals
  <2>2. CASE Quiet \/ ReachCheckpoint \/ StorePdhgResult \/ PdhgNotifies
    BY <1>2, <2>2 DEF PdhgCancelled, PdhgOutOfBudget, PdhgBreaksDown, CheckWinner,
                      TestConvergence, PdhgThrows, pdhgVars, ReachCheckpoint,
                      StorePdhgResult, PdhgNotifies, CrossoverInv, HistoryInv, Undecided, Literals
  <2> QED
    BY <2>1, <2>2
<1> QED
  BY <1>3, <1>4, <1>5, <1>6, <1>7 DEF CrossoverInv

\* The two launches.
LEMMA LaunchPreserves ==
  ASSUME CrossoverInv, Running, LaunchLiteral \/ LaunchJump
  PROVE  CrossoverInv'
<1> USE AttemptType DEF PdhgGoes
<1> DEFINE jump == LaunchJump
           k == spawned + 1
<1>1. CASE ~Undecided
  <2>1. UNCHANGED <<main, hasPoint, pdhgFinished, checkpoints, history, launched, finished,
                    jumps, spawned, attempt, isJump, verdict, pdhgToken, tokens, winner>>
    BY <1>1 DEF LaunchLiteral, LaunchJump, LaunchAttempt, countVars, attemptVars, stopVars
  <2>2. pdhg \in {"launch", "launchJump"} /\ pdhg' \in {"window", "converge"}
        /\ (pdhg = "launchJump" => pdhg' = "converge")
    BY DEF LaunchLiteral, LaunchJump
  <2>3. TypeOK'
    BY <2>1, <2>2 DEF CrossoverInv, TypeOK, PdhgPC
  <2>4. SpawnInv'
    BY <2>1, <2>2 DEF CrossoverInv, TypeOK, SpawnInv, PdhgEnded
  <2>5. CountInv' /\ WinnerInv' /\ MainInv' /\ HistoryInv'
    BY <1>1, <2>1, <2>2 DEF CrossoverInv, CountInv, WinnerInv, MainInv, HistoryInv, Active,
                            Jumped, Undecided, Literals, PdhgEnded
  <2> QED
    BY <2>3, <2>4, <2>5 DEF CrossoverInv
<1>2. CASE Undecided
  <2>1. /\ UNCHANGED <<main, hasPoint, pdhgFinished, checkpoints, history, finished,
                       verdict, pdhgToken, tokens, winner>>
        /\ launched' = launched + 1
        /\ spawned' = k
        /\ attempt' = [attempt EXCEPT ![k] = "solve"]
    BY <1>2 DEF LaunchLiteral, LaunchJump, LaunchAttempt, stopVars
  <2>2. k \in Attempt /\ attempt[k] = "absent" /\ ~isJump[k] /\ checkpoints >= 1
    <3>1. spawned \in Nat /\ checkpoints \in 1..MaxCheckpoints /\ k <= 2 * checkpoints
      <4>1. pdhg \in {"launch", "launchJump"}
        BY DEF LaunchLiteral, LaunchJump
      <4>2. spawned \in Nat /\ checkpoints \in 0..MaxCheckpoints
        BY DEF CrossoverInv, TypeOK
      <4>3. checkpoints >= 1 /\ spawned <= 2 * checkpoints - 1
        BY <4>1, <4>2 DEF CrossoverInv, SpawnInv
      <4> QED
        BY <4>2, <4>3
    <3>2. k \in Attempt /\ k > spawned
      BY <3>1 DEF Attempt
    <3> QED
      BY <3>1, <3>2 DEF CrossoverInv, SpawnInv
  <2>3. verdict[Fallback] = "none" /\ main \notin {"decide", "fallback", "joinPdhg",
          "joinAttempts", "returned", "terminated", "entry"}
    BY <1>2 DEF CrossoverInv, TypeOK, SpawnInv, MainInv, PdhgEnded, LaunchLiteral, LaunchJump,
                Running, Final, Verdict, MainPC
  <2>4. /\ Active' = Active \cup {k} /\ k \notin Active
        /\ Cardinality(Active') = Cardinality(Active) + 1
    <3>1. Active' = Active \cup {k} /\ k \notin Active
      BY <2>1, <2>2 DEF CrossoverInv, TypeOK, Active
    <3> QED
      BY <3>1, CountedSets, FS_AddElement
  <2>5. CASE LaunchLiteral
    <3>1. /\ isJump' = [isJump EXCEPT ![k] = FALSE] /\ jumps' = jumps
          /\ pdhg = "launch" /\ pdhg' \in {"window", "converge"}
          /\ pdhg' = "window" <=> SpiralJump
      BY <1>2, <2>5 DEF LaunchLiteral, LaunchAttempt
    <3>2. isJump' = isJump /\ Jumped' = Jumped
      BY <2>2, <3>1 DEF CrossoverInv, TypeOK, Jumped
    <3>3. TypeOK'
      BY <2>1, <2>2, <2>3, <3>1, <3>2 DEF CrossoverInv, TypeOK, SpawnInv, CountInv, PdhgPC,
                                    AttemptPC, Attempt
    <3>4. SpawnInv'
      <4>1. \A j \in Attempt : (attempt'[j] = "absent" <=> j > spawned')
                             /\ (j > spawned' => ~isJump'[j])
        BY <2>1, <2>2, <3>1 DEF CrossoverInv, TypeOK, SpawnInv, Attempt
      <4>2. spawned' \in Nat /\ checkpoints \in Nat /\ UNCHANGED <<main, pdhgFinished, checkpoints>>
        BY <2>1 DEF CrossoverInv, TypeOK
      <4> QED
        BY <2>1, <2>2, <2>3, <3>1, <3>2, <4>1, <4>2 DEF CrossoverInv, TypeOK, SpawnInv, PdhgEnded
    <3>5. CountInv'
      BY <2>1, <2>3, <2>4, <3>1, <3>2, CountedSets DEF CrossoverInv, TypeOK, CountInv
    <3>6. HistoryInv'
      BY <1>2, <2>1, <3>1 DEF CrossoverInv, TypeOK, HistoryInv, Undecided, Literals
    <3>7. WinnerInv' /\ MainInv'
      BY <1>2, <2>1, <2>2, <2>3, <3>1 DEF CrossoverInv, TypeOK, WinnerInv, MainInv, Undecided,
                                         PdhgEnded, NoWinner
    <3> QED
      BY <3>3, <3>4, <3>5, <3>6, <3>7 DEF CrossoverInv
  <2>6. CASE LaunchJump
    <3>1. /\ isJump' = [isJump EXCEPT ![k] = TRUE] /\ jumps' = jumps + 1
          /\ pdhg = "launchJump" /\ pdhg' = "converge"
      BY <1>2, <2>6 DEF LaunchJump, LaunchAttempt
    <3>2. Jumped' = Jumped \cup {k} /\ k \notin Jumped
      BY <2>2, <3>1 DEF CrossoverInv, TypeOK, Jumped
    <3>3. Cardinality(Jumped') = Cardinality(Jumped) + 1
      BY <3>2, CountedSets, FS_AddElement
    <3>4. jumps' \in 0..MaxAttempts
      BY <3>1, <2>2, <1>2 DEF CrossoverInv, TypeOK, HistoryInv, Literals, Attempt
    <3>5. TypeOK'
      BY <2>1, <2>2, <2>3, <3>1, <3>4 DEF CrossoverInv, TypeOK, SpawnInv, CountInv, PdhgPC,
                                    AttemptPC, Attempt
    <3>6. SpawnInv'
      <4>1. \A j \in Attempt : (attempt'[j] = "absent" <=> j > spawned')
                             /\ (j > spawned' => ~isJump'[j])
        BY <2>1, <2>2, <3>1 DEF CrossoverInv, TypeOK, SpawnInv, Attempt
      <4>2. spawned' \in Nat /\ checkpoints \in Nat /\ UNCHANGED <<main, pdhgFinished, checkpoints>>
        BY <2>1 DEF CrossoverInv, TypeOK
      <4> QED
        BY <2>1, <2>2, <2>3, <3>1, <4>1, <4>2 DEF CrossoverInv, TypeOK, SpawnInv, PdhgEnded
    <3>7. CountInv'
      BY <2>1, <2>3, <2>4, <3>1, <3>3, CountedSets DEF CrossoverInv, TypeOK, CountInv
    <3>8. HistoryInv'
      BY <1>2, <2>1, <3>1 DEF CrossoverInv, TypeOK, HistoryInv, Undecided, Literals
    <3>9. WinnerInv' /\ MainInv'
      BY <1>2, <2>1, <2>2, <2>3, <3>1 DEF CrossoverInv, TypeOK, WinnerInv, MainInv, Undecided,
                                         PdhgEnded, NoWinner
    <3> QED
      BY <3>5, <3>6, <3>7, <3>8, <3>9 DEF CrossoverInv
  <2> QED
    BY <2>5, <2>6
<1> QED
  BY <1>1, <1>2

\* An attempt's solve ends, in whatever way.
LEMMA AttemptEndsPreserves ==
  ASSUME CrossoverInv, NEW k \in Attempt, NEW v \in {"valid", "useless"}, AttemptEnds(k, v)
  PROVE  CrossoverInv'
<1> USE AttemptType
<1>1. /\ UNCHANGED <<main, pdhg, hasPoint, pdhgFinished, checkpoints, history, launched,
                     finished, jumps, spawned, isJump, pdhgToken, tokens, winner>>
      /\ attempt[k] = "solve"
      /\ attempt' = [attempt EXCEPT ![k] = "report"]
      /\ verdict' = [verdict EXCEPT ![k] = v]
  BY DEF AttemptEnds, pdhgVars, countVars, stopVars
<1>2. Active' = Active /\ Jumped' = Jumped
  BY <1>1 DEF CrossoverInv, TypeOK, Active, Jumped
<1>3. verdict'[Fallback] = verdict[Fallback]
  BY <1>1 DEF CrossoverInv, TypeOK
<1>4. TypeOK'
  BY <1>1 DEF CrossoverInv, TypeOK, AttemptPC, Verdict
<1>5. SpawnInv'
  BY <1>1 DEF CrossoverInv, TypeOK, SpawnInv, PdhgEnded
<1>6. CountInv' /\ MainInv' /\ HistoryInv'
  BY <1>1, <1>2, <1>3 DEF CrossoverInv, CountInv, MainInv, HistoryInv, PdhgEnded, Undecided,
                          Literals
<1>7. WinnerInv'
  BY <1>1, <1>3 DEF CrossoverInv, TypeOK, WinnerInv, is_valid, Undecided
<1> QED
  BY <1>4, <1>5, <1>6, <1>7 DEF CrossoverInv

\* A report; an attempt that is still active is still waited for.
LEMMA ReportPreserves ==
  ASSUME CrossoverInv, Running, NEW k \in Attempt, Report(k)
  PROVE  CrossoverInv'
<1> USE AttemptType DEF Woken
<1>1. /\ UNCHANGED <<pdhg, hasPoint, pdhgFinished, checkpoints, history, launched,
                     jumps, spawned, isJump, verdict>>
      /\ attempt[k] = "report"
      /\ attempt' = [attempt EXCEPT ![k] = "exited"]
      /\ finished' = finished + 1
      /\ winner' = IF Accepts(k) THEN k ELSE winner
  BY DEF Report, pdhgVars
<1>2. /\ Active' = Active \ {k} /\ k \in Active /\ Jumped' = Jumped
      /\ Cardinality(Active') = Cardinality(Active) - 1
      /\ Cardinality(Active') \in Nat
  <2>1. Active' = Active \ {k} /\ k \in Active /\ Jumped' = Jumped
    BY <1>1 DEF CrossoverInv, TypeOK, Active, Jumped
  <2> QED
    BY <2>1, CountedSets, FS_RemoveElement, FS_CardinalityType
<1>3. /\ verdict[Fallback] = "none" /\ pdhg # "absent"
      /\ Undecided => main \in {"test", "blocked"}
  BY <1>1, <1>2 DEF CrossoverInv, TypeOK, SpawnInv, MainInv, Running, Final, MainPC, Attempt
<1>4. Cardinality(Active) \in Nat /\ Cardinality(Active) >= 1 /\ finished' <= launched
  BY <1>1, <1>2, CountedSets DEF CrossoverInv, TypeOK, CountInv
<1>5. TypeOK'
  <2>1. tokens' \in [Attempt -> BOOLEAN] /\ pdhgToken' \in BOOLEAN
    BY DEF Report, CrossoverInv, TypeOK, CancelAll, Accepts, is_valid, Undecided
  <2>2. main' \in MainPC
    BY DEF Report, CrossoverInv, TypeOK, MainPC
  <2>3. finished' \in 0..(MaxAttempts + 1)
    BY <1>1, <1>4 DEF CrossoverInv, TypeOK
  <2>4. attempt' \in [Attempt -> AttemptPC] /\ winner' \in Attempt \cup {Fallback, NoWinner}
    BY <1>1 DEF CrossoverInv, TypeOK, AttemptPC
  <2> QED
    BY <1>1, <2>1, <2>2, <2>3, <2>4 DEF CrossoverInv, TypeOK
<1>6. SpawnInv'
  BY <1>1, <1>3 DEF Report, CrossoverInv, TypeOK, SpawnInv, PdhgEnded
<1>7. CountInv'
  BY <1>1, <1>2, <1>4 DEF CrossoverInv, TypeOK, CountInv
<1>8. WinnerInv'
  <2>1. CASE Accepts(k)
    <3>1. /\ winner = NoWinner /\ winner' = k /\ is_valid(verdict[k]) /\ pdhgToken'
          /\ \A j \in 1..spawned : tokens'[j]
      <4>1. spawned \in 0..MaxAttempts
        BY DEF CrossoverInv, TypeOK
      <4>2. tokens' = [j \in Attempt |-> tokens[j] \/ j <= spawned]
        BY <2>1 DEF Report, CancelAll
      <4>3. \A j \in 1..spawned : tokens'[j]
        <5>1. \A j \in Attempt : j <= spawned => tokens'[j]
          BY <4>2, Zenon
        <5>2. \A j \in 1..spawned : j \in Attempt /\ j <= spawned
          BY <4>1 DEF Attempt
        <5> QED
          BY <5>1, <5>2
      <4> QED
        BY <1>1, <2>1, <4>3 DEF Report, Accepts, Undecided
    <3> QED
      BY <1>1, <3>1 DEF CrossoverInv, TypeOK, WinnerInv, Undecided, is_valid
  <2>2. CASE ~Accepts(k)
    <3>1. winner' = winner /\ tokens' = tokens /\ (pdhgToken => pdhgToken')
      BY <2>2 DEF Report
    <3> QED
      BY <1>1, <2>2, <3>1 DEF CrossoverInv, TypeOK, WinnerInv, Undecided, Accepts
  <2> QED
    BY <2>1, <2>2
<1>9. MainInv'
  <2>1. main' = Woken /\ (Undecided' => Undecided)
    BY <1>1 DEF Report, Undecided
  <2>2. main' \in {"decide", "fallback", "joinPdhg", "joinAttempts", "returned"} =>
          main' = main /\ ~Undecided
    BY <1>3, <2>1 DEF CrossoverInv, TypeOK
  <2>3. main # "returned"
    BY DEF Running, Final
  <2> QED
    BY <1>1, <1>2, <1>3, <2>1, <2>2, <2>3 DEF CrossoverInv, MainInv, PdhgEnded
<1>10. HistoryInv'
  BY <1>1 DEF CrossoverInv, TypeOK, HistoryInv, Undecided, Literals
<1> QED
  BY <1>5, <1>6, <1>7, <1>8, <1>9, <1>10 DEF CrossoverInv

\* The calling thread, up to its last attempt.
LEMMA MainPreserves ==
  ASSUME CrossoverInv, RejectProblem \/ MainStep \/ SpuriousWakeup
  PROVE  CrossoverInv'
<1> USE AttemptType DEF PdhgGoes
<1>1. UNCHANGED <<hasPoint, pdhgFinished, checkpoints, history, launched, finished, jumps,
                  spawned, attempt, isJump, verdict, pdhgToken, tokens, winner>>
  BY DEF RejectProblem, MainStep, StartPdhg, TestDecided, StartFallback, JoinPdhg,
         JoinAttempts, SpuriousWakeup, pdhgVars, countVars, attemptVars, stopVars
<1>2. CountInv' /\ WinnerInv'
  BY <1>1 DEF CrossoverInv, CountInv, WinnerInv, Active, Jumped, Undecided
<1>3. CASE StartPdhg
  <2>1. TypeOK' /\ SpawnInv' /\ MainInv'
    BY <1>1, <1>3 DEF StartPdhg, CrossoverInv, TypeOK, SpawnInv, MainInv, PdhgEnded, Undecided,
                      MainPC, PdhgPC, Active
  <2>2. HistoryInv'
    BY <1>1, <1>3 DEF StartPdhg, CrossoverInv, SpawnInv, HistoryInv, Undecided, Literals
  <2> QED
    BY <1>2, <2>1, <2>2 DEF CrossoverInv
<1>4. CASE RejectProblem \/ SpuriousWakeup \/ TestDecided \/ StartFallback \/ JoinPdhg
           \/ JoinAttempts
  <2>1. pdhg' = pdhg
    BY <1>4 DEF RejectProblem, SpuriousWakeup, TestDecided, StartFallback, JoinPdhg,
                JoinAttempts, pdhgVars
  <2>2. HistoryInv'
    BY <1>1, <2>1 DEF CrossoverInv, HistoryInv, Undecided, Literals
  <2>3. TypeOK'
    BY <1>1, <1>4, <2>1 DEF RejectProblem, SpuriousWakeup, TestDecided, StartFallback,
         JoinPdhg, JoinAttempts, CrossoverInv, TypeOK, MainPC, Final
  <2>4. SpawnInv'
    BY <1>1, <1>4, <2>1 DEF RejectProblem, SpuriousWakeup, TestDecided, StartFallback,
         JoinPdhg, JoinAttempts, CrossoverInv, SpawnInv, PdhgEnded
  <2>5. Active' = Active /\ (Undecided' <=> Undecided) /\ (PdhgEnded' <=> PdhgEnded)
    BY <1>1, <2>1 DEF Active, Undecided, PdhgEnded
  <2>6. MainInv'
    <3>1. CASE RejectProblem
      <4>1. pdhg = "absent" /\ spawned = 0
        BY <3>1 DEF RejectProblem, CrossoverInv, SpawnInv, MainInv
      <4>2. Active = {}
        BY <4>1 DEF CrossoverInv, SpawnInv, Active, Attempt
      <4> QED
        BY <3>1, <1>1, <2>1, <2>5, <4>1, <4>2 DEF RejectProblem, CrossoverInv, MainInv
    <3>2. CASE TestDecided
      <4>1. Decided /\ Undecided => PdhgEnded /\ Active = {}
        <5>1. Decided /\ Undecided => pdhgFinished /\ Cardinality(Active) = 0
          BY CountedSets DEF Decided, CrossoverInv, TypeOK, CountInv
        <5> QED
          BY <5>1, CountedSets, FS_EmptySet DEF CrossoverInv, SpawnInv
      <4> QED
        BY <3>2, <1>1, <2>1, <2>5, <4>1 DEF TestDecided, CrossoverInv, MainInv
    <3>3. CASE JoinAttempts
      <4>1. Active = {} /\ pdhg = "exited"
        BY <3>3 DEF JoinAttempts, CrossoverInv, TypeOK, SpawnInv, MainInv, Active, Attempt
      <4> QED
        BY <3>3, <1>1, <2>1, <2>5, <4>1 DEF JoinAttempts, CrossoverInv, MainInv, PdhgEnded
    <3>4. CASE StartFallback \/ JoinPdhg \/ SpuriousWakeup
      BY <3>4, <1>1, <2>1, <2>5 DEF StartFallback, JoinPdhg, SpuriousWakeup, CrossoverInv,
                                    MainInv
    <3> QED
      BY <1>4, <3>1, <3>2, <3>3, <3>4
  <2> QED
    BY <1>2, <2>2, <2>3, <2>4, <2>6 DEF CrossoverInv
<1> QED
  BY <1>3, <1>4 DEF MainStep

\* The last attempt, made when nobody else is left.
LEMMA FallbackPreserves ==
  ASSUME CrossoverInv, ConcludeFallback
  PROVE  CrossoverInv'
<1> USE AttemptType
<1>1. PICK v \in {"valid", "useless"} :
        /\ verdict' = [verdict EXCEPT ![Fallback] = v]
        /\ winner' = IF is_valid(v) THEN Fallback ELSE winner
  BY DEF ConcludeFallback
<1>2. /\ UNCHANGED <<pdhg, hasPoint, pdhgFinished, checkpoints, history, jumps, spawned,
                     attempt, isJump, pdhgToken, tokens>>
      /\ main = "fallback" /\ main' = "joinPdhg"
      /\ launched' = launched + 1 /\ finished' = finished + 1
  BY DEF ConcludeFallback, pdhgVars
<1>3. /\ verdict[Fallback] = "none" /\ verdict'[Fallback] = v /\ v # "none"
      /\ \A k \in Attempt : verdict'[k] = verdict[k]
  BY <1>1, <1>2 DEF CrossoverInv, TypeOK, MainInv
<1>4. winner = NoWinner /\ PdhgEnded /\ Active = {} /\ Active' = Active /\ Jumped' = Jumped
  BY <1>2 DEF CrossoverInv, MainInv, Undecided, Active, Jumped
<1>5. launched = spawned /\ finished = launched
  BY <1>3, <1>4, FS_EmptySet DEF CrossoverInv, TypeOK, CountInv
<1>6. TypeOK'
  BY <1>1, <1>2, <1>5 DEF CrossoverInv, TypeOK, MainPC, Verdict
<1>7. SpawnInv'
  BY <1>2 DEF CrossoverInv, SpawnInv, PdhgEnded
<1>8. CountInv'
  BY <1>2, <1>3, <1>4, <1>5, FS_EmptySet DEF CrossoverInv, TypeOK, CountInv
<1>9. WinnerInv'
  BY <1>1, <1>2, <1>3, <1>4 DEF CrossoverInv, WinnerInv, Undecided, is_valid,
                                   NoWinner, Fallback
<1>10. MainInv'
  BY <1>2, <1>3, <1>4 DEF CrossoverInv, MainInv, PdhgEnded
<1>11. HistoryInv'
  BY <1>2, <1>4 DEF CrossoverInv, HistoryInv, Undecided, Literals
<1> QED
  BY <1>6, <1>7, <1>8, <1>9, <1>10, <1>11 DEF CrossoverInv

\* Every step preserves the invariant.
LEMMA CrossoverStep == CrossoverInv /\ [Next]_vars => CrossoverInv'
<1> SUFFICES ASSUME CrossoverInv, [Next]_vars PROVE CrossoverInv'
  OBVIOUS
<1>1. CASE RejectProblem \/ MainStep \/ SpuriousWakeup
  BY <1>1, MainPreserves
<1>2. CASE ConcludeFallback
  BY <1>2, FallbackPreserves
<1>3. CASE Running /\ (PdhgStep \/ PdhgThrows)
  BY <1>3, PdhgPreserves, LaunchPreserves DEF PdhgStep
<1>4. ASSUME Running, NEW k \in Attempt, AttemptCancelled(k) \/ AttemptConcludes(k) \/ Report(k)
      PROVE  CrossoverInv'
  BY <1>4, AttemptEndsPreserves, ReportPreserves DEF AttemptCancelled, AttemptConcludes
<1>5. CASE UNCHANGED vars
  BY <1>5 DEF vars, pdhgVars, countVars, attemptVars, stopVars, CrossoverInv, TypeOK, SpawnInv,
              CountInv, WinnerInv, MainInv, HistoryInv, Active, Jumped, Literals, PdhgEnded,
              Undecided
<1> QED
  BY <1>1, <1>2, <1>3, <1>4, <1>5 DEF Next, Stopped

\* The invariant holds in every reachable state.
LEMMA CrossoverInvariant == Spec => []CrossoverInv
BY CrossoverInit, CrossoverStep, PTL DEF Spec

-----------------------------------------------------------------------------
\* Every variable keeps its type; in particular there are at most two attempts
\* per checkpoint, and no more than Window points are kept.
THEOREM CrossoverTypeCorrect == Spec => []TypeOK
<1>1. CrossoverInv => TypeOK
  BY DEF CrossoverInv
<1> QED
  BY <1>1, CrossoverInvariant, PTL

\* launched_attempts minus finished_attempts is the number of attempts under
\* way, so the wait's comparison of the two is exact.
THEOREM CountsCorrect == Spec => []CountsAreExact
<1>1. CrossoverInv => CountsAreExact
  BY DEF CrossoverInv, CountInv, CountsAreExact, Active, Jumped
<1> QED
  BY <1>1, CrossoverInvariant, PTL

\* The calling thread is past its wait without a winner only when nobody else
\* can touch the shared state, so its unlocked fallback races with nobody.
THEOREM FallbackAlone == Spec => []AloneWithoutWinner
<1>1. CrossoverInv => AloneWithoutWinner
  BY DEF CrossoverInv, TypeOK, SpawnInv, MainInv, PdhgEnded, Active, AttemptPC,
         AloneWithoutWinner, AllExited
<1> QED
  BY <1>1, CrossoverInvariant, PTL

\* A decided solve has set PDHG's token and that of every attempt started,
\* those of the checkpoint under way included.
THEOREM CrossoverLosersTold == Spec => []LosersAreTold
<1>1. CrossoverInv => LosersAreTold
  BY DEF CrossoverInv, WinnerInv, LosersAreTold
<1> QED
  BY <1>1, CrossoverInvariant, PTL

\* No valid answer is lost, and Failed means that nobody had one.
THEOREM CrossoverAnswerKept == Spec => []AnswerIsKept
<1>1. ASSUME CrossoverInv, main = "returned", Undecided, NEW k \in Attempt
      PROVE  ~is_valid(verdict[k])
  <2>1. attempt[k] \in {"absent", "exited"}
    BY <1>1 DEF CrossoverInv, TypeOK, AttemptPC, MainInv, Active
  <2> QED
    BY <1>1, <2>1 DEF CrossoverInv, WinnerInv, is_valid
<1>2. CrossoverInv => AnswerIsKept
  BY <1>1 DEF CrossoverInv, WinnerInv, MainInv, AnswerIsKept, Exited
<1> QED
  BY <1>2, CrossoverInvariant, PTL

\* The call returns only when the PDHG thread and every attempt are gone.
THEOREM CrossoverNothingOutlives == Spec => []NothingOutlivesTheCall
<1>1. CrossoverInv => NothingOutlivesTheCall
  BY DEF CrossoverInv, TypeOK, AttemptPC, MainInv, Active, NothingOutlivesTheCall, AllExited
<1> QED
  BY <1>1, CrossoverInvariant, PTL

\* However many checkpoints there are, an extrapolated attempt has a full
\* window of literal ones before it.
THEOREM JumpsExtra == Spec => []JumpsAreExtra
<1>1. CrossoverInv => JumpsAreExtra
  BY DEF CrossoverInv, HistoryInv, JumpsAreExtra, Literals
<1> QED
  BY <1>1, CrossoverInvariant, PTL

\* Once there is a winner it stays, and nothing is launched any more.
THEOREM CrossoverWinnerFinal == Spec => WinnerIsFinal
<1>1. ASSUME CrossoverInv, [Next]_vars, ~Undecided
      PROVE  winner' = winner /\ spawned' = spawned
  <2>1. CASE RejectProblem \/ MainStep \/ SpuriousWakeup \/ UNCHANGED vars
    BY <2>1 DEF RejectProblem, MainStep, StartPdhg, TestDecided, StartFallback, JoinPdhg,
         JoinAttempts, SpuriousWakeup, vars, attemptVars, stopVars
  <2>2. CASE ConcludeFallback
    BY <1>1, <2>2 DEF ConcludeFallback, CrossoverInv, MainInv
  <2>3. CASE LaunchLiteral \/ LaunchJump
    BY <1>1, <2>3 DEF LaunchLiteral, LaunchJump, LaunchAttempt, attemptVars, stopVars
  <2>4. CASE PdhgCancelled \/ PdhgOutOfBudget \/ PdhgBreaksDown \/ ReachCheckpoint
             \/ CheckWinner \/ PushPoint \/ TestConvergence \/ StorePdhgResult
             \/ PdhgNotifies \/ PdhgThrows
    BY <2>4 DEF PdhgCancelled, PdhgOutOfBudget, PdhgBreaksDown, ReachCheckpoint, CheckWinner,
         PushPoint, TestConvergence, StorePdhgResult, PdhgNotifies, PdhgThrows, attemptVars,
         stopVars
  <2>5. ASSUME NEW k \in Attempt, AttemptCancelled(k) \/ AttemptConcludes(k) \/ Report(k)
        PROVE  winner' = winner /\ spawned' = spawned
    BY <1>1, <2>5 DEF AttemptCancelled, AttemptConcludes, AttemptEnds, Report, Accepts, stopVars
  <2> QED
    BY <1>1, <2>1, <2>2, <2>3, <2>4, <2>5 DEF Next, PdhgStep, Stopped
<1>2. CrossoverInv /\ [Next]_vars =>
        [~Undecided => winner' = winner /\ spawned' = spawned]_vars
  BY <1>1
<1> QED
  BY <1>2, CrossoverInvariant, PTL DEF Spec, WinnerIsFinal

-----------------------------------------------------------------------------
\* The solve is a single decision among all that it starts: an attempt enters
\* when it is launched and leaves with its report, the fallback enters last and
\* alone, and the call returns when nobody is left inside.
THEOREM CrossoverImplementsFirstAnswer == Spec => ImplementsFirstAnswer
<1> DEFINE Started == {k \in Attempt : attempt[k] # "absent"}
<1>1. Init => Promise!Init
  <2> SUFFICES ASSUME Init PROVE Promise!Init
    OBVIOUS
  <2>1. Active = {} /\ Started = {}
    BY DEF Init, Active
  <2> QED
    BY <2>1 DEF Init, Promise!Init, Active, FallbackEntered
<1>2. ASSUME CrossoverInv, [Next]_vars
      PROVE  [Promise!Next]_(Promise!vars)
  <2> USE AttemptType
  <2>1. CASE LaunchLiteral \/ LaunchJump
    <3>1. CASE ~Undecided
      BY <2>1, <3>1 DEF LaunchLiteral, LaunchJump, LaunchAttempt, attemptVars, stopVars,
                        Promise!vars, FallbackEntered
    <3>2. CASE Undecided
      <4> DEFINE k == spawned + 1
      <4>1. /\ UNCHANGED <<main, verdict, winner>>
            /\ attempt' = [attempt EXCEPT ![k] = "solve"]
        BY <2>1, <3>2 DEF LaunchLiteral, LaunchJump, LaunchAttempt, stopVars
      <4>2. k \in Attempt /\ attempt[k] = "absent" /\ main # "returned"
        <5>1. pdhg \in {"launch", "launchJump"}
          BY <2>1 DEF LaunchLiteral, LaunchJump
        <5>2. spawned \in Nat /\ checkpoints \in 0..MaxCheckpoints
          BY <1>2 DEF CrossoverInv, TypeOK
        <5>3. checkpoints >= 1 /\ spawned <= 2 * checkpoints - 1
          BY <1>2, <5>1, <5>2 DEF CrossoverInv, SpawnInv
        <5>4. k \in Attempt /\ k > spawned
          BY <5>2, <5>3 DEF Attempt
        <5> QED
          BY <1>2, <5>1, <5>4 DEF CrossoverInv, SpawnInv, MainInv
      <4>3. Started' = Started \cup {k} /\ Active' = Active \cup {k}
        BY <1>2, <4>1, <4>2 DEF CrossoverInv, TypeOK, Active
      <4>4. k \notin Started /\ k # Fallback
        BY <4>2
      <4> QED
        BY <3>2, <4>1, <4>2, <4>3, <4>4 DEF Promise!Next, Promise!Enter, FallbackEntered,
                                            Undecided, Active
    <3> QED
      BY <3>1, <3>2
  <2>2. ASSUME Running, NEW k \in Attempt, Report(k)
        PROVE  Promise!Next
    <3>1. /\ attempt[k] = "report"
          /\ attempt' = [attempt EXCEPT ![k] = "exited"]
          /\ winner' = IF Accepts(k) THEN k ELSE winner
          /\ verdict' = verdict
          /\ (main' = "fallback") = (main = "fallback")
          /\ main # "returned" /\ main' # "returned"
      BY <2>2 DEF Report, Woken, Running, Final
    <3>2. Started' = Started /\ Active' = Active \ {k} /\ k \in Active /\ k # Fallback
      BY <1>2, <3>1 DEF CrossoverInv, TypeOK, Active
    <3>3. CASE Accepts(k)
      BY <3>1, <3>2, <3>3 DEF Promise!Next, Promise!Claim, Accepts, Undecided, Active,
                              FallbackEntered
    <3>4. CASE ~Accepts(k)
      BY <3>1, <3>2, <3>4 DEF Promise!Next, Promise!Withdraw, Active, FallbackEntered
    <3> QED
      BY <3>3, <3>4
  <2>3. CASE ConcludeFallback
    <3>1. PICK v \in {"valid", "useless"} :
            /\ verdict' = [verdict EXCEPT ![Fallback] = v]
            /\ winner' = IF is_valid(v) THEN Fallback ELSE winner
      BY <2>3 DEF ConcludeFallback
    <3>2. /\ main = "fallback" /\ main' = "joinPdhg" /\ attempt' = attempt
          /\ verdict'[Fallback] # "none" /\ winner = NoWinner
      BY <1>2, <2>3, <3>1 DEF ConcludeFallback, CrossoverInv, TypeOK, MainInv, Undecided
    <3>3. CASE is_valid(v)
      BY <3>1, <3>2, <3>3 DEF Promise!Next, Promise!Claim, FallbackEntered
    <3>4. CASE ~is_valid(v)
      BY <3>1, <3>2, <3>4 DEF Promise!Next, Promise!Withdraw, FallbackEntered
    <3> QED
      BY <3>3, <3>4
  <2>4. CASE StartFallback
    <3>1. /\ UNCHANGED <<attempt, verdict, winner>> /\ main = "decide"
          /\ main' = IF Undecided /\ hasPoint THEN "fallback" ELSE "joinPdhg"
          /\ verdict[Fallback] = "none"
      BY <1>2, <2>4 DEF StartFallback, attemptVars, stopVars, CrossoverInv, MainInv
    <3>2. CASE Undecided /\ hasPoint
      BY <3>1, <3>2 DEF Promise!Next, Promise!Enter, FallbackEntered, Undecided
    <3>3. CASE ~(Undecided /\ hasPoint)
      BY <3>1, <3>3 DEF Promise!vars, FallbackEntered
    <3> QED
      BY <3>2, <3>3
  <2>5. CASE RejectProblem \/ JoinAttempts
    <3>1. /\ UNCHANGED <<attempt, verdict, winner>> /\ main' = "returned" /\ main # "fallback"
      BY <2>5 DEF RejectProblem, JoinAttempts, attemptVars, stopVars
    <3>2. CrossoverInv'
      BY <1>2, CrossoverStep
    <3>3. Active = {}
      BY <3>1, <3>2 DEF CrossoverInv, MainInv, Active
    <3> QED
      BY <3>1, <3>3 DEF Promise!Next, Promise!Return, Active, FallbackEntered
  <2>6. CASE StartPdhg \/ TestDecided \/ JoinPdhg \/ SpuriousWakeup \/ (Running /\ PdhgThrows)
    <3>1. /\ UNCHANGED <<attempt, verdict, winner>>
          /\ (main' = "fallback") = (main = "fallback")
          /\ (main' = "returned") = (main = "returned")
      \* PDHG is done, and cannot throw, while the fallback runs.
      BY <1>2, <2>6 DEF StartPdhg, TestDecided, JoinPdhg, SpuriousWakeup, PdhgThrows,
         attemptVars, stopVars, Running, Final, CrossoverInv, MainInv, PdhgEnded
    <3>2. Started' = Started /\ Active' = Active /\ FallbackEntered' = FallbackEntered
      BY <3>1 DEF Active, FallbackEntered
    <3> QED
      BY <3>1, <3>2 DEF Promise!vars, Active
  <2>7. CASE /\ Running
             /\ \/ PdhgCancelled \/ PdhgOutOfBudget \/ PdhgBreaksDown \/ ReachCheckpoint
                \/ CheckWinner \/ PushPoint \/ TestConvergence \/ StorePdhgResult \/ PdhgNotifies
    <3>1. UNCHANGED <<attempt, verdict, winner>> /\ main' \in {main, Woken}
      BY <2>7 DEF PdhgCancelled, PdhgOutOfBudget, PdhgBreaksDown, ReachCheckpoint, CheckWinner,
           PushPoint, TestConvergence, StorePdhgResult, PdhgNotifies, attemptVars, stopVars
    <3> QED
      BY <3>1, <2>7 DEF Promise!vars, FallbackEntered, Woken, Running, Final
  <2>8. ASSUME NEW k \in Attempt, AttemptCancelled(k) \/ AttemptConcludes(k)
        PROVE  UNCHANGED Promise!vars
    <3>1. PICK v \in {"valid", "useless"} : AttemptEnds(k, v)
      BY <2>8 DEF AttemptCancelled, AttemptConcludes
    <3>2. /\ attempt[k] = "solve" /\ attempt' = [attempt EXCEPT ![k] = "report"]
          /\ UNCHANGED <<main, winner>> /\ verdict'[Fallback] = verdict[Fallback]
      BY <1>2, <3>1 DEF AttemptEnds, stopVars, CrossoverInv, TypeOK
    <3>3. Started' = Started /\ Active' = Active
      BY <1>2, <3>2 DEF CrossoverInv, TypeOK, Active
    <3> QED
      BY <3>2, <3>3 DEF Promise!vars, Active, FallbackEntered
  <2>9. CASE UNCHANGED vars
    BY <2>9 DEF vars, attemptVars, stopVars, Promise!vars, FallbackEntered
  <2> QED
    BY <1>2, <2>1, <2>2, <2>3, <2>4, <2>5, <2>6, <2>7, <2>8, <2>9
       DEF Next, MainStep, PdhgStep, Stopped
<1> QED
  BY <1>1, <1>2, CrossoverInvariant, PTL DEF Spec, ImplementsFirstAnswer, Promise!Spec

(***************************************************************************)
(* Device memory                                                           *)
(***************************************************************************)

\* Whatever a handle points to is a block of its backend, as long as the
\* handle's shape says.
BackedInv ==
  \A h \in Handles : \A p \in Part : handle[h].ptr[p] # Null => IsBacked(h, p)

\* The arrays are allocated in their order; an object past its allocations has
\* all of them, or was moved from.
IsBuilt(h, object) ==
  /\ object.stage = "none" => object.ptr = NoPointers
  /\ object.stage = "allocate" =>
       /\ object.backend \in Backends
       /\ h \notin Matrices => object.next = 1 /\ object.shape.nnz = 0
       /\ \A p \in Part :
            IF p < object.next
            THEN Length(h, object.shape, p) > 0 => object.ptr[p] # Null
            ELSE object.ptr[p] = Null
  /\ object.stage \in {"zero", "copy", "alive"} =>
       \/ object.shape = NoShape
       \/ \A p \in Part : Length(h, object.shape, p) > 0 => object.ptr[p] # Null

BuiltInv == \A h \in Handles : IsBuilt(h, handle[h])

DeviceInv == DeviceTypeOK /\ BlocksHaveOneOwner /\ BackedInv /\ BuiltInv /\ MemoryIsSound

-------------------------------------------------------------------------------
\* The length of a part is a natural number.
LEMMA LengthType ==
  ASSUME NEW h \in Handles, NEW shape \in [count : Nat, nnz : Nat], NEW p \in Part
  PROVE  Length(h, shape, p) \in Nat
BY DEF Length

\* What is there before a constructor is an object of the model.
LEMMA NoObjectType == NoObject \in Object
BY DEF NoObject, Object, Stage, Part, NoPointers, NoShape

\* The invariant holds before anything is built.
LEMMA InitInv == DeviceInit => DeviceInv
<1> SUFFICES ASSUME DeviceInit PROVE DeviceInv
  OBVIOUS
<1>1. DeviceTypeOK
  BY NoObjectType DEF DeviceTypeOK, DeviceInit, Unused
<1> USE HandlesAssumption DEF DeviceInit, NoObject, NoPointers, NoShape, Null, Nobody, Unused, Part
<1>2. BlocksHaveOneOwner
  BY DEF BlocksHaveOneOwner, Held
<1>3. BackedInv /\ BuiltInv /\ MemoryIsSound
  BY DEF BackedInv, BuiltInv, IsBuilt, MemoryIsSound
<1> QED
  BY <1>1, <1>2, <1>3 DEF DeviceInv

\* Every step keeps the types.
LEMMA TypeStep == ASSUME DeviceInv, [DeviceNext]_deviceVars PROVE DeviceTypeOK'
<1> USE HandlesAssumption DEF DeviceInv, DeviceTypeOK, Object
<1>1. NoObject \in Object
  BY NoObjectType
<1>2. ASSUME NEW h \in Handles PROVE Freed(h) \in [Blocks -> [maker : Backends \cup {Nobody}, length : Nat]]
  BY DEF Freed, Unused
<1>3. ASSUME NEW g \in Handles PROVE Emptied(handle[g]) \in Object
  BY DEF Emptied, NoPointers, NoShape, Part
<1>4. ASSUME NEW h \in Handles, Default(h) PROVE DeviceTypeOK'
  BY <1>1, <1>4 DEF Default, Stage
<1>5. ASSUME NEW h \in Handles, NEW backend \in Backends, NEW shape \in Shape,
             NEW uploads \in BOOLEAN, Construct(h, backend, shape, uploads)
      PROVE  DeviceTypeOK'
  BY <1>1, <1>5 DEF Construct, Stage, Shape
<1>6. ASSUME NEW h \in Handles, Allocate(h) PROVE DeviceTypeOK'
  <2>1. AfterAllocate(h) \in Stage
    BY DEF AfterAllocate, Stage, Part
  <2>2. Wanted(h) \in Nat
    BY LengthType DEF Wanted
  <2>3. ASSUME NEW b \in Blocks \cup {Null} PROVE Allocated(h, b) \in Object
    <3>1. Pointing(h, b) \in [Part -> Blocks \cup {Null}]
      BY DEF Pointing
    <3>2. NextPart(h) \in Part
      BY DEF NextPart, AfterAllocate, Part
    <3> QED
      BY <2>1, <3>1, <3>2 DEF Allocated
  <2>4. CASE Wanted(h) = 0
    BY <1>6, <2>3, <2>4 DEF Allocate
  <2>5. CASE Wanted(h) # 0
    <3>1. PICK b \in Blocks :
            /\ heap' = [heap EXCEPT ![b] = [maker |-> handle[h].backend, length |-> Wanted(h)]]
            /\ handle' = [handle EXCEPT ![h] = Allocated(h, b)]
      BY <1>6, <2>5 DEF Allocate
    <3> QED
      BY <1>6, <2>2, <2>3, <3>1 DEF Allocate
  <2> QED
    BY <2>4, <2>5
<1>7. ASSUME NEW h \in Handles, Fill(h) \/ Copy(h) PROVE DeviceTypeOK'
  <2>1. PICK stage \in Stage : handle' = [handle EXCEPT ![h].stage = stage]
    BY <1>7 DEF Fill, Copy, Stage
  <2>2. [handle[h] EXCEPT !.stage = stage] \in Object
    OBVIOUS
  <2>3. handle' \in [Handles -> Object]
    BY <2>1, <2>2
  <2> QED
    BY <1>7, <2>3 DEF Fill, Copy
<1>8. ASSUME NEW h \in Handles, Fail(h) PROVE DeviceTypeOK'
  <2>1. Held(h) \subseteq Blocks
    BY DEF Held
  <2> QED
    BY <1>1, <1>2, <1>8, <2>1 DEF Fail, Release
<1>9. ASSUME NEW h \in Handles, Destroy(h) PROVE DeviceTypeOK'
  BY <1>1, <1>2, <1>9 DEF Destroy, Release
<1>10. ASSUME NEW h \in Handles, NEW g \in Handles, MoveConstruct(h, g) PROVE DeviceTypeOK'
  BY <1>3, <1>10 DEF MoveConstruct
<1>11. ASSUME NEW h \in Handles, NEW g \in Handles, MoveAssign(h, g) PROVE DeviceTypeOK'
  <2>1. CASE h = g
    BY <1>11, <2>1 DEF MoveAssign
  <2>2. CASE h # g
    <3>1. handle' \in [Handles -> Object]
      <4>1. handle' = [handle EXCEPT ![h] = handle[g], ![g] = Emptied(handle[g])]
        BY <1>11, <2>2 DEF MoveAssign
      <4>2. \A k \in Handles : handle'[k] = IF k = g THEN Emptied(handle[g])
                                           ELSE IF k = h THEN handle[g] ELSE handle[k]
        BY <4>1, <2>2
      <4> QED
        BY <4>1, <4>2, <1>3
    <3>2. broken' \in BOOLEAN
      BY <1>11, <2>2 DEF MoveAssign, ReleasedFirst, Release
    <3> QED
      BY <1>2, <1>11, <2>2, <3>1, <3>2 DEF MoveAssign, ReleasedFirst, Release
  <2> QED
    BY <2>1, <2>2
<1>12. ASSUME NEW h \in Handles, Use(h) PROVE DeviceTypeOK'
  BY <1>12 DEF Use
<1>13. CASE UNCHANGED deviceVars
  BY <1>13 DEF deviceVars
<1> QED
  BY <1>4, <1>5, <1>6, <1>7, <1>8, <1>9, <1>10, <1>11, <1>12, <1>13 DEF DeviceNext
-------------------------------------------------------------------------------
(* What is enough for the ownership to be kept.                            *)

OwnInv == DeviceTypeOK /\ BlocksHaveOneOwner /\ BackedInv

\* Nothing is allocated, freed or moved.
LEMMA SamePointers ==
  ASSUME OwnInv, UNCHANGED <<heap, lost>>,
         \A k \in Handles :
           /\ handle'[k].ptr = handle[k].ptr
           /\ \/ handle[k].ptr = NoPointers
              \/ handle'[k].backend = handle[k].backend /\ handle'[k].shape = handle[k].shape
  PROVE  BlocksHaveOneOwner' /\ BackedInv'
<1> USE DEF OwnInv
<1>1. \A k \in Handles : Held(k)' = Held(k)
  BY DEF Held
<1>2. BlocksHaveOneOwner'
  BY <1>1 DEF BlocksHaveOneOwner
<1>3. ASSUME NEW k \in Handles, NEW p \in Part, handle'[k].ptr[p] # Null PROVE IsBacked(k, p)'
  <2>1. handle'[k].backend = handle[k].backend /\ handle'[k].shape = handle[k].shape
    BY <1>3 DEF NoPointers
  <2> QED
    BY <1>3, <2>1 DEF BackedInv, IsBacked, Length
<1> QED
  BY <1>2, <1>3 DEF BackedInv

\* A free block goes to an array that had none.
LEMMA NewPointer ==
  ASSUME OwnInv, NEW h \in Handles, NEW p \in Part, NEW b \in Blocks,
         handle[h].backend \in Backends, handle[h].ptr[p] = Null, heap[b] = Unused,
         heap' = [heap EXCEPT ![b] = [maker |-> handle[h].backend,
                                      length |-> Length(h, handle[h].shape, p)]],
         handle'[h].ptr = [handle[h].ptr EXCEPT ![p] = b],
         handle'[h].backend = handle[h].backend, handle'[h].shape = handle[h].shape,
         \A k \in Handles \ {h} : handle'[k] = handle[k],
         lost' = lost
  PROVE  BlocksHaveOneOwner' /\ BackedInv'
<1> USE HandlesAssumption DEF OwnInv
<1>1. b # Null
  BY DEF Null
<1>2. heap \in [Blocks -> [maker : Backends \cup {Nobody}, length : Nat]]
  BY DEF DeviceTypeOK
<1>3. \A k \in Handles : handle[k].ptr \in [Part -> Blocks \cup {Null}]
  BY DEF DeviceTypeOK, Object
<1>4. heap'[b] = [maker |-> handle[h].backend, length |-> Length(h, handle[h].shape, p)]
  BY <1>2
<1>5. heap'[b] # Unused
  BY <1>4 DEF Unused, Nobody
<1>6. \A c \in Blocks \ {b} : heap'[c] = heap[c]
  BY <1>2
<1>7. b \notin lost /\ \A k \in Handles : b \notin Held(k)
  BY DEF BlocksHaveOneOwner
<1>8. \A k \in Handles : \A q \in Part : handle[k].ptr[q] # b
  BY <1>1, <1>7 DEF Held
<1>9. \A k \in Handles : \A q \in Part :
        handle'[k].ptr[q] = IF k = h /\ q = p THEN b ELSE handle[k].ptr[q]
  BY <1>3
<1>10. Held(h)' = Held(h) \cup {b} /\ \A k \in Handles \ {h} : Held(k)' = Held(k)
  <2>1. \A q \in Part : handle'[h].ptr[q] = IF q = p THEN b ELSE handle[h].ptr[q]
    BY <1>9
  <2>2. Held(h)' = Held(h) \cup {b}
    BY <1>1, <2>1 DEF Held
  <2>3. \A k \in Handles \ {h} : Held(k)' = Held(k)
    BY DEF Held
  <2> QED
    BY <2>2, <2>3
<1>11. BlocksHaveOneOwner'
  <2>1. \A k, g \in Handles : \A q, r \in Part :
          handle'[k].ptr[q] # Null /\ handle'[k].ptr[q] = handle'[g].ptr[r] => k = g /\ q = r
    BY <1>8, <1>9 DEF BlocksHaveOneOwner
  <2>2. \A c \in Blocks : heap'[c] # Unused <=> c \in lost' \/ \E k \in Handles : c \in Held(k)'
    BY <1>5, <1>6, <1>10 DEF BlocksHaveOneOwner
  <2>3. \A k \in Handles : Held(k)' \cap lost' = {}
    BY <1>7, <1>10 DEF BlocksHaveOneOwner
  <2> QED
    BY <2>1, <2>2, <2>3 DEF BlocksHaveOneOwner, Unused
<1>12. ASSUME NEW k \in Handles, NEW q \in Part, handle'[k].ptr[q] # Null PROVE IsBacked(k, q)'
  <2>1. CASE k = h /\ q = p
    BY <1>1, <1>4, <1>9, <2>1 DEF IsBacked, Length
  <2>2. CASE ~(k = h /\ q = p)
    <3>1. handle'[k].ptr[q] = handle[k].ptr[q] /\ handle[k].ptr[q] # b
      BY <1>8, <1>9, <2>2
    <3>2. IsBacked(k, q)
      BY <1>12, <3>1 DEF BackedInv
    <3>3. handle[k].ptr[q] \in Blocks \ {b}
      BY <1>3, <1>12, <3>1
    <3>4. handle'[k].backend = handle[k].backend /\ handle'[k].shape = handle[k].shape
      OBVIOUS
    <3> QED
      BY <1>6, <1>12, <3>1, <3>2, <3>3, <3>4 DEF IsBacked, Length
  <2> QED
    BY <2>1, <2>2
<1> QED
  BY <1>11, <1>12 DEF BackedInv

\* The blocks of a handle are forgotten: freed, or lost.
LEMMA NoPointer ==
  ASSUME OwnInv, NEW h \in Handles, handle'[h].ptr = NoPointers,
         \A k \in Handles \ {h} : handle'[k] = handle[k],
         \/ heap' = Freed(h) /\ lost' = lost
         \/ heap' = heap /\ lost' = lost \cup Held(h)
  PROVE  BlocksHaveOneOwner' /\ BackedInv'
<1> USE DEF OwnInv
<1>1. \A k \in Handles : handle[k].ptr \in [Part -> Blocks \cup {Null}]
  BY DEF DeviceTypeOK, Object
<1>2. Held(h)' = {} /\ \A k \in Handles \ {h} : Held(k)' = Held(k)
  BY DEF Held, NoPointers
<1>3. \A k \in Handles \ {h} : Held(k) \cap Held(h) = {}
  BY DEF Held, BlocksHaveOneOwner
<1>4. \A c \in Blocks \ Held(h) : heap'[c] = heap[c]
  BY DEF Freed
<1>5. BlocksHaveOneOwner'
  <2>1. \A k, g \in Handles : \A q, r \in Part :
          handle'[k].ptr[q] # Null /\ handle'[k].ptr[q] = handle'[g].ptr[r] => k = g /\ q = r
    BY DEF BlocksHaveOneOwner, NoPointers
  <2>2. ASSUME NEW c \in Blocks
        PROVE  heap'[c] # Unused <=> c \in lost' \/ \E k \in Handles : c \in Held(k)'
    <3>1. CASE c \in Held(h)
      BY <1>2, <1>3, <3>1 DEF BlocksHaveOneOwner, Freed
    <3>2. CASE c \notin Held(h)
      BY <1>2, <1>4, <3>2 DEF BlocksHaveOneOwner
    <3> QED
      BY <3>1, <3>2
  <2>3. \A k \in Handles : Held(k)' \cap lost' = {}
    BY <1>2, <1>3 DEF BlocksHaveOneOwner
  <2> QED
    BY <2>1, <2>2, <2>3 DEF BlocksHaveOneOwner, Unused
<1>6. ASSUME NEW k \in Handles, NEW q \in Part, handle'[k].ptr[q] # Null PROVE IsBacked(k, q)'
  <2>1. k # h /\ handle'[k] = handle[k]
    BY <1>6 DEF NoPointers
  <2>2. handle[k].ptr[q] \in Held(k) /\ handle[k].ptr[q] \in Blocks
    BY <1>1, <1>6, <2>1 DEF Held
  <2>3. heap'[handle[k].ptr[q]] = heap[handle[k].ptr[q]]
    BY <1>3, <1>4, <2>1, <2>2
  <2> QED
    BY <1>6, <2>1, <2>3 DEF BackedInv, IsBacked, Length
<1> QED
  BY <1>5, <1>6 DEF BackedInv

\* The members of g become those of h, whose own blocks are freed.
LEMMA PointersMove ==
  ASSUME OwnInv, NEW h \in Handles, NEW g \in Handles, h # g, SameClass(h, g),
         heap' = Freed(h), lost' = lost,
         handle' = [handle EXCEPT ![h] = handle[g], ![g] = Emptied(handle[g])]
  PROVE  BlocksHaveOneOwner' /\ BackedInv'
<1> USE DEF OwnInv
<1>1. /\ handle'[h] = handle[g] /\ handle'[g] = Emptied(handle[g])
      /\ \A k \in Handles \ {h, g} : handle'[k] = handle[k]
  BY DEF DeviceTypeOK
<1>2. handle'[g].ptr = NoPointers
  BY <1>1 DEF Emptied, DeviceTypeOK, Object
<1>3. \A k \in Handles : handle[k].ptr \in [Part -> Blocks \cup {Null}]
  BY DEF DeviceTypeOK, Object
<1>4. /\ Held(g)' = {} /\ Held(h)' = Held(g)
      /\ \A k \in Handles \ {h, g} : Held(k)' = Held(k)
  <2>1. Held(g)' = {}
    BY <1>2 DEF Held, NoPointers
  <2>2. Held(h)' = Held(g)
    BY <1>1 DEF Held
  <2>3. \A k \in Handles \ {h, g} : Held(k)' = Held(k)
    BY <1>1 DEF Held
  <2> QED
    BY <2>1, <2>2, <2>3
<1>5. \A k \in Handles \ {h} : Held(k) \cap Held(h) = {}
  BY DEF Held, BlocksHaveOneOwner
<1>6. \A c \in Blocks \ Held(h) : heap'[c] = heap[c]
  BY DEF Freed
<1>7. BlocksHaveOneOwner'
  <2>1. ASSUME NEW k \in Handles, NEW l \in Handles, NEW q \in Part, NEW r \in Part,
               handle'[k].ptr[q] # Null, handle'[k].ptr[q] = handle'[l].ptr[r]
        PROVE  k = l /\ q = r
    <3>1. k # g /\ l # g
      BY <1>2, <2>1 DEF NoPointers
    <3> DEFINE Was(j) == IF j = h THEN g ELSE j
    <3>2. handle'[k] = handle[Was(k)] /\ handle'[l] = handle[Was(l)]
      BY <1>1, <3>1
    <3>3. Was(k) = Was(l) /\ q = r
      BY <2>1, <3>2 DEF BlocksHaveOneOwner
    <3> QED
      BY <3>1, <3>3
  <2>2. ASSUME NEW c \in Blocks
        PROVE  heap'[c] # Unused <=> c \in lost' \/ \E k \in Handles : c \in Held(k)'
    <3>1. CASE c \in Held(h)
      BY <1>4, <1>5, <3>1 DEF BlocksHaveOneOwner, Freed
    <3>2. CASE c \notin Held(h)
      BY <1>4, <1>6, <3>2 DEF BlocksHaveOneOwner
    <3> QED
      BY <3>1, <3>2
  <2>3. \A k \in Handles : Held(k)' \cap lost' = {}
    BY <1>4 DEF BlocksHaveOneOwner
  <2>4. \A k, l \in Handles : \A q, r \in Part :
          handle'[k].ptr[q] # Null /\ handle'[k].ptr[q] = handle'[l].ptr[r] => k = l /\ q = r
    BY <2>1
  <2> QED
    BY <2>2, <2>3, <2>4 DEF BlocksHaveOneOwner, Unused
<1>8. ASSUME NEW k \in Handles, NEW q \in Part, handle'[k].ptr[q] # Null PROVE IsBacked(k, q)'
  <2> DEFINE was == IF k = h THEN g ELSE k
  <2>1. k # g
    BY <1>2, <1>8 DEF NoPointers
  <2>2. was # h /\ handle'[k] = handle[was] /\ SameClass(k, was)
    BY <1>1, <2>1 DEF SameClass
  <2>3. handle[was].ptr[q] \in Held(was) /\ handle[was].ptr[q] \in Blocks
    BY <1>3, <1>8, <2>2 DEF Held
  <2>4. heap'[handle[was].ptr[q]] = heap[handle[was].ptr[q]]
    BY <1>5, <1>6, <2>2, <2>3
  <2>5. IsBacked(was, q)
    BY <1>8, <2>2 DEF BackedInv
  <2>6. Length(k, handle[was].shape, q) = Length(was, handle[was].shape, q)
    BY <2>2 DEF Length, SameClass
  <2> HIDE DEF was
  <2> QED
    BY <1>8, <2>2, <2>4, <2>5, <2>6 DEF IsBacked, Length
<1> QED
  BY <1>7, <1>8 DEF BackedInv
-------------------------------------------------------------------------------
(* What each action does.                                                  *)

\* The objects that an action leaves alone; the one it changes alone.
LEMMA OneChanges ==
  ASSUME DeviceTypeOK, NEW h \in Handles, NEW object, handle' = [handle EXCEPT ![h] = object]
  PROVE  handle'[h] = object /\ \A k \in Handles \ {h} : handle'[k] = handle[k]
BY DEF DeviceTypeOK

\* An object that starts without memory takes none from the others.
LEMMA FreshOwns ==
  ASSUME DeviceInv, NEW h \in Handles, NEW object, UNCHANGED <<heap, lost>>,
         handle[h].stage = "none", object.ptr = NoPointers,
         handle' = [handle EXCEPT ![h] = object]
  PROVE  BlocksHaveOneOwner' /\ BackedInv'
<1>1. handle'[h] = object /\ \A k \in Handles \ {h} : handle'[k] = handle[k]
  BY OneChanges DEF DeviceInv
<1>2. handle[h].ptr = NoPointers
  BY DEF DeviceInv, BuiltInv, IsBuilt
<1> QED
  BY <1>1, <1>2, SamePointers DEF DeviceInv, OwnInv

\* What an allocation leaves of the object.
LEMMA AllocateOwns ==
  ASSUME DeviceInv, NEW h \in Handles, Allocate(h)
  PROVE  BlocksHaveOneOwner' /\ BackedInv'
<1> USE DEF DeviceInv
<1>1. /\ handle[h].backend \in Backends
      /\ handle[h].next \in Part /\ handle[h].ptr[handle[h].next] = Null
  BY DEF Allocate, BuiltInv, IsBuilt, DeviceTypeOK, Object, Part
<1>2. handle[h].ptr \in [Part -> Blocks \cup {Null}]
  BY DEF DeviceTypeOK, Object
<1>3. CASE Wanted(h) = 0
  <2>1. handle' = [handle EXCEPT ![h] = Allocated(h, Null)] /\ UNCHANGED <<heap, lost>>
    BY <1>3 DEF Allocate
  <2>2. handle'[h] = Allocated(h, Null) /\ \A k \in Handles \ {h} : handle'[k] = handle[k]
    BY <2>1, OneChanges
  <2>3. Pointing(h, Null) = handle[h].ptr
    BY <1>1, <1>2 DEF Pointing
  <2>4. /\ handle'[h].ptr = handle[h].ptr
        /\ handle'[h].backend = handle[h].backend /\ handle'[h].shape = handle[h].shape
    BY <2>2, <2>3 DEF Allocated
  <2> QED
    BY <2>1, <2>2, <2>4, SamePointers DEF OwnInv
<1>4. CASE Wanted(h) # 0
  <2>1. PICK b \in Blocks :
          /\ heap[b] = Unused
          /\ heap' = [heap EXCEPT ![b] = [maker |-> handle[h].backend, length |-> Wanted(h)]]
          /\ handle' = [handle EXCEPT ![h] = Allocated(h, b)]
    BY <1>4 DEF Allocate
  <2>2. handle'[h] = Allocated(h, b) /\ \A k \in Handles \ {h} : handle'[k] = handle[k]
    BY <2>1, OneChanges
  <2>3. /\ handle'[h].ptr = [handle[h].ptr EXCEPT ![handle[h].next] = b]
        /\ handle'[h].backend = handle[h].backend /\ handle'[h].shape = handle[h].shape
    BY <2>2 DEF Allocated, Pointing
  <2>4. lost' = lost
    BY DEF Allocate
  <2> QED
    BY <1>1, <2>1, <2>2, <2>3, <2>4, NewPointer DEF OwnInv, Wanted
<1> QED
  BY <1>3, <1>4

\* A handle that has nothing frees nothing.
LEMMA NothingFreed ==
  ASSUME DeviceTypeOK, NEW h \in Handles, handle[h].ptr = NoPointers
  PROVE  Freed(h) = heap
<1>1. Held(h) = {}
  BY DEF Held, NoPointers
<1>2. heap = [b \in Blocks |-> heap[b]]
  BY DEF DeviceTypeOK
<1> QED
  BY <1>1, <1>2 DEF Freed

\* Every step keeps blocks with one owner each.
LEMMA OwnStep == ASSUME DeviceInv, [DeviceNext]_deviceVars PROVE BlocksHaveOneOwner' /\ BackedInv'
<1> USE DEF DeviceInv
<1> DEFINE Goal == BlocksHaveOneOwner' /\ BackedInv'
<1>1. NoObject.ptr = NoPointers /\ [NoObject EXCEPT !.stage = "alive"].ptr = NoPointers
  BY DEF NoObject
<1>2. ASSUME NEW h \in Handles, Default(h) PROVE Goal
  BY <1>1, <1>2, FreshOwns DEF Default
<1>3. ASSUME NEW h \in Handles, NEW backend \in Backends, NEW shape \in Shape,
             NEW uploads \in BOOLEAN, Construct(h, backend, shape, uploads)
      PROVE  Goal
  <2> DEFINE object == [NoObject EXCEPT
                 !.stage = IF Length(h, shape, 1) = 0 THEN "alive" ELSE "allocate",
                 !.uploads = uploads, !.backend = backend, !.shape = shape]
  <2>1. object.ptr = NoPointers
    BY DEF NoObject
  <2>2. handle[h].stage = "none" /\ handle' = [handle EXCEPT ![h] = object] /\ UNCHANGED <<heap, lost>>
    BY <1>3 DEF Construct
  <2> HIDE DEF object
  <2> QED
    BY <2>1, <2>2, FreshOwns
<1>4. ASSUME NEW h \in Handles, Allocate(h) PROVE Goal
  BY <1>4, AllocateOwns
<1>5. ASSUME NEW h \in Handles, Fill(h) \/ Copy(h) PROVE Goal
  <2>1. PICK stage \in Stage : handle' = [handle EXCEPT ![h].stage = stage]
    BY <1>5 DEF Fill, Copy, Stage
  <2>2. \A k \in Handles : /\ handle'[k].ptr = handle[k].ptr
                           /\ handle'[k].backend = handle[k].backend
                           /\ handle'[k].shape = handle[k].shape
    BY <2>1 DEF DeviceTypeOK, Object
  <2>3. UNCHANGED <<heap, lost>>
    BY <1>5 DEF Fill, Copy
  <2> QED
    BY <2>2, <2>3, SamePointers DEF OwnInv
<1>6. ASSUME NEW h \in Handles, Fail(h) \/ Destroy(h) PROVE Goal
  <2>1. handle' = [handle EXCEPT ![h] = NoObject]
    BY <1>6 DEF Fail, Destroy
  <2>2. handle'[h].ptr = NoPointers /\ \A k \in Handles \ {h} : handle'[k] = handle[k]
    BY <1>1, <2>1, OneChanges
  <2>3. \/ heap' = Freed(h) /\ lost' = lost
        \/ heap' = heap /\ lost' = lost \cup Held(h)
    BY <1>6 DEF Fail, Destroy, Release
  <2> QED
    BY <2>2, <2>3, NoPointer DEF OwnInv
<1>7. ASSUME NEW h \in Handles, NEW g \in Handles, MoveConstruct(h, g) PROVE Goal
  <2>1. h # g /\ SameClass(h, g)
    BY <1>7 DEF MoveConstruct, Alive
  <2>2. Freed(h) = heap
    BY <1>7, NothingFreed DEF MoveConstruct, BuiltInv, IsBuilt
  <2>3. /\ handle' = [handle EXCEPT ![h] = handle[g], ![g] = Emptied(handle[g])]
        /\ heap' = Freed(h) /\ lost' = lost
    BY <1>7, <2>2 DEF MoveConstruct
  <2> QED
    BY <2>1, <2>3, PointersMove DEF OwnInv
<1>8. ASSUME NEW h \in Handles, NEW g \in Handles, MoveAssign(h, g) PROVE Goal
  <2>1. CASE h = g
    BY <1>8, <2>1, SamePointers DEF MoveAssign, OwnInv
  <2>2. CASE h # g
    <3>1. /\ handle' = [handle EXCEPT ![h] = handle[g], ![g] = Emptied(handle[g])]
          /\ heap' = Freed(h) /\ lost' = lost /\ SameClass(h, g)
      BY <1>8, <2>2 DEF MoveAssign, ReleasedFirst, Release
    <3> QED
      BY <2>2, <3>1, PointersMove DEF OwnInv
  <2> QED
    BY <2>1, <2>2
<1>9. ASSUME NEW h \in Handles, Use(h) PROVE Goal
  BY <1>9, SamePointers DEF Use, OwnInv
<1>10. CASE UNCHANGED deviceVars
  BY <1>10, SamePointers DEF deviceVars, OwnInv
<1> QED
  BY <1>2, <1>3, <1>4, <1>5, <1>6, <1>7, <1>8, <1>9, <1>10 DEF DeviceNext

\* The invariant of built objects, for the next state.
LEMMA BuiltIsNext == BuiltInv' <=> \A h \in Handles : IsBuilt(h, handle'[h])
BY DEF BuiltInv, IsBuilt, Length

\* It is kept if the one object that changes is built right.
LEMMA ChangedIsBuilt ==
  ASSUME DeviceInv, NEW h \in Handles, NEW object, IsBuilt(h, object),
         handle' = [handle EXCEPT ![h] = object]
  PROVE  BuiltInv'
<1>1. handle'[h] = object /\ \A k \in Handles \ {h} : handle'[k] = handle[k]
  BY OneChanges DEF DeviceInv
<1> QED
  BY <1>1, BuiltIsNext DEF DeviceInv, BuiltInv

\* It is kept by a move, which empties the object moved from.
LEMMA BuiltMoves ==
  ASSUME DeviceInv, NEW h \in Handles, NEW g \in Handles, h # g, SameClass(h, g), Alive(g),
         handle' = [handle EXCEPT ![h] = handle[g], ![g] = Emptied(handle[g])]
  PROVE  BuiltInv'
<1>1. /\ handle'[h] = handle[g] /\ handle'[g] = Emptied(handle[g])
      /\ \A k \in Handles \ {h, g} : handle'[k] = handle[k]
  BY DEF DeviceInv, DeviceTypeOK
<1>2. \A k \in Handles : IsBuilt(k, handle[k])
  BY DEF DeviceInv, BuiltInv
<1>3. IsBuilt(h, handle[g])
  BY <1>2 DEF IsBuilt, Alive, SameClass, Length
<1>4. Emptied(handle[g]).stage = "alive" /\ Emptied(handle[g]).shape = NoShape
  BY DEF Emptied, Alive, DeviceInv, DeviceTypeOK, Object
<1>5. IsBuilt(g, Emptied(handle[g]))
  BY <1>4 DEF IsBuilt
<1> QED
  BY <1>1, <1>2, <1>3, <1>5, BuiltIsNext

\* An allocation leaves the object built as far as it has come.
LEMMA AllocatedIsBuilt ==
  ASSUME DeviceInv, NEW h \in Handles, handle[h].stage = "allocate", NEW b,
         b # Null \/ Wanted(h) = 0
  PROVE  IsBuilt(h, Allocated(h, b))
<1> USE DEF DeviceInv
<1> DEFINE next == handle[h].next
           shape == handle[h].shape
<1>1. handle[h].ptr \in [Part -> Blocks \cup {Null}] /\ next \in Part /\ shape \in [count : Nat, nnz : Nat]
  BY DEF DeviceTypeOK, Object
<1>2. IsBuilt(h, handle[h])
  BY DEF BuiltInv
<1>3. \A p \in Part : Pointing(h, b)[p] = IF p = next THEN b ELSE handle[h].ptr[p]
  BY <1>1 DEF Pointing
<1>4. \A p \in Part : Length(h, shape, p) \in Nat
  BY <1>1, LengthType
<1>5. Wanted(h) = Length(h, shape, next)
  BY DEF Wanted
<1>6. \A p \in Part : p <= next /\ Length(h, shape, p) > 0 => Pointing(h, b)[p] # Null
  <2> SUFFICES ASSUME NEW p \in Part, p <= next, Length(h, shape, p) > 0
               PROVE  Pointing(h, b)[p] # Null
    OBVIOUS
  <2>1. CASE p = next
    BY <1>3, <1>5, <2>1
  <2>2. CASE p < next
    BY <1>1, <1>2, <1>3, <2>2 DEF IsBuilt, Part
  <2> QED
    BY <1>1, <2>1, <2>2 DEF Part
<1>7. \A p \in Part : p > next => Pointing(h, b)[p] = Null
  BY <1>1, <1>2, <1>3 DEF IsBuilt, Part
<1>8. CASE h \notin Matrices
  <2>1. next = 1 /\ \A p \in Part : p # 1 => Length(h, shape, p) = 0
    BY <1>2, <1>8 DEF IsBuilt, Length
  <2>2. \A p \in Part : Length(h, shape, p) > 0 => Pointing(h, b)[p] # Null
    BY <1>6, <2>1
  <2> QED
    BY <1>8, <2>2 DEF IsBuilt, Allocated, AfterAllocate
<1>9. CASE h \in Matrices /\ next < 3
  <2>1. AfterAllocate(h) = "allocate" /\ NextPart(h) = next + 1
    BY <1>9 DEF AfterAllocate, NextPart
  <2>2. handle[h].backend \in Backends
    BY <1>2 DEF IsBuilt
  <2>3. \A p \in Part : IF p < next + 1
                        THEN Length(h, shape, p) > 0 => Pointing(h, b)[p] # Null
                        ELSE Pointing(h, b)[p] = Null
    BY <1>1, <1>6, <1>7 DEF Part
  <2> QED
    BY <1>9, <2>1, <2>2, <2>3 DEF IsBuilt, Allocated
<1>10. CASE h \in Matrices /\ next = 3
  <2>1. \A p \in Part : Length(h, shape, p) > 0 => Pointing(h, b)[p] # Null
    BY <1>6, <1>10 DEF Part
  <2> QED
    BY <1>10, <2>1 DEF IsBuilt, Allocated, AfterAllocate
<1> QED
  BY <1>1, <1>8, <1>9, <1>10 DEF Part

\* Every step keeps what is built consistent.
LEMMA BuiltStep == ASSUME DeviceInv, [DeviceNext]_deviceVars PROVE BuiltInv'
<1> USE DEF DeviceInv
<1>1. \A k \in Handles : IsBuilt(k, handle[k])
  BY DEF BuiltInv
<1>2. ASSUME NEW h \in Handles, Default(h) PROVE BuiltInv'
  <2>1. IsBuilt(h, [NoObject EXCEPT !.stage = "alive"])
    BY DEF IsBuilt, NoObject
  <2> QED
    BY <1>2, <2>1, ChangedIsBuilt DEF Default
<1>3. ASSUME NEW h \in Handles, NEW backend \in Backends, NEW shape \in Shape,
             NEW uploads \in BOOLEAN, Construct(h, backend, shape, uploads)
      PROVE  BuiltInv'
  <2> DEFINE stage == IF Length(h, shape, 1) = 0 THEN "alive" ELSE "allocate"
             object == [NoObject EXCEPT !.stage = stage, !.uploads = uploads,
                                        !.backend = backend, !.shape = shape]
  <2>1. /\ object.stage = stage /\ object.next = 1 /\ object.backend = backend
        /\ object.ptr = NoPointers /\ object.shape = shape
    BY DEF NoObject
  <2>2. shape \in [count : Nat, nnz : Nat] /\ IsShapeOf(h, shape)
    BY <1>3, HandlesAssumption DEF Shape, Construct
  <2>3. \A p \in Part : NoPointers[p] = Null /\ ~(p < 1)
    BY DEF NoPointers, Part
  <2>4. h \notin Matrices => shape.nnz = 0
    BY <2>2 DEF IsShapeOf
  <2>5. Length(h, shape, 1) = 0 => shape = NoShape
    BY <2>2, <2>4 DEF Length, NoShape
  <2> HIDE DEF object
  <2>6. IsBuilt(h, object)
    BY <2>1, <2>3, <2>4, <2>5 DEF IsBuilt
  <2>7. handle' = [handle EXCEPT ![h] = object]
    BY <1>3 DEF Construct, object
  <2> QED
    BY <2>6, <2>7, ChangedIsBuilt
<1>4. ASSUME NEW h \in Handles, Allocate(h) PROVE BuiltInv'
  <2>1. PICK b : handle' = [handle EXCEPT ![h] = Allocated(h, b)] /\ (b # Null \/ Wanted(h) = 0)
    BY <1>4, HandlesAssumption DEF Allocate, Null
  <2>2. IsBuilt(h, Allocated(h, b))
    BY <1>4, <2>1, AllocatedIsBuilt DEF Allocate
  <2> QED
    BY <2>1, <2>2, ChangedIsBuilt
<1>5. ASSUME NEW h \in Handles, Fill(h) \/ Copy(h) PROVE BuiltInv'
  <2>1. PICK stage \in {"copy", "alive"} : handle' = [handle EXCEPT ![h].stage = stage]
    BY <1>5 DEF Fill, Copy
  <2>2. handle[h].stage \in {"zero", "copy"}
    BY <1>5 DEF Fill, Copy
  <2>3. IsBuilt(h, [handle[h] EXCEPT !.stage = stage])
    BY <1>1, <2>1, <2>2 DEF IsBuilt, DeviceTypeOK, Object
  <2>4. handle' = [handle EXCEPT ![h] = [handle[h] EXCEPT !.stage = stage]]
    BY <2>1 DEF DeviceTypeOK
  <2> QED
    BY <2>3, <2>4, ChangedIsBuilt
<1>6. ASSUME NEW h \in Handles, Fail(h) \/ Destroy(h) PROVE BuiltInv'
  <2>1. IsBuilt(h, NoObject)
    BY DEF IsBuilt, NoObject
  <2> QED
    BY <1>6, <2>1, ChangedIsBuilt DEF Fail, Destroy
<1>7. ASSUME NEW h \in Handles, NEW g \in Handles, MoveConstruct(h, g) PROVE BuiltInv'
  <2>1. h # g
    BY <1>7 DEF MoveConstruct, Alive
  <2> QED
    BY <1>7, <2>1, BuiltMoves DEF MoveConstruct
<1>8. ASSUME NEW h \in Handles, NEW g \in Handles, MoveAssign(h, g) PROVE BuiltInv'
  <2>1. CASE h = g
    BY <1>1, <1>8, <2>1, BuiltIsNext DEF MoveAssign
  <2>2. CASE h # g
    BY <1>8, <2>2, BuiltMoves DEF MoveAssign
  <2> QED
    BY <2>1, <2>2
<1>9. ASSUME UNCHANGED handle PROVE BuiltInv'
  BY <1>1, <1>9, BuiltIsNext
<1> QED
  BY <1>2, <1>3, <1>4, <1>5, <1>6, <1>7, <1>8, <1>9 DEF DeviceNext, Use, deviceVars

\* What a handle holds is its backend's, and what it reaches it has.
LEMMA SoundStep == ASSUME DeviceInv, [DeviceNext]_deviceVars PROVE MemoryIsSound'
<1> USE DEF DeviceInv, MemoryIsSound
<1>1. ASSUME NEW h \in Handles, Release(h) PROVE MemoryIsSound'
  <2>1. \A b \in Held(h) : IsHis(h, b)
    <3> SUFFICES ASSUME NEW p \in Part, handle[h].ptr[p] # Null
                 PROVE  IsHis(h, handle[h].ptr[p])
      BY DEF Held
    <3>1. heap[handle[h].ptr[p]] =
            [maker |-> handle[h].backend, length |-> Length(h, handle[h].shape, p)]
      BY DEF BackedInv, IsBacked
    <3> QED
      BY <3>1 DEF IsHis
  <2> QED
    BY <1>1, <2>1 DEF Release
<1>2. ASSUME NEW h \in Handles, Use(h) PROVE MemoryIsSound'
  <2>1. ASSUME NEW p \in Reaches(h) PROVE IsBacked(h, p)
    <3>1. p \in Part /\ handle[h].shape.count > 0 /\ Length(h, handle[h].shape, p) > 0
      BY DEF Reaches
    <3>2. handle[h].shape # NoShape
      BY <3>1 DEF NoShape
    <3>3. handle[h].ptr[p] # Null
      BY <1>2, <3>1, <3>2 DEF BuiltInv, IsBuilt, Use, Alive
    <3> QED
      BY <3>1, <3>3 DEF BackedInv
  <2> QED
    BY <1>2, <2>1 DEF Use
<1>3. ASSUME UNCHANGED broken PROVE MemoryIsSound'
  BY <1>3
<1> QED
  BY <1>1, <1>2, <1>3 DEF DeviceNext, Default, Construct, Allocate, Fill, Copy, Fail, Destroy,
                          MoveConstruct, MoveAssign, ReleasedFirst, deviceVars

-------------------------------------------------------------------------------
\* The invariant is inductive.
LEMMA DeviceInvariant == DeviceSpec => []DeviceInv
<1>1. DeviceInv /\ [DeviceNext]_deviceVars => DeviceInv'
  BY TypeStep, OwnStep, BuiltStep, SoundStep DEF DeviceInv
<1> QED
  BY InitInv, <1>1, PTL DEF DeviceSpec

\* Objects are built part after part and in their shapes.
THEOREM DeviceTypeCorrect == DeviceSpec => []DeviceTypeOK
<1>1. DeviceInv => DeviceTypeOK
  BY DEF DeviceInv
<1> QED
  BY <1>1, DeviceInvariant, PTL

\* Every block in use belongs to one array of one handle, or is one that a
\* failed construction of a buffer lost: moves and unwinding free no block of
\* another handle and forget none.
THEOREM OneOwner == DeviceSpec => []BlocksHaveOneOwner
<1>1. DeviceInv => BlocksHaveOneOwner
  BY DEF DeviceInv
<1> QED
  BY <1>1, DeviceInvariant, PTL

\* No block is freed twice or by a backend that did not make it, and no handle,
\* moved from or not, is used beyond what it owns.
THEOREM MemorySound == DeviceSpec => []MemoryIsSound
<1>1. DeviceInv => MemoryIsSound
  BY DEF DeviceInv
<1> QED
  BY <1>1, DeviceInvariant, PTL
=============================================================================
