------------------------------ MODULE FirstAnswer ------------------------------
(***************************************************************************)
(* What a concurrent solve promises its caller, with the threads, the lock *)
(* and the cancellation flags left out.  Claimants enter while there is no *)
(* answer yet; each one that entered leaves exactly once, either with a    *)
(* claim that becomes the answer or without one; the call returns only     *)
(* when nobody who entered is still inside.  race_solve and                *)
(* Crossover::solve are both shown to implement this module.               *)
(***************************************************************************)
CONSTANTS
  Claimant,
  NoAnswer   \* not a claimant

VARIABLES
  entered,   \* the claimants that ever entered
  inside,    \* those of them that have not left
  answer,    \* the claimant whose claim was accepted
  returned   \* the call has returned to its caller

vars == <<entered, inside, answer, returned>>

TypeOK ==
  /\ entered \subseteq Claimant
  /\ inside \subseteq entered
  /\ answer \in Claimant \cup {NoAnswer}
  /\ returned \in BOOLEAN

Init ==
  /\ entered \in SUBSET Claimant
  /\ inside = entered
  /\ answer = NoAnswer
  /\ returned = FALSE

\* A claimant may be let in late, but never once somebody has answered,
\* and nobody enters twice.
Enter(c) ==
  /\ ~returned
  /\ answer = NoAnswer
  /\ c \notin entered
  /\ entered' = entered \cup {c}
  /\ inside' = inside \cup {c}
  /\ UNCHANGED <<answer, returned>>

\* The first valid claim is the answer.
Claim(c) ==
  /\ c \in inside
  /\ answer = NoAnswer
  /\ answer' = c
  /\ inside' = inside \ {c}
  /\ UNCHANGED <<entered, returned>>

\* Everybody else leaves without being heard: cancelled, failed, or late.
Withdraw(c) ==
  /\ c \in inside
  /\ inside' = inside \ {c}
  /\ UNCHANGED <<entered, answer, returned>>

Return ==
  /\ inside = {}
  /\ returned' = TRUE
  /\ UNCHANGED <<entered, inside, answer>>

Next ==
  \/ \E c \in Claimant : Enter(c) \/ Claim(c) \/ Withdraw(c)
  \/ Return

Spec == Init /\ [][Next]_vars
=============================================================================
