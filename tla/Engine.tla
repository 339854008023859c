-------------------------------- MODULE Engine --------------------------------
(***************************************************************************)
(* What a race relies on in each of its engines (race.hpp): an engine that *)
(* has started polls its cancellation token and its limits once in every   *)
(* iteration, a set token ends it at the next poll, and it ends with one   *)
(* status, which may claim an answer.  The thread of an entrant in Race    *)
(* goes through these states between its launch and its report.            *)
(***************************************************************************)
CONSTANTS
  Claims,     \* the statuses that answer the problem
  Failures,   \* the statuses that say nothing
  Stopped     \* the status of an engine that found its token set

VARIABLES
  where,      \* before the loop, at a poll, inside an iteration, or over
  token,      \* the cancellation token is set
  answer      \* the status, or "none"

vars == <<where, token, answer>>

Init ==
  /\ where = "setup"
  /\ token \in BOOLEAN
  /\ answer = "none"

\* Anybody may set the token, at any time.
SetToken ==
  /\ ~token
  /\ token' = TRUE
  /\ UNCHANGED <<where, answer>>

Ends(statuses) ==
  /\ where' = "done"
  /\ answer' \in statuses
  /\ UNCHANGED token

GoesOn(place) ==
  /\ where' = place
  /\ UNCHANGED <<token, answer>>

Begin == where = "setup" /\ GoesOn("poll")
Refuse == where = "setup" /\ Ends(Failures)

\* What follows a poll may end the engine at once, a limit for one.
Heed == where = "poll" /\ token /\ Ends({Stopped})
Expire == where = "poll" /\ ~token /\ Ends(Claims \cup Failures)
Proceed == where = "poll" /\ ~token /\ GoesOn("step")

Continue == where = "step" /\ GoesOn("poll")
Conclude == where = "step" /\ Ends(Claims \cup Failures)

Next ==
  \/ SetToken
  \/ Begin \/ Refuse
  \/ Heed \/ Expire \/ Proceed
  \/ Continue \/ Conclude

Spec == Init /\ [][Next]_vars
===============================================================================
