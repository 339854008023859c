-------------------------------- MODULE MCRace --------------------------------
(* The three engines of race_solve, in the order of its array. *)
EXTENDS Race

MCEntrants == <<"simplex", "pdhg", "ipm">>
=============================================================================
