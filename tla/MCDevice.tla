-------------------------------- MODULE MCDevice --------------------------------
(* Two buffers and two matrices on two backends, with less memory than they    *)
(* may ask for.  Handles of a class, backends and blocks are alike.            *)
EXTENDS DeviceMemory, TLC

CONSTANTS b1, b2, m1, m2, host, cuda, k1, k2, k3, k4

Symmetry ==
  {pb @@ pm @@ pd @@ pk : pb \in Permutations({b1, b2}), pm \in Permutations({m1, m2}),
     pd \in Permutations({host, cuda}), pk \in Permutations({k1, k2, k3, k4})}
===============================================================================
