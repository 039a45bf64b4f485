-------------------------------- MODULE MCLogin --------------------------------
(* Two requests of a bootstrap administrator and another wallet on two replicas. *)
EXTENDS Login, TLC

CONSTANTS alice, bob, here, elsewhere, n1, n2, r1, r2

Same == Permutations({r1, r2}) \cup Permutations({n1, n2})
=============================================================================
