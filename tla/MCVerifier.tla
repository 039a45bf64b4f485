------------------------------ MODULE MCVerifier ------------------------------
(* Two checks of an ordinary wallet's and a smart account's proofs on two replicas. *)
EXTENDS Verifier, TLC

CONSTANTS alice, vault, c1, h1, n1, n2, v1, v2

Alike == Permutations({v1, v2}) \cup Permutations({n1, n2})
=============================================================================
