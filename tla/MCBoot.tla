-------------------------------- MODULE MCBoot --------------------------------
(* Two instances, two imported apps and one that only an administrator creates. *)
EXTENDS Boot, TLC

CONSTANTS user, merchant, other, i1, i2

TwoApps == <<user, merchant>>
Replicas == Permutations({i1, i2})
=============================================================================
