------------------------------ MODULE MCDelivery ------------------------------
(* Sends on small sets of endpoints and users. *)
EXTENDS Delivery, TLC

CONSTANTS ann, e1, s1, s2

BroadcastOnly == [s \in Sends |-> {<<Everyone>>}]

\* One send names a user twice, or nobody; the other goes to everyone.
DoubledAndSingle == s1 :> {<<>>, <<ann, ann>>} @@ s2 :> {<<Everyone>>}
=============================================================================
