--------------------------- MODULE MCSubscriptions ---------------------------
(* Registration of one endpoint for two apps and two wallets. *)
EXTENDS Subscriptions, TLC

CONSTANTS alice, bob, shop, wiki, phone, laptop, r1, r2

Signed(a, e, u) == [app |-> a, endpoint |-> e, user |-> u]
Body(a, u, proof) == [app |-> a, endpoint |-> phone, user |-> u, proof |-> proof]

\* Anybody without a proof, and proofs for the channel they come with, or for
\* another user, app or endpoint.
Posts ==
         {Body(a, u, NoProof) : a \in {shop, wiki}, u \in {alice, bob}}
    \cup {Body(shop, NoUser, NoProof),
          Body(shop, alice, Signed(shop, phone, alice)),
          Body(shop, bob, Signed(shop, phone, bob)),
          Body(shop, bob, Signed(shop, phone, alice)),
          Body(wiki, alice, Signed(shop, phone, alice)),
          Body(shop, alice, Signed(shop, laptop, alice))}
=============================================================================
