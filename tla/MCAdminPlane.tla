----------------------------- MODULE MCAdminPlane -----------------------------
(* Mixes of requests: who manages apps, keys and origins, and who manages whom. *)
EXTENDS AdminPlane, TLC

CONSTANTS a1, a2, k1, alice, bob, site, r1, r2

Given(f, v) == f :> v

\* One administrator's app, its keys and origins, a sender and a page.
AppOps ==
         [kind : {"create", "delete", "mint"}, by : {alice}, app : {a1}]
    \cup [kind : {"patch"}, by : {alice}, app : {a1},
          patch : {Given("disabled", TRUE), Given("disabled", FALSE), Given("strict", TRUE)}]
    \cup [kind : {"revoke"}, by : {alice}, key : {k1}]
    \cup [kind : {"allow"}, by : {alice}, app : {a1}, site : {site}]
    \cup [kind : {"disallow"}, by : {alice}, origin : {1}]
    \cup [kind : {"send"}, app : {a1, a2}, key : {k1}]
    \cup [kind : {"browse"}, app : {a1}, site : {site}]

\* Two wallets that add and remove each other, and what they may do.
PeopleOps ==
         [kind : {"delete"}, by : {bob}, app : {a1}]
    \cup [kind : {"addAdmin", "removeAdmin"}, by : {alice}, wallet : {bob}]
    \cup [kind : {"removeAdmin"}, by : {bob}, wallet : {alice}]

MixedOps == AppOps \cup PeopleOps

\* Renames and changes of one flag each.
PatchOps ==
    [kind : {"patch"}, by : {alice}, app : {a1},
     patch : {<<>>, Given("disabled", TRUE), Given("strict", TRUE)}]
=============================================================================
