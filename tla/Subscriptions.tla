---------------------------- MODULE Subscriptions ----------------------------
(***************************************************************************)
(* Browser-facing registration of push channels: POST and DELETE           *)
(* /subscriptions (src/src/routes/subscriptions.ts) over the subscriptions *)
(* table (src/src/repository.ts), for apps that may require a wallet       *)
(* signature, while an administrator creates, changes and deletes apps.    *)
(*                                                                         *)
(* A request is one handler run; it is cut at its awaits, so two requests, *)
(* a DELETE and an administrator interleave between any two of its         *)
(* database calls.  Each SQL statement is atomic.                          *)
(*                                                                         *)
(* A user is a wallet address or NoUser (no userId, or one that is no      *)
(* address).  A proof is the challenge a wallet signed, reduced to what    *)
(* verifyProof compares: the channel and the address.  The other checks    *)
(* of verifyProof (domain, window, signature, RPC) are the verifier's own  *)
(* and appear here as its possible answers.                                *)
(***************************************************************************)
EXTENDS FiniteSets

CONSTANTS Apps, Endpoints, Wallets,
          Requests,     \* the handler runs that may be in progress at once
          Arrivals,     \* the bodies that may be posted
          NoUser, NoRow, NoProof, NoBody

ASSUME NoUserAssumption == NoUser \notin Wallets

VARIABLES
    app,        \* apps table: "absent", or whether require_subscription_signature is set
    row,        \* subscriptions table, by its unique endpoint
    pc,         \* where each handler run waits
    body,       \* what each request carries
    path,       \* the branch a handler took: "open", "proof" or "refresh"
    proved,     \* history: the channels whose wallet signature was verified
    everOpen    \* history: the apps that did not require a signature at some time

vars == <<app, row, pc, body, path, proved, everOpen>>
tables == <<app, row>>
history == <<proved, everOpen>>

Users == Wallets \cup {NoUser}
Channels == [app : Apps, endpoint : Endpoints, user : Users]
Proofs == [app : Apps, endpoint : Endpoints, user : Wallets]
Rows == [app : Apps, user : Users, verified : BOOLEAN]
Bodies == [app : Apps, endpoint : Endpoints, user : Users, proof : Proofs \cup {NoProof}]

ASSUME ArrivalsAssumption == Arrivals \subseteq Bodies

Channel(b) == [app |-> b.app, endpoint |-> b.endpoint, user |-> b.user]

\* A fresh deployment after its first configuration: apps exist or not, with or
\* without the flag, and nobody has subscribed.
Init ==
    /\ app \in [Apps -> {"absent", "open", "strict"}]
    /\ row = [e \in Endpoints |-> NoRow]
    /\ pc = [r \in Requests |-> "idle"]
    /\ body = [r \in Requests |-> NoBody]
    /\ path = [r \in Requests |-> "none"]
    /\ proved = {}
    /\ everOpen = {a \in Apps : app[a] # "strict"}

-----------------------------------------------------------------------------
(* POST /subscriptions *)

Goto(r, label) == pc' = [pc EXCEPT ![r] = label]

\* The response is sent, whatever its status; nothing of the handler is left.
Respond(r) ==
    /\ Goto(r, "idle")
    /\ body' = [body EXCEPT ![r] = NoBody]
    /\ path' = [path EXCEPT ![r] = "none"]

\* The body parsed and, when the browser sent an Origin, the allow-list let it
\* pass.  (A request that fails here changes nothing.)
Arrive(r, b) ==
    /\ pc[r] = "idle"
    /\ Goto(r, "getApp")
    /\ body' = [body EXCEPT ![r] = b]
    /\ UNCHANGED <<app, row, path, proved, everOpen>>

\* From here on the handler is committed to the upsert.
Commit(r, how) ==
    /\ Goto(r, "upsert")
    /\ path' = [path EXCEPT ![r] = how]
    /\ body' = [body EXCEPT ![r] = [@ EXCEPT !.proof = NoProof]]

\* Mutant of NeedsSignature: only a named user is asked to sign.
NeedsSignatureIfNamed(b) == app[b.app] = "strict" /\ b.user # NoUser

\* repo.getApp: an app that does not exist asks for no signature.
NeedsSignature(b) == app[b.app] = "strict"

\* The flag is read once; the handler does not look at it again.
ReadApp(r) ==
    LET b == body[r] IN
    /\ pc[r] = "getApp"
    /\ \/ ~NeedsSignature(b) /\ Commit(r, "open")
       \/ NeedsSignature(b) /\ b.user = NoUser /\ Respond(r)          \* 401 signature_required
       \/ /\ NeedsSignature(b) /\ b.user # NoUser /\ b.proof # NoProof
          /\ \/ Respond(r)                                 \* 403, no Origin header
             \/ Goto(r, "verify") /\ UNCHANGED <<body, path>>
       \/ /\ NeedsSignature(b) /\ b.user # NoUser /\ b.proof = NoProof
          /\ Goto(r, "getExisting") /\ UNCHANGED <<body, path>>
    /\ UNCHANGED <<app, row, proved, everOpen>>

\* Mutant of Bound: the app of the resource is not compared.
BoundToAnyApp(b) == b.proof.endpoint = b.endpoint /\ b.proof.user = b.user

\* verifyProof's first two checks: the signed resource names this channel and the
\* signed address is the userId.
Bound(b) == b.proof = Channel(b)

\* verifyProof answers: true for a bound proof the wallet signed; false or
\* VerifyUnavailableError, which end the request.
Verify(r) ==
    /\ pc[r] = "verify"
    /\ \/ /\ Bound(body[r])
          /\ Commit(r, "proof")
          /\ proved' = proved \cup {body[r].proof}
       \/ Respond(r) /\ UNCHANGED proved                    \* 401 or 503
    /\ UNCHANGED <<app, row, everOpen>>

\* Mutant of MayRefresh: the row may belong to another app.
MayRefreshAcrossApps(b, existing) ==
    existing # NoRow /\ existing.user = b.user /\ existing.verified

\* The unsigned refresh of a channel that its user verified before.
MayRefresh(b, existing) ==
    /\ existing # NoRow
    /\ existing.user = b.user
    /\ existing.app = b.app
    /\ existing.verified

ReadExisting(r) ==
    /\ pc[r] = "getExisting"
    /\ \/ MayRefresh(body[r], row[body[r].endpoint]) /\ Commit(r, "refresh")
       \/ ~MayRefresh(body[r], row[body[r].endpoint]) /\ Respond(r)    \* 401
    /\ UNCHANGED <<app, row, proved, everOpen>>

\* INSERT ... ON CONFLICT(endpoint) DO UPDATE, with
\* verified_at = COALESCE(excluded.verified_at, subscriptions.verified_at).
Upserted(old, b, verifiedAt) ==
    [app |-> b.app, user |-> b.user,
     verified |-> verifiedAt \/ (old # NoRow /\ old.verified)]

Upsert(r) ==
    LET e == body[r].endpoint IN
    /\ pc[r] = "upsert"
    /\ row' = [row EXCEPT ![e] = Upserted(@, body[r], path[r] = "proof")]
    /\ Respond(r)                                                      \* 201
    /\ UNCHANGED <<app, proved, everOpen>>

\* Mutant of Fails: nobody passes the rejection of the handler on.
FailsUncaught(r) ==
    /\ pc[r] \notin {"idle", "hung"}
    /\ Goto(r, "hung")
    /\ UNCHANGED <<app, row, body, path, proved, everOpen>>

\* A database call fails and asyncHandler passes the error on: 500.  (An upsert
\* that took effect before its answer was lost is Upsert.)
Fails(r) ==
    /\ pc[r] # "idle"
    /\ Respond(r)
    /\ UNCHANGED <<app, row, proved, everOpen>>

-----------------------------------------------------------------------------
(* The other writers *)

\* DELETE /subscriptions, and the sender's prune of a gone endpoint.
DeleteByEndpoint(e) ==
    /\ row[e] # NoRow
    /\ row' = [row EXCEPT ![e] = NoRow]
    /\ UNCHANGED <<app, pc, body, path, proved, everOpen>>

SetApp(a, status) ==
    /\ app' = [app EXCEPT ![a] = status]
    /\ everOpen' = everOpen \cup (IF status = "strict" THEN {} ELSE {a})
    /\ UNCHANGED <<row, pc, body, path, proved>>

\* POST /apps: the flag is off by default.
CreateApp(a) == app[a] = "absent" /\ SetApp(a, "open")

\* PATCH /apps/:appId with requireSubscriptionSignature.
UpdateApp(a, status) == app[a] # "absent" /\ app[a] # status /\ SetApp(a, status)

\* DELETE /apps/:appId: keys and origins go with it, subscriptions stay.
DeleteApp(a) == app[a] # "absent" /\ SetApp(a, "absent")

-----------------------------------------------------------------------------
Handle(r) == ReadApp(r) \/ Verify(r) \/ ReadExisting(r) \/ Upsert(r)

Next ==
    \/ \E r \in Requests, b \in Arrivals : Arrive(r, b)
    \/ \E r \in Requests : Handle(r) \/ Fails(r)
    \/ \E e \in Endpoints : DeleteByEndpoint(e)
    \/ \E a \in Apps :
          \/ CreateApp(a)
          \/ \E status \in {"open", "strict"} : UpdateApp(a, status)
          \/ DeleteApp(a)

Spec == Init /\ [][Next]_vars

\* The database and the verifier answer every call, and Node runs the handler on.
FairSpec == Spec /\ \A r \in Requests : WF_vars(Handle(r))

-----------------------------------------------------------------------------
TypeOK ==
    /\ app \in [Apps -> {"absent", "open", "strict"}]
    /\ row \in [Endpoints -> Rows \cup {NoRow}]
    /\ pc \in [Requests -> {"idle", "getApp", "verify", "getExisting", "upsert"}]
    /\ body \in [Requests -> Bodies \cup {NoBody}]
    /\ \A r \in Requests : IF pc[r] = "idle" THEN body[r] = NoBody ELSE body[r] \in Bodies
    /\ path \in [Requests -> {"none", "open", "proof", "refresh"}]
    /\ proved \subseteq Proofs
    /\ everOpen \subseteq Apps

ChannelOf(e) == [app |-> row[e].app, endpoint |-> e, user |-> row[e].user]

\* An app that has required signatures all along holds no channel that its user
\* did not prove, in any interleaving of refreshes, proofs, deletions and writes
\* by other apps to the same endpoint (subscriptions.ts:45-87).
StrictAppsHoldProvenChannels ==
    \A e \in Endpoints :
        (row[e] # NoRow /\ row[e].app \notin everOpen) => ChannelOf(e) \in proved

\* When a row becomes verified it is by a signature of its own user for its own
\* app and endpoint, not one for another channel (subscriptions.ts:55-76).
VerificationIsEarned ==
    [][\A e \in Endpoints :
          LET was == row[e] # NoRow /\ row[e].verified
              is == row'[e] # NoRow /\ row'[e].verified
          IN  ~was /\ is => ChannelOf(e)' \in proved]_vars

\* A request that wrote under a flag read before it was turned on.
OpenWritePending(a) ==
    \E r \in Requests : pc[r] = "upsert" /\ path[r] = "open" /\ body[r].app = a

\* Turning the flag on and leaving it on is enough: the writes admitted before
\* drain, and after some time none that skipped the check is left.
FlagIsEventuallyEnforced ==
    \A a \in Apps : <>[](app[a] = "strict") => <>[]~OpenWritePending(a)

\* Every registration request gets its response.
RequestsAreAnswered ==
    \A r \in Requests : (pc[r] # "idle") ~> (pc[r] = "idle")

-----------------------------------------------------------------------------
(* What a comment says and the code does not keep. *)

\* types.ts:49, of verifiedAt: "When the subscriber proved control of `userId`
\* via signature".  The user of a verified row has signed for a channel at some time,
\* whichever app and endpoint it was.
VerifiedMeansUserProved ==
    \A e \in Endpoints : row[e] # NoRow /\ row[e].verified /\ row[e].user # NoUser =>
        \E channel \in proved : channel.user = row[e].user
=============================================================================
