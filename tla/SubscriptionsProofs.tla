------------------------- MODULE SubscriptionsProofs -------------------------
(***************************************************************************)
(* For any number of apps, endpoints, wallets and concurrent requests: an  *)
(* app that has always required signatures holds only channels its users   *)
(* proved, and a row becomes verified only by its own user's proof.        *)
(*                                                                         *)
(* The history `proved` only grows, so what a handler found before its     *)
(* last await is still true of `proved` when it writes; that is why the    *)
(* race of a refresh with a deletion or another proof is harmless here.    *)
(*                                                                         *)
(* The last part is about apps that turn the flag on after they were open. *)
(***************************************************************************)
EXTENDS Subscriptions, TLAPS

\* An app outside everOpen requires a signature now, too.
FlagInv == \A a \in Apps : a \notin everOpen => app[a] = "strict"

\* A handler about to write for an app that was never open writes a proven
\* channel, and one that goes on to verify or to refresh has a wallet as user.
CommitInv ==
    \A r \in Requests :
        /\ pc[r] = "upsert" => path[r] # "none"
        /\ pc[r] \in {"verify", "getExisting"} => body[r].user # NoUser
        /\ pc[r] = "upsert" /\ path[r] = "open" => body[r].app \in everOpen
        /\ pc[r] = "upsert" /\ path[r] = "proof" => Channel(body[r]) \in proved
        /\ pc[r] = "upsert" /\ path[r] = "refresh" /\ body[r].app \notin everOpen
              => Channel(body[r]) \in proved

Inv == TypeOK /\ FlagInv /\ CommitInv /\ StrictAppsHoldProvenChannels

-----------------------------------------------------------------------------
\* The initial states satisfy the invariant.
LEMMA InitInv == Init => Inv
  BY DEF Init, Inv, TypeOK, FlagInv, CommitInv, StrictAppsHoldProvenChannels

\* What the table and the history look like to the parts of the invariant that a
\* step of one handler leaves alone.
LEMMA OtherHandlers ==
  ASSUME CommitInv, NEW r \in Requests, NEW s \in Requests, s # r,
         pc'[s] = pc[s], body'[s] = body[s], path'[s] = path[s],
         proved \subseteq proved', everOpen \subseteq everOpen',
         everOpen' = everOpen
  PROVE  CommitInv!(s)'
  BY DEF CommitInv, Channel

\* An arriving request keeps the invariant.
LEMMA ArriveInv ==
  ASSUME Inv, NEW r \in Requests, NEW b \in Bodies, Arrive(r, b)
  PROVE  Inv'
<1>1. TypeOK'
  BY DEF Inv, TypeOK, Arrive, Goto
<1>2. CommitInv'
  BY DEF Inv, TypeOK, CommitInv, Arrive, Goto, Channel
<1> QED BY <1>1, <1>2 DEF Inv, FlagInv, StrictAppsHoldProvenChannels, ChannelOf, Arrive

\* What a handler that commits to the upsert changes.
LEMMA CommitKeeps ==
  ASSUME Inv, NEW r \in Requests, pc[r] # "idle", NEW how \in {"open", "proof", "refresh"},
         Commit(r, how)
  PROVE  /\ pc' = [pc EXCEPT ![r] = "upsert"] /\ path' = [path EXCEPT ![r] = how]
         /\ body' = [body EXCEPT ![r] = body'[r]]
         /\ body'[r] \in Bodies /\ Channel(body'[r]) = Channel(body[r])
         /\ body'[r].app = body[r].app
  BY DEF Inv, TypeOK, Commit, Goto, Bodies, Channel

\* What a response changes.
LEMMA RespondKeeps ==
  ASSUME Inv, NEW r \in Requests, Respond(r)
  PROVE  /\ pc' = [pc EXCEPT ![r] = "idle"] /\ path' = [path EXCEPT ![r] = "none"]
         /\ body' = [body EXCEPT ![r] = NoBody]
  BY DEF Respond, Goto

\* A handler that has responded leaves the control part of the invariant true.
LEMMA RespondInv ==
  ASSUME Inv, NEW r \in Requests, Respond(r), UNCHANGED <<proved, everOpen>>
  PROVE  CommitInv' /\ (app' = app /\ row' \in [Endpoints -> Rows \cup {NoRow}] => TypeOK')
<1>1. CommitInv'
  BY RespondKeeps DEF Inv, TypeOK, CommitInv, Channel
<1>2. ASSUME app' = app, row' \in [Endpoints -> Rows \cup {NoRow}] PROVE TypeOK'
  BY <1>2, RespondKeeps DEF Inv, TypeOK
<1> QED BY <1>1, <1>2

\* A handler that commits to the write with a channel that is proven, or for an
\* app that was open, keeps the invariant.
LEMMA CommitInvariant ==
  ASSUME Inv, NEW r \in Requests, pc[r] # "idle", NEW how \in {"open", "proof", "refresh"},
         Commit(r, how), UNCHANGED <<app, row, everOpen>>,
         proved \subseteq proved', proved' \subseteq Proofs,
         how = "open" => body[r].app \in everOpen,
         how = "proof" => Channel(body[r]) \in proved',
         how = "refresh" /\ body[r].app \notin everOpen => Channel(body[r]) \in proved'
  PROVE  Inv'
<1>1. TypeOK'
  BY CommitKeeps DEF Inv, TypeOK
<1>2. CommitInv'
  <2> SUFFICES ASSUME NEW s \in Requests PROVE CommitInv!(s)'
    BY DEF CommitInv
  <2>1. CASE s = r
    BY <2>1, CommitKeeps DEF Inv, TypeOK
  <2>2. CASE s # r
    <3>1. pc'[s] = pc[s] /\ path'[s] = path[s] /\ body'[s] = body[s]
      BY <2>2, CommitKeeps DEF Inv, TypeOK
    <3> QED BY <2>2, <3>1, OtherHandlers DEF Inv
  <2> QED BY <2>1, <2>2
<1>3. FlagInv' /\ StrictAppsHoldProvenChannels'
  BY DEF Inv, FlagInv, StrictAppsHoldProvenChannels, ChannelOf
<1> QED BY <1>1, <1>2, <1>3 DEF Inv

\* Reading the flag keeps the invariant.
LEMMA ReadAppInv ==
  ASSUME Inv, NEW r \in Requests, ReadApp(r)
  PROVE  Inv'
<1> DEFINE b == body[r]
<1>1. pc[r] = "getApp" /\ b \in Bodies /\ UNCHANGED <<app, row, proved, everOpen>>
  BY DEF ReadApp, Inv, TypeOK
<1>2. FlagInv' /\ StrictAppsHoldProvenChannels'
  BY <1>1 DEF Inv, FlagInv, StrictAppsHoldProvenChannels, ChannelOf
<1>3. CASE ~NeedsSignature(b) /\ Commit(r, "open")
  <2>1. b.app \in everOpen
    BY <1>1, <1>3 DEF NeedsSignature, Inv, FlagInv, Bodies
  <2> QED BY <1>1, <1>3, <2>1, CommitInvariant DEF Inv, TypeOK
<1>4. CASE Respond(r)
  BY <1>1, <1>2, <1>4, RespondInv DEF Inv, TypeOK
<1>5. ASSUME NEW label \in {"verify", "getExisting"}, Goto(r, label), UNCHANGED <<body, path>>,
             b.user # NoUser
      PROVE  Inv'
  <2>1. TypeOK'
    BY <1>1, <1>5 DEF Inv, TypeOK, Goto
  <2>2. CommitInv'
    BY <1>1, <1>5 DEF Inv, TypeOK, CommitInv, Goto, Channel
  <2> QED BY <1>2, <2>1, <2>2 DEF Inv
<1> QED BY <1>3, <1>4, <1>5 DEF ReadApp

\* The verifier's answer keeps it.
LEMMA VerifyInv ==
  ASSUME Inv, NEW r \in Requests, Verify(r)
  PROVE  Inv'
<1> DEFINE b == body[r]
<1>1. pc[r] = "verify" /\ b \in Bodies /\ b.user # NoUser /\ UNCHANGED <<app, row, everOpen>>
  BY DEF Verify, Inv, TypeOK, CommitInv
<1>2. CASE Bound(b) /\ Commit(r, "proof") /\ proved' = proved \cup {b.proof}
  <2>1. b.proof = Channel(b) /\ Channel(b) \in Proofs
    BY <1>1, <1>2 DEF Bound, Channel, Bodies, Proofs, Users
  <2>2. proved \subseteq proved' /\ proved' \subseteq Proofs /\ Channel(b) \in proved'
    BY <1>2, <2>1 DEF Inv, TypeOK
  <2> QED BY <1>1, <1>2, <2>2, CommitInvariant
<1>3. CASE Respond(r) /\ UNCHANGED proved
  <2>1. FlagInv' /\ StrictAppsHoldProvenChannels'
    BY <1>1, <1>3 DEF Inv, FlagInv, StrictAppsHoldProvenChannels, ChannelOf
  <2> QED BY <1>1, <1>3, <2>1, RespondInv DEF Inv, TypeOK
<1> QED BY <1>2, <1>3 DEF Verify

\* The check for an unsigned refresh keeps it.
LEMMA ReadExistingInv ==
  ASSUME Inv, NEW r \in Requests, ReadExisting(r)
  PROVE  Inv'
<1> DEFINE b == body[r]
           e == b.endpoint
<1>1. pc[r] = "getExisting" /\ b \in Bodies /\ e \in Endpoints
      /\ UNCHANGED <<app, row, proved, everOpen>>
  BY DEF ReadExisting, Inv, TypeOK, Bodies
<1>2. CASE MayRefresh(b, row[e]) /\ Commit(r, "refresh")
  <2>1. row[e] # NoRow /\ ChannelOf(e) = Channel(b) /\ row[e].app = b.app
    BY <1>2 DEF MayRefresh, ChannelOf, Channel
  <2>2. b.app \notin everOpen => Channel(b) \in proved
    BY <1>1, <2>1 DEF Inv, StrictAppsHoldProvenChannels
  <2> QED BY <1>1, <1>2, <2>2, CommitInvariant DEF Inv, TypeOK
<1>3. CASE Respond(r)
  <2>1. FlagInv' /\ StrictAppsHoldProvenChannels'
    BY <1>1 DEF Inv, FlagInv, StrictAppsHoldProvenChannels, ChannelOf
  <2> QED BY <1>1, <1>3, <2>1, RespondInv DEF Inv, TypeOK
<1> QED BY <1>2, <1>3 DEF ReadExisting

\* The upsert keeps it.
LEMMA UpsertInv ==
  ASSUME Inv, NEW r \in Requests, Upsert(r)
  PROVE  Inv'
<1> DEFINE b == body[r]
           e == b.endpoint
           new == Upserted(row[e], b, path[r] = "proof")
<1>1. pc[r] = "upsert" /\ b \in Bodies /\ e \in Endpoints /\ Respond(r)
      /\ row' = [row EXCEPT ![e] = new] /\ UNCHANGED <<app, proved, everOpen>>
  BY DEF Upsert, Inv, TypeOK, Bodies
<1>2. new \in Rows /\ new.app = b.app /\ new.user = b.user
  <2>1. (path[r] = "proof" \/ (row[e] # NoRow /\ row[e].verified)) \in BOOLEAN
    OBVIOUS
  <2> QED BY <1>1, <2>1 DEF Upserted, Rows, Bodies, Inv, TypeOK
<1>3. row' \in [Endpoints -> Rows \cup {NoRow}]
  BY <1>1, <1>2 DEF Inv, TypeOK
<1>4. TypeOK' /\ CommitInv'
  BY <1>1, <1>3, RespondInv
<1>5. StrictAppsHoldProvenChannels'
  <2> SUFFICES ASSUME NEW f \in Endpoints, row'[f] # NoRow, row'[f].app \notin everOpen
               PROVE  ChannelOf(f)' \in proved
    BY <1>1 DEF StrictAppsHoldProvenChannels
  <2>1. CASE f = e
    <3>1. ChannelOf(f)' = Channel(b) /\ b.app \notin everOpen
      BY <1>1, <1>2, <2>1 DEF ChannelOf, Channel, Inv, TypeOK
    <3>2. path[r] \in {"open", "proof", "refresh"}
      BY <1>1 DEF Inv, TypeOK, CommitInv
    <3> QED BY <1>1, <3>1, <3>2 DEF Inv, CommitInv
  <2>2. CASE f # e
    BY <1>1, <2>2 DEF Inv, TypeOK, StrictAppsHoldProvenChannels, ChannelOf
  <2> QED BY <2>1, <2>2
<1>6. FlagInv'
  BY <1>1 DEF Inv, FlagInv
<1> QED BY <1>4, <1>5, <1>6 DEF Inv

\* A deletion or a prune keeps it.
LEMMA DeleteInv ==
  ASSUME Inv, NEW e \in Endpoints, DeleteByEndpoint(e)
  PROVE  Inv'
<1>1. TypeOK' /\ FlagInv' /\ CommitInv'
  BY DEF DeleteByEndpoint, Inv, TypeOK, FlagInv, CommitInv, Channel
<1>2. StrictAppsHoldProvenChannels'
  BY DEF DeleteByEndpoint, Inv, TypeOK, StrictAppsHoldProvenChannels, ChannelOf
<1> QED BY <1>1, <1>2 DEF Inv

\* An administrator's change of an app keeps it.
LEMMA SetAppInv ==
  ASSUME Inv, NEW a \in Apps, NEW status \in {"absent", "open", "strict"}, SetApp(a, status)
  PROVE  Inv'
<1>1. everOpen \subseteq everOpen' /\ everOpen' \subseteq Apps
  BY DEF SetApp, Inv, TypeOK
<1>2. TypeOK'
  BY <1>1 DEF SetApp, Inv, TypeOK
<1>3. FlagInv'
  BY <1>1 DEF SetApp, Inv, TypeOK, FlagInv
<1>4. CommitInv'
  BY <1>1 DEF SetApp, Inv, CommitInv, Channel
<1>5. StrictAppsHoldProvenChannels'
  BY <1>1 DEF SetApp, Inv, StrictAppsHoldProvenChannels, ChannelOf
<1> QED BY <1>2, <1>3, <1>4, <1>5 DEF Inv

\* A failing database call keeps it.
LEMMA FailsInv ==
  ASSUME Inv, NEW r \in Requests, Fails(r)
  PROVE  Inv'
<1>1. Respond(r) /\ UNCHANGED <<app, row, proved, everOpen>>
  BY DEF Fails
<1>2. FlagInv' /\ StrictAppsHoldProvenChannels'
  BY <1>1 DEF Inv, FlagInv, StrictAppsHoldProvenChannels, ChannelOf
<1> QED BY <1>1, <1>2, RespondInv DEF Inv, TypeOK

\* Every step keeps the invariant.
LEMMA NextInv == Inv /\ [Next]_vars => Inv'
<1> SUFFICES ASSUME Inv, [Next]_vars PROVE Inv'
  OBVIOUS
<1>1. ASSUME NEW r \in Requests, NEW b \in Arrivals, Arrive(r, b) PROVE Inv'
  BY <1>1, ArriveInv, ArrivalsAssumption
<1>2. ASSUME NEW r \in Requests, Handle(r) \/ Fails(r) PROVE Inv'
  BY <1>2, ReadAppInv, VerifyInv, ReadExistingInv, UpsertInv, FailsInv DEF Handle
<1>3. ASSUME NEW e \in Endpoints, DeleteByEndpoint(e) PROVE Inv'
  BY <1>3, DeleteInv
<1>4. ASSUME NEW a \in Apps,
             CreateApp(a) \/ (\E status \in {"open", "strict"} : UpdateApp(a, status)) \/ DeleteApp(a)
      PROVE  Inv'
  BY <1>4, SetAppInv DEF CreateApp, UpdateApp, DeleteApp
<1>5. CASE UNCHANGED vars
  BY <1>5 DEF vars, Inv, TypeOK, FlagInv, CommitInv, StrictAppsHoldProvenChannels, ChannelOf, Channel
<1> QED BY <1>1, <1>2, <1>3, <1>4, <1>5 DEF Next

-----------------------------------------------------------------------------
\* Inv is an invariant of registration.
LEMMA Invariance == Spec => []Inv
<1> QED BY InitInv, NextInv, PTL DEF Spec

\* The variables of registration keep their types.
THEOREM TypeCorrect == Spec => []TypeOK
<1>1. Inv => TypeOK
  BY DEF Inv
<1> QED BY <1>1, Invariance, PTL

\* An app that has always required signatures holds only channels whose users
\* proved them, whatever runs at the same time.
THEOREM StrictAppsSafe == Spec => []StrictAppsHoldProvenChannels
<1>1. Inv => StrictAppsHoldProvenChannels
  BY DEF Inv
<1> QED BY <1>1, Invariance, PTL

\* A row turns verified only by a proof of its own user for its own channel.
THEOREM VerificationEarned == Spec => VerificationIsEarned
<1> DEFINE Earned(e) ==
      LET was == row[e] # NoRow /\ row[e].verified
          is == row'[e] # NoRow /\ row'[e].verified
      IN  ~was /\ is => ChannelOf(e)' \in proved
<1>1. ASSUME Inv, Next, NEW e \in Endpoints PROVE Earned(e)
  <2>1. ASSUME NEW r \in Requests, Upsert(r) PROVE Earned(e)
    <3>1. pc[r] = "upsert" /\ body[r] \in Bodies /\ body[r].endpoint \in Endpoints
      BY <1>1, <2>1 DEF Upsert, Inv, TypeOK, Bodies
    <3>2. CASE e # body[r].endpoint
      BY <1>1, <2>1, <3>2 DEF Upsert, Inv, TypeOK
    <3>3. CASE e = body[r].endpoint
      <4> SUFFICES ASSUME ~(row[e] # NoRow /\ row[e].verified), row'[e].verified
                   PROVE  ChannelOf(e)' \in proved
        OBVIOUS
      <4>1. row'[e] = Upserted(row[e], body[r], path[r] = "proof")
        BY <1>1, <2>1, <3>1, <3>3 DEF Upsert, Inv, TypeOK
      <4>2. path[r] = "proof"
        <5> SUFFICES ASSUME path[r] # "proof" PROVE FALSE
          OBVIOUS
        <5>1. (path[r] = "proof" \/ (row[e] # NoRow /\ row[e].verified)) = FALSE
          OBVIOUS
        <5>2. row'[e] = [app |-> body[r].app, user |-> body[r].user, verified |-> FALSE]
          BY <4>1, <5>1, Zenon DEF Upserted
        <5> QED BY <5>2
      <4>3. ChannelOf(e)' = Channel(body[r])
        BY <3>3, <4>1 DEF ChannelOf, Channel, Upserted
      <4> QED BY <1>1, <2>1, <3>1, <4>2, <4>3 DEF Upsert, Inv, CommitInv
    <3> QED BY <3>2, <3>3
  <2>2. ASSUME NEW f \in Endpoints, DeleteByEndpoint(f) PROVE Earned(e)
    BY <1>1, <2>2 DEF DeleteByEndpoint, Inv, TypeOK
  <2>3. CASE UNCHANGED row
    BY <2>3
  <2> QED
    BY <1>1, <2>1, <2>2, <2>3 DEF Next, Handle, Arrive, ReadApp, Verify, ReadExisting,
       Fails, CreateApp, UpdateApp, DeleteApp, SetApp
<1>2. Inv /\ [Next]_vars => [\A e \in Endpoints : Earned(e)]_vars
  BY <1>1
<1> QED BY <1>2, Invariance, PTL DEF Spec, VerificationIsEarned

-----------------------------------------------------------------------------
(* What the flag does for an app that was open before, which is why FlagIsEventuallyEnforced *)
(* waits for the open writes to drain and what holds after that.                             *)

\* A request that is to write for app a without a check.
OpenWriter(a, r) == pc[r] = "upsert" /\ path[r] = "open" /\ body[r].app = a

\* All of the app's channels are proven, those about to be written included.
Clean(a) ==
    /\ \A e \in Endpoints : row[e] # NoRow /\ row[e].app = a => ChannelOf(e) \in proved
    /\ \A r \in Requests : pc[r] = "upsert" /\ body[r].app = a => Channel(body[r]) \in proved

\* While the flag is on no request is newly let through without a check: the open writes
\* that were admitted before only become fewer (subscriptions.ts:42-47).
THEOREM OpenWritesOnlyDrain ==
    Spec => [][\A a \in Apps, r \in Requests :
                  app[a] = "strict" /\ OpenWriter(a, r)' => OpenWriter(a, r)]_vars
<1> DEFINE Drains == \A a \in Apps, r \in Requests :
                        app[a] = "strict" /\ OpenWriter(a, r)' => OpenWriter(a, r)
<1>1. ASSUME Inv, [Next]_vars, NEW a \in Apps, NEW r \in Requests,
             app[a] = "strict", OpenWriter(a, r)'
      PROVE  OpenWriter(a, r)
  <2>1. CASE UNCHANGED <<pc, path, body>>
    BY <1>1, <2>1 DEF OpenWriter
  <2>2. ASSUME NEW s \in Requests, NEW b \in Arrivals, Arrive(s, b) PROVE OpenWriter(a, r)
    BY <1>1, <2>2 DEF Arrive, Goto, Inv, TypeOK, OpenWriter
  <2>3. ASSUME NEW s \in Requests, Respond(s) PROVE OpenWriter(a, r)
    BY <1>1, <2>3, RespondKeeps DEF Inv, TypeOK, OpenWriter
  <2>4. ASSUME NEW s \in Requests, pc[s] # "idle", NEW how \in {"proof", "refresh"}, Commit(s, how)
        PROVE  OpenWriter(a, r)
    BY <1>1, <2>4, CommitKeeps DEF Inv, TypeOK, OpenWriter
  <2>5. ASSUME NEW s \in Requests, NEW label \in {"verify", "getExisting"},
               Goto(s, label), UNCHANGED <<body, path>>
        PROVE  OpenWriter(a, r)
    BY <1>1, <2>5 DEF Goto, Inv, TypeOK, OpenWriter
  <2>6. ASSUME NEW s \in Requests, ReadApp(s) PROVE OpenWriter(a, r)
    <3>1. ASSUME ~NeedsSignature(body[s]), Commit(s, "open") PROVE OpenWriter(a, r)
      <4>1. pc[s] # "idle"
        BY <2>6 DEF ReadApp
      <4>2. r # s
        BY <1>1, <3>1, <4>1, CommitKeeps DEF OpenWriter, NeedsSignature
      <4> QED BY <1>1, <3>1, <4>1, <4>2, CommitKeeps DEF Inv, TypeOK, OpenWriter
    <3> QED BY <2>3, <2>5, <2>6, <3>1 DEF ReadApp
  <2>7. ASSUME NEW s \in Requests, Verify(s) \/ ReadExisting(s) PROVE OpenWriter(a, r)
    BY <2>3, <2>4, <2>7 DEF Verify, ReadExisting
  <2>8. ASSUME NEW s \in Requests, Upsert(s) \/ Fails(s) PROVE OpenWriter(a, r)
    BY <2>3, <2>8 DEF Upsert, Fails
  <2>9. ASSUME NEW e \in Endpoints, DeleteByEndpoint(e) PROVE OpenWriter(a, r)
    BY <2>1, <2>9 DEF DeleteByEndpoint
  <2>10. ASSUME NEW c \in Apps,
                CreateApp(c) \/ (\E status \in {"open", "strict"} : UpdateApp(c, status)) \/ DeleteApp(c)
         PROVE  OpenWriter(a, r)
    BY <2>1, <2>10 DEF CreateApp, UpdateApp, DeleteApp, SetApp
  <2> QED BY <1>1, <2>1, <2>2, <2>6, <2>7, <2>8, <2>9, <2>10 DEF Next, Handle, vars
<1>2. Inv /\ [Next]_vars => [Drains]_vars
  BY <1>1
<1> QED BY <1>2, Invariance, PTL DEF Spec

\* A step after which no channel is about to be written that was not before, and no row
\* of the table has changed but for deletions, keeps an app clean.
LEMMA CleanKept ==
  ASSUME NEW a \in Apps, Clean(a), proved \subseteq proved',
         \A e \in Endpoints : row'[e] = row[e] \/ row'[e] = NoRow,
         \A r \in Requests : pc'[r] = "upsert" /\ body'[r].app = a =>
                                \/ pc[r] = "upsert" /\ body'[r] = body[r]
                                \/ Channel(body'[r]) \in proved'
  PROVE  Clean(a)'
<1>1. \A e \in Endpoints : row'[e] # NoRow /\ row'[e].app = a => ChannelOf(e)' \in proved'
  BY DEF Clean, ChannelOf
<1>2. \A r \in Requests : pc'[r] = "upsert" /\ body'[r].app = a => Channel(body'[r]) \in proved'
  BY DEF Clean, Channel
<1> QED BY <1>1, <1>2 DEF Clean, Channel

\* A handler that responds, and writes nothing, keeps it.
LEMMA CleanRespond ==
  ASSUME Inv, NEW a \in Apps, Clean(a), NEW s \in Requests, Respond(s), row' = row,
         proved \subseteq proved'
  PROVE  Clean(a)'
<1>1. \A r \in Requests : pc'[r] = "upsert" => pc[r] = "upsert" /\ body'[r] = body[r]
  BY RespondKeeps DEF Inv, TypeOK
<1> QED BY <1>1, CleanKept

\* A handler that commits to writing a proven channel, or one of another app, keeps it.
LEMMA CleanCommit ==
  ASSUME Inv, NEW a \in Apps, Clean(a), NEW s \in Requests, pc[s] # "idle",
         NEW how \in {"open", "proof", "refresh"}, Commit(s, how), row' = row,
         proved \subseteq proved', body[s].app = a => Channel(body[s]) \in proved'
  PROVE  Clean(a)'
<1>1. ASSUME NEW r \in Requests, pc'[r] = "upsert", body'[r].app = a
      PROVE  (pc[r] = "upsert" /\ body'[r] = body[r]) \/ Channel(body'[r]) \in proved'
  <2>1. CASE r = s
    BY <1>1, <2>1, CommitKeeps
  <2>2. CASE r # s
    BY <1>1, <2>2, CommitKeeps DEF Inv, TypeOK
  <2> QED BY <2>1, <2>2
<1> QED BY <1>1, CleanKept

\* An app whose channels are all proven, those under way included, has proven channels
\* only for as long as its flag stays on, also when it took unproven ones before: nothing
\* but the rows that are there has to be looked at (subscriptions.ts:42-87).
THEOREM CleanAppsStayClean ==
    Spec => [][\A a \in Apps : app[a] = "strict" /\ Clean(a) => Clean(a)']_vars
<1> DEFINE Stays == \A a \in Apps : app[a] = "strict" /\ Clean(a) => Clean(a)'
<1>1. ASSUME Inv, [Next]_vars, NEW a \in Apps, app[a] = "strict", Clean(a)
      PROVE  Clean(a)'
  <2>1. ASSUME UNCHANGED <<row, pc, body, proved>> PROVE Clean(a)'
    BY <1>1, <2>1, CleanKept
  <2>2. ASSUME NEW s \in Requests, NEW b \in Arrivals, Arrive(s, b) PROVE Clean(a)'
    <3>1. \A r \in Requests : pc'[r] = "upsert" => pc[r] = "upsert" /\ body'[r] = body[r]
      BY <1>1, <2>2 DEF Arrive, Goto, Inv, TypeOK
    <3> QED BY <1>1, <2>2, <3>1, CleanKept DEF Arrive
  <2>3. ASSUME NEW s \in Requests, Respond(s), row' = row, proved' = proved PROVE Clean(a)'
    BY <1>1, <2>3, CleanRespond
  <2>4. ASSUME NEW s \in Requests, ReadApp(s) PROVE Clean(a)'
    <3>1. pc[s] = "getApp" /\ row' = row /\ proved' = proved
      BY <2>4 DEF ReadApp
    <3>2. CASE ~NeedsSignature(body[s]) /\ Commit(s, "open")
      <4>1. body[s].app # a
        BY <1>1, <3>2 DEF NeedsSignature
      <4> QED BY <1>1, <3>1, <3>2, <4>1, CleanCommit
    <3>3. CASE Respond(s)
      BY <2>3, <3>1, <3>3
    <3>4. CASE (Goto(s, "verify") \/ Goto(s, "getExisting")) /\ UNCHANGED <<body, path>>
      <4>1. \A r \in Requests : pc'[r] = "upsert" => pc[r] = "upsert" /\ body'[r] = body[r]
        BY <1>1, <3>4 DEF Goto, Inv, TypeOK
      <4> QED BY <1>1, <3>1, <4>1, CleanKept
    <3> QED BY <2>4, <3>2, <3>3, <3>4 DEF ReadApp
  <2>5. ASSUME NEW s \in Requests, Verify(s) PROVE Clean(a)'
    <3>1. pc[s] = "verify" /\ row' = row
      BY <2>5 DEF Verify
    <3>2. CASE Bound(body[s]) /\ Commit(s, "proof") /\ proved' = proved \cup {body[s].proof}
      BY <1>1, <3>1, <3>2, CleanCommit DEF Bound
    <3>3. CASE Respond(s) /\ UNCHANGED proved
      BY <2>3, <3>1, <3>3
    <3> QED BY <2>5, <3>2, <3>3 DEF Verify
  <2>6. ASSUME NEW s \in Requests, ReadExisting(s) PROVE Clean(a)'
    <3> DEFINE b == body[s]
    <3>1. /\ pc[s] = "getExisting" /\ row' = row /\ proved' = proved
          /\ b \in Bodies /\ b.endpoint \in Endpoints
      BY <1>1, <2>6 DEF ReadExisting, Inv, TypeOK, Bodies
    <3>2. CASE MayRefresh(b, row[b.endpoint]) /\ Commit(s, "refresh")
      <4>1. Channel(b) = ChannelOf(b.endpoint) /\ row[b.endpoint] # NoRow /\ row[b.endpoint].app = b.app
        BY <3>2 DEF MayRefresh, Channel, ChannelOf
      <4>2. b.app = a => Channel(b) \in proved'
        BY <1>1, <3>1, <4>1 DEF Clean
      <4> QED BY <1>1, <3>1, <3>2, <4>2, CleanCommit
    <3>3. CASE Respond(s)
      BY <2>3, <3>1, <3>3
    <3> QED BY <2>6, <3>2, <3>3 DEF ReadExisting
  <2>7. ASSUME NEW s \in Requests, Upsert(s) PROVE Clean(a)'
    <3>0. PICK e \in Endpoints : e = body[s].endpoint
      BY <1>1, <2>7 DEF Upsert, Inv, TypeOK, Bodies
    <3>1. /\ pc[s] = "upsert" /\ Respond(s) /\ proved' = proved
          /\ body[s] \in Bodies
          /\ row' = [row EXCEPT ![e] = Upserted(@, body[s], path[s] = "proof")]
      BY <1>1, <2>7, <3>0 DEF Upsert, Inv, TypeOK, Bodies
    <3>2. \A r \in Requests : pc'[r] = "upsert" => pc[r] = "upsert" /\ body'[r] = body[r]
      BY <1>1, <3>1, RespondKeeps DEF Inv, TypeOK
    <3>3. row'[e].app = body[s].app /\ row'[e].user = body[s].user
      BY <1>1, <3>1 DEF Upserted, Inv, TypeOK
    <3>4. body[s].app = a => ChannelOf(e)' \in proved'
      <4>1. ChannelOf(e)' = Channel(body[s])
        BY <3>0, <3>3 DEF ChannelOf, Channel
      <4> QED BY <1>1, <3>1, <4>1 DEF Clean
    <3>5. \A x \in Endpoints : x # e => row'[x] = row[x]
      BY <1>1, <3>1 DEF Inv, TypeOK
    <3>6. \A x \in Endpoints : row'[x] # NoRow /\ row'[x].app = a => ChannelOf(x)' \in proved'
      <4> SUFFICES ASSUME NEW x \in Endpoints, row'[x] # NoRow, row'[x].app = a
                   PROVE  ChannelOf(x)' \in proved'
        OBVIOUS
      <4>1. CASE x = e
        BY <3>3, <3>4, <4>1
      <4>2. CASE x # e
        BY <1>1, <3>1, <3>5, <4>2 DEF Clean, ChannelOf
      <4> QED BY <4>1, <4>2
    <3>7. \A r \in Requests : pc'[r] = "upsert" /\ body'[r].app = a => Channel(body'[r]) \in proved'
      BY <1>1, <3>1, <3>2 DEF Clean
    <3> QED BY <3>6, <3>7 DEF Clean, Channel
  <2>8. ASSUME NEW s \in Requests, Fails(s) PROVE Clean(a)'
    BY <2>3, <2>8 DEF Fails
  <2>9. ASSUME NEW e \in Endpoints, DeleteByEndpoint(e) PROVE Clean(a)'
    <3>1. \A x \in Endpoints : row'[x] = row[x] \/ row'[x] = NoRow
      BY <1>1, <2>9 DEF DeleteByEndpoint, Inv, TypeOK
    <3> QED BY <1>1, <2>9, <3>1, CleanKept DEF DeleteByEndpoint
  <2>10. ASSUME NEW c \in Apps,
                CreateApp(c) \/ (\E status \in {"open", "strict"} : UpdateApp(c, status)) \/ DeleteApp(c)
         PROVE  Clean(a)'
    BY <2>1, <2>10 DEF CreateApp, UpdateApp, DeleteApp, SetApp
  <2> QED BY <1>1, <2>1, <2>2, <2>4, <2>5, <2>6, <2>7, <2>8, <2>9, <2>10 DEF Next, Handle, vars
<1>2. Inv /\ [Next]_vars => [Stays]_vars
  BY <1>1
<1> QED BY <1>2, Invariance, PTL DEF Spec
=============================================================================
