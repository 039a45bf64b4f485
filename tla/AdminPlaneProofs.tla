--------------------------- MODULE AdminPlaneProofs ---------------------------
(***************************************************************************)
(* Proofs about AdminPlane for any apps, keys, wallets, requests and       *)
(* operations: type correctness, that every answer was true at some moment *)
(* of its request, that only administrators change anything, that new apps *)
(* start closed, and what the schema guarantees about keys and origins.    *)
(*                                                                         *)
(* The invariant has two parts.  ReqInv says of one request what its       *)
(* program counter tells about what it saw; it does not mention the        *)
(* tables, so a step of another request, which only adds to what this one  *)
(* saw, keeps it.  TableInv relates the tables to the answers given.       *)
(*                                                                         *)
(* The last part is about DashboardSession, the browser's side.            *)
(***************************************************************************)
EXTENDS AdminPlane, DashboardSession, TLAPS

AllFacts == {"admin", "stranger", "there", "absent", "effect"}

\* The places at which a handler was let in by requireAdmin.
Inside == {"handler", "insert", "update", "reread"}

KindInv(r) ==
    /\ pc[r] = "waiting" <=> op[r] = NoOp
    /\ pc[r] \in Inside \cup {"requireAdmin"} => ByAdmin(op[r])
    /\ pc[r] = "insert" => op[r].kind \in {"create", "mint", "allow"}
    /\ pc[r] \in {"update", "reread"} => op[r].kind = "patch"
    /\ pc[r] \in {"keyAuth", "touch"} => op[r].kind = "send"
    /\ pc[r] \in {"preflight", "originCheck"} => op[r].kind = "browse"
    /\ pc[r] # "done" => answer[r] = "none"

SawInv(r) ==
    /\ pc[r] \in Inside => "admin" \in saw[r]
    /\ pc[r] = "update" => got[r] \in AppRows
    /\ pc[r] = "reread" => "effect" \in saw[r] \/ "absent" \in saw[r]
    /\ pc[r] = "touch" => IF got[r] = op[r].app THEN "effect" \in saw[r] ELSE "absent" \in saw[r]

AnswerIsTrue(r) ==
    /\ answer[r] = "success" => \/ "effect" \in saw[r]
                                \/ op[r].kind = "patch" /\ "absent" \in saw[r]
    /\ answer[r] = "missing" => "absent" \in saw[r]
    /\ answer[r] = "conflict" => "there" \in saw[r]
    /\ answer[r] \in {"success", "missing", "conflict"} /\ ByAdmin(op[r]) =>
          "admin" \in saw[r]
    /\ answer[r] = "forbidden" => IF ByAdmin(op[r]) THEN "stranger" \in saw[r]
                                                    ELSE "absent" \in saw[r]

ReqInv(r) == KindInv(r) /\ SawInv(r) /\ AnswerIsTrue(r)

\* A key works for an app that exists only; it does not come back with a new app
\* of the same id.
KeysHaveApps ==
    \A k \in Keys : key[k] # NoKey /\ key[k].state # "deleted" => Exists(key[k].app)

\* So does an entry of the allow-list.
OriginsHaveApps ==
    \A i \in Origins : origin[i] \in OriginRows => Exists(origin[i].app)

\* Of several requests that revoke a key one is told that it did.
OneRevokes ==
    \A r, s \in Requests :
        /\ answer[r] = "success" /\ answer[s] = "success"
        /\ op[r].kind = "revoke" /\ op[s].kind = "revoke" /\ op[r].key = op[s].key
        => r = s

\* A key that was revoked with success stays out of use.
RevokedInv ==
    \A r \in Requests : answer[r] = "success" /\ op[r].kind = "revoke" =>
        key[op[r].key] # NoKey /\ key[op[r].key].state # "active"

Inv ==
    /\ TypeOK
    /\ \A r \in Requests : ReqInv(r)
    /\ KeysHaveApps /\ OriginsHaveApps
    /\ RevokedInv /\ OneRevokes

-----------------------------------------------------------------------------
\* The fields an operation of each kind has.
LEMMA OpShape ==
    ASSUME NEW o \in AllOps
    PROVE  /\ o.kind \in {"create", "delete", "mint", "patch", "revoke", "allow", "disallow",
                          "addAdmin", "removeAdmin", "send", "browse"}
           /\ o.kind \in {"create", "delete", "mint", "patch", "allow", "send", "browse"} => o.app \in Apps
           /\ o.kind \in {"allow", "browse"} => o.site \in Sites
           /\ o.kind = "disallow" => o.origin \in Origins
           /\ o.kind = "patch" => o.patch \in Patches
           /\ o.kind \in {"revoke", "send"} => o.key \in Keys
           /\ o.kind \in {"addAdmin", "removeAdmin"} => o.wallet \in Wallets
BY DEF AllOps

\* A patch merged into a row is a row, and has what the patch names.
LEMMA MergedRow ==
    ASSUME NEW patch \in Patches, NEW current \in AppRows
    PROVE  /\ Merged(patch, current) \in AppRows
           /\ \A f \in DOMAIN patch : Merged(patch, current)[f] = patch[f]
<1>1. PICK named \in SUBSET Flags : patch \in [named -> BOOLEAN]
  BY DEF Patches
<1>2. DOMAIN patch = named /\ \A f \in named : patch[f] \in BOOLEAN
  BY <1>1
<1>3. \A f \in Flags : current[f] \in BOOLEAN
  BY DEF AppRows
<1> QED
  BY <1>2, <1>3 DEF Merged, AppRows

\* What the facts of an operation can be.
LEMMA FactsType == ASSUME NEW o PROVE Facts(o) \subseteq AllFacts
BY DEF Facts, AllFacts

\* The history of a request only grows, and of one that runs it has the facts
\* after the step.
LEMMA SawGrows ==
    ASSUME TypeOK, Watch, NEW r \in Requests
    PROVE  /\ saw[r] \subseteq saw'[r]
           /\ pc[r] # "done" /\ op'[r] # NoOp => Facts(op[r])' \subseteq saw'[r]
           /\ saw' \in [Requests -> SUBSET AllFacts]
<1>1. \A s \in Requests : saw'[s] = IF pc[s] = "done" \/ op'[s] = NoOp THEN saw[s]
                                    ELSE saw[s] \cup (Facts(op[s]))'
  BY Zenon DEF Watch
<1>2. DOMAIN saw' = Requests /\ saw' = [s \in Requests |-> saw'[s]]
  BY Zenon DEF Watch
<1>3. \A s \in Requests : (Facts(op[s]))' \subseteq AllFacts
  BY DEF Facts, AllFacts
<1>4. \A s \in Requests : saw[s] \subseteq AllFacts
  BY DEF TypeOK, AllFacts
<1>5. \A s \in Requests : saw'[s] \in SUBSET AllFacts
  BY <1>1, <1>3, <1>4
<1>6. saw' \in [Requests -> SUBSET AllFacts]
  BY <1>2, <1>5
<1> QED
  BY <1>1, <1>6

-----------------------------------------------------------------------------
(* How a handler moves *)

Labels == {"waiting", "requireAdmin", "handler", "insert", "update", "reread",
           "keyAuth", "touch", "preflight", "originCheck", "done"}

\* A response ends a handler and says what it answers.
LEMMA RespondShape ==
    ASSUME TypeOK, NEW r \in Requests, NEW a \in Answers, Respond(r, a)
    PROVE  /\ pc' \in [Requests -> Labels]
           /\ answer' \in [Requests -> Answers]
           /\ got' \in [Requests -> AppRows \cup Apps \cup {Nothing}]
           /\ pc'[r] = "done" /\ answer'[r] = a
           /\ \A s \in Requests \ {r} :
                 pc'[s] = pc[s] /\ got'[s] = got[s] /\ answer'[s] = answer[s]
BY DEF Respond, TypeOK, Labels

\* So does a last database call, or its failure.
LEMMA FinishShape ==
    ASSUME TypeOK, NEW r \in Requests, NEW a \in Answers, Finish(r, a)
    PROVE  /\ pc' \in [Requests -> Labels]
           /\ answer' \in [Requests -> Answers]
           /\ got' \in [Requests -> AppRows \cup Apps \cup {Nothing}]
           /\ pc'[r] = "done" /\ answer'[r] \in {a, "error"}
           /\ \A s \in Requests \ {r} :
                 pc'[s] = pc[s] /\ got'[s] = got[s] /\ answer'[s] = answer[s]
<1>1. PICK b \in {a, "error"} : Respond(r, b)
  BY DEF Finish
<1>2. b \in Answers
  BY DEF Answers
<1> QED
  BY <1>1, <1>2, RespondShape

\* A step to another place leaves the answers alone.
LEMMA GotoShape ==
    ASSUME TypeOK, NEW r \in Requests, NEW label \in Labels, Goto(r, label)
    PROVE  /\ pc' \in [Requests -> Labels]
           /\ pc'[r] = label
           /\ answer' = answer
           /\ \A s \in Requests \ {r} : pc'[s] = pc[s]
BY DEF Goto, TypeOK, Labels

\* What a step of one request does to the tables and to its own state, case by case.
Moves(r) ==
    /\ app' \in [Apps -> AppRows \cup {NoApp}]
    /\ key' \in [Keys -> KeyRows \cup {NoKey}]
    /\ origin' \in [Origins -> OriginRows \cup {NoOrigin, GoneOrigin}]
    /\ admins' \subseteq Wallets
    /\ op' \in [Requests -> Ops \cup {NoOp}]
    /\ pc' \in [Requests -> Labels]
    /\ got' \in [Requests -> AppRows \cup Apps \cup {Nothing}]
    /\ answer' \in [Requests -> Answers]
    /\ \A s \in Requests \ {r} :
          pc'[s] = pc[s] /\ op'[s] = op[s] /\ got'[s] = got[s] /\ answer'[s] = answer[s]

\* An arriving request moves as every other.
LEMMA ArriveMoves ==
    ASSUME TypeOK, NEW r \in Requests, NEW o \in Ops, Arrive(r, o)
    PROVE  Moves(r)
<1>1. PICK label \in Labels : label = Entry(o)
  BY DEF Labels, Entry
<1>2. Goto(r, label) /\ UNCHANGED got
  BY <1>1 DEF Arrive, Proceed
<1> QED
  BY <1>2, GotoShape DEF Arrive, TypeOK, Moves, tables

\* A step of a handler keeps the types and touches its own request only.
LEMMA StepMoves ==
    ASSUME Inv, NEW r \in Requests, Step(r)
    PROVE  Moves(r)
<1> USE OpsAssumption
<1>t. TypeOK /\ ReqInv(r)
  BY DEF Inv
<1>o. pc[r] # "waiting" => op[r] \in Ops /\ op[r] \in AllOps
  BY <1>t DEF TypeOK, ReqInv, KindInv
<1>a. \A x \in {"success", "forbidden", "missing", "conflict", "error"} : x \in Answers
  BY DEF Answers
<1>l. \A x \in {"handler", "insert", "update", "reread", "touch", "originCheck"} : x \in Labels
  BY DEF Labels
<1>f. [f \in Flags |-> FALSE] \in AppRows
  BY DEF AppRows
<1>1. CASE RequireAdmin(r)
  BY <1>1, <1>t, <1>a, <1>l, RespondShape, GotoShape DEF RequireAdmin, Proceed, TypeOK, Moves, tables
<1>2. CASE Fails(r)
  BY <1>2, <1>t, <1>a, RespondShape DEF Fails, TypeOK, Moves, tables
<1>3. CASE CreateLooks(r)
  BY <1>3, <1>t, <1>a, <1>l, RespondShape, GotoShape DEF CreateLooks, Proceed, TypeOK, Moves, tables
<1>4. CASE CreateInserts(r)
  <2>1. app' \in [Apps -> AppRows \cup {NoApp}]
    BY <1>4, <1>t, <1>f DEF CreateInserts, TypeOK
  <2> QED
    BY <2>1, <1>4, <1>t, <1>a, RespondShape, FinishShape DEF CreateInserts, TypeOK, Moves
<1>5. CASE PatchReads(r)
  <2>1. CASE Respond(r, "missing")
    BY <2>1, <1>5, <1>t, <1>a, RespondShape DEF PatchReads, TypeOK, Moves, tables
  <2>2. CASE ~Respond(r, "missing")
    <3>1. app[op[r].app] \in AppRows
      BY <2>2, <1>5, <1>t, <1>o, OpShape DEF PatchReads, TypeOK, Exists
    <3> QED
      BY <3>1, <2>2, <1>5, <1>t, <1>l, GotoShape DEF PatchReads, TypeOK, Moves, tables
  <2> QED
    BY <2>1, <2>2
<1>6. CASE PatchWrites(r)
  <2>1. op[r].app \in Apps /\ op[r].patch \in Patches /\ got[r] \in AppRows
    BY <1>6, <1>t, <1>o, OpShape DEF PatchWrites, ReqInv, KindInv, SawInv
  <2>2. Merged(op[r].patch, got[r]) \in AppRows
    BY <2>1, MergedRow
  <2>3. app' \in [Apps -> AppRows \cup {NoApp}]
    BY <2>2, <1>6, <1>t DEF PatchWrites, TypeOK
  <2> QED
    BY <2>3, <1>6, <1>t, <1>l, GotoShape DEF PatchWrites, Proceed, TypeOK, Moves
<1>7. CASE PatchRereads(r)
  <2>1. PICK a \in Answers : a = IF Exists(op[r].app) THEN "success" ELSE "missing"
    BY DEF Answers
  <2>2. Respond(r, a)
    BY <2>1, <1>7 DEF PatchRereads
  <2> QED
    BY <2>2, <1>7, <1>t, RespondShape DEF PatchRereads, TypeOK, Moves, tables
<1>8. CASE Delete(r)
  <2>1. PICK a \in Answers : a = IF Exists(op[r].app) THEN "success" ELSE "missing"
    BY DEF Answers
  <2>2. Finish(r, a)
    BY <2>1, <1>8 DEF Delete
  <2>3. op[r].app \in Apps
    BY <1>8, <1>t, <1>o, OpShape DEF Delete
  <2>4. app' \in [Apps -> AppRows \cup {NoApp}]
    BY <1>8, <1>t DEF Delete, TypeOK
  <2>5. key' \in [Keys -> KeyRows \cup {NoKey}]
    BY <2>3, <1>8, <1>t DEF Delete, TypeOK, KeysWithout, KeyRows
  <2>6. origin' \in [Origins -> OriginRows \cup {NoOrigin, GoneOrigin}]
    BY <1>8, <1>t DEF Delete, TypeOK, OriginsWithout
  <2> QED
    BY <2>2, <2>4, <2>5, <2>6, <1>8, <1>t, FinishShape DEF Delete, TypeOK, Moves
<1>9. CASE MintLooks(r)
  BY <1>9, <1>t, <1>a, <1>l, RespondShape, GotoShape DEF MintLooks, Proceed, TypeOK, Moves, tables
<1>10. CASE MintInserts(r)
  <2>1. op[r].app \in Apps
    BY <1>10, <1>t, <1>o, OpShape DEF MintInserts
  <2>2. key' \in [Keys -> KeyRows \cup {NoKey}]
    BY <2>1, <1>10, <1>t DEF MintInserts, TypeOK, KeyRows
  <2> QED
    BY <2>2, <1>10, <1>t, <1>a, RespondShape, FinishShape DEF MintInserts, TypeOK, Moves
<1>11. CASE Revoke(r)
  <2>1. op[r].key \in Keys
    BY <1>11, <1>t, <1>o, OpShape DEF Revoke
  <2>2. key' \in [Keys -> KeyRows \cup {NoKey}]
    BY <2>1, <1>11, <1>t DEF Revoke, TypeOK, KeyRows, Live
  <2> QED
    BY <2>2, <1>11, <1>t, <1>a, FinishShape DEF Revoke, TypeOK, Moves
<1>12. CASE AddAdmin(r)
  <2>1. op[r].wallet \in Wallets
    BY <1>12, <1>t, <1>o, OpShape DEF AddAdmin
  <2> QED
    BY <2>1, <1>12, <1>t, <1>a, FinishShape DEF AddAdmin, TypeOK, Moves
<1>13. CASE RemoveAdmin(r)
  <2>1. PICK a \in Answers : a = IF op[r].wallet \in admins THEN "success" ELSE "missing"
    BY DEF Answers
  <2>2. Finish(r, a)
    BY <2>1, <1>13 DEF RemoveAdmin
  <2> QED
    BY <2>2, <1>13, <1>t, FinishShape DEF RemoveAdmin, TypeOK, Moves
<1>14. CASE KeyLookup(r)
  <2>1. CASE Respond(r, "forbidden")
    BY <2>1, <1>14, <1>t, <1>a, RespondShape DEF KeyLookup, TypeOK, Moves, tables
  <2>2. CASE ~Respond(r, "forbidden")
    <3>1. op[r].key \in Keys /\ key[op[r].key].app \in Apps
      BY <2>2, <1>14, <1>t, <1>o, OpShape DEF KeyLookup, KeyIsActive, Live, TypeOK, KeyRows, ReqInv, KindInv
    <3> QED
      BY <3>1, <2>2, <1>14, <1>t, <1>l, GotoShape DEF KeyLookup, TypeOK, Moves, tables
  <2> QED
    BY <2>1, <2>2
<1>15. CASE TouchAndServe(r)
  <2>1. PICK a \in Answers : a = IF got[r] = op[r].app THEN "success" ELSE "forbidden"
    BY DEF Answers
  <2>2. Respond(r, a)
    BY <2>1, <1>15 DEF TouchAndServe
  <2> QED
    BY <2>2, <1>15, <1>t, RespondShape DEF TouchAndServe, TypeOK, Moves, tables
<1>16. CASE AllowLooks(r)
  BY <1>16, <1>t, <1>a, <1>l, RespondShape, GotoShape DEF AllowLooks, Proceed, TypeOK, Moves, tables
<1>17. CASE AllowInserts(r)
  <2>1. [app |-> op[r].app, site |-> op[r].site] \in OriginRows
    BY <1>17, <1>t, <1>o, OpShape DEF AllowInserts, OriginRows
  <2>2. origin' \in [Origins -> OriginRows \cup {NoOrigin, GoneOrigin}]
    BY <2>1, <1>17, <1>t DEF AllowInserts, TypeOK
  <2> QED
    BY <2>2, <1>17, <1>t, <1>a, RespondShape, FinishShape DEF AllowInserts, TypeOK, Moves
<1>18. CASE Disallow(r)
  <2>1. PICK a \in Answers : a = IF origin[op[r].origin] \in OriginRows THEN "success" ELSE "missing"
    BY DEF Answers
  <2>2. Finish(r, a)
    BY <2>1, <1>18 DEF Disallow
  <2>3. origin' \in [Origins -> OriginRows \cup {NoOrigin, GoneOrigin}]
    BY <1>18, <1>t DEF Disallow, TypeOK
  <2> QED
    BY <2>2, <2>3, <1>18, <1>t, FinishShape DEF Disallow, TypeOK, Moves
<1>19. CASE Preflight(r)
  BY <1>19, <1>t, <1>a, <1>l, RespondShape, GotoShape DEF Preflight, Proceed, TypeOK, Moves, tables
<1>20. CASE OriginCheck(r)
  <2>1. PICK a \in Answers : a = IF AllowedFor(op[r].app, op[r].site) THEN "success" ELSE "forbidden"
    BY DEF Answers
  <2>2. Respond(r, a)
    BY <2>1, <1>20 DEF OriginCheck
  <2> QED
    BY <2>2, <1>20, <1>t, RespondShape DEF OriginCheck, TypeOK, Moves, tables
<1> QED
  BY <1>1, <1>2, <1>3, <1>4, <1>5, <1>6, <1>7, <1>8, <1>9, <1>10, <1>11, <1>12, <1>13, <1>14, <1>15,
     <1>16, <1>17, <1>18, <1>19, <1>20
  DEF Step

-----------------------------------------------------------------------------
(* What a request saw *)

\* The facts after a step, for the request that made it.
LEMMA Sees ==
    ASSUME TypeOK, Watch, NEW r \in Requests, pc[r] # "done", op'[r] # NoOp
    PROVE  /\ Effect(op[r])' => "effect" \in saw'[r]
           /\ Target(op[r])' => "there" \in saw'[r]
           /\ ~Target(op[r])' => "absent" \in saw'[r]
           /\ ByAdmin(op'[r]) /\ IsAdmin(op[r].by)' => "admin" \in saw'[r]
           /\ ByAdmin(op'[r]) /\ ~IsAdmin(op[r].by)' => "stranger" \in saw'[r]
<1>1. Facts(op[r])' \subseteq saw'[r]
  BY SawGrows
<1> QED
  BY <1>1 DEF Facts, ByAdmin

\* ReqInv of a request survives the steps of the others.
LEMMA OthersKeepReqInv ==
    ASSUME TypeOK, Watch, NEW r \in Requests, Moves(r), NEW s \in Requests \ {r}, ReqInv(s)
    PROVE  ReqInv(s)'
<1>1. pc'[s] = pc[s] /\ op'[s] = op[s] /\ got'[s] = got[s] /\ answer'[s] = answer[s]
  BY DEF Moves
<1>2. saw[s] \subseteq saw'[s]
  BY SawGrows
<1> QED
  BY <1>1, <1>2 DEF ReqInv, KindInv, SawInv, AnswerIsTrue

\* ReqInv holds of a request that arrives.
LEMMA ArriveReqInv ==
    ASSUME TypeOK, Watch, NEW r \in Requests, ReqInv(r), NEW o \in Ops, Arrive(r, o)
    PROVE  ReqInv(r)'
<1>1. PICK label \in {"keyAuth", "preflight", "requireAdmin"} : label = Entry(o)
  BY DEF Entry
<1>2. pc[r] = "waiting" /\ pc'[r] = label /\ op'[r] = o /\ answer'[r] = answer[r]
  BY <1>1 DEF Arrive, Proceed, Goto, TypeOK
<1>3. o # NoOp
  BY OpsAssumption, NullAssumption
<1> QED
  BY <1>1, <1>2, <1>3 DEF ReqInv, KindInv, SawInv, AnswerIsTrue, Inside, Entry, ByAdmin

\* ReqInv survives the request's own steps.
LEMMA StepReqInv ==
    ASSUME Inv, Watch, NEW r \in Requests, Step(r)
    PROVE  ReqInv(r)'
<1> USE OpsAssumption
<1>t. TypeOK /\ ReqInv(r)
  BY DEF Inv
<1>w. pc[r] \notin {"waiting", "done"}
  BY DEF Step, RequireAdmin, Fails, CreateLooks, CreateInserts, PatchReads, PatchWrites, PatchRereads,
         Delete, MintLooks, MintInserts, Revoke, AllowLooks, AllowInserts, Disallow, AddAdmin, RemoveAdmin,
         KeyLookup, TouchAndServe, Preflight, OriginCheck
<1>o. op[r] # NoOp /\ op[r] \in Ops /\ op[r] \in AllOps
  BY <1>t, <1>w DEF TypeOK, ReqInv, KindInv
<1>s. op' = op /\ op'[r] = op[r]
  BY DEF Step, RequireAdmin, Fails, CreateLooks, CreateInserts, PatchReads, PatchWrites, PatchRereads,
         Delete, MintLooks, MintInserts, Revoke, AllowLooks, AllowInserts, Disallow, AddAdmin, RemoveAdmin,
         KeyLookup, TouchAndServe, Preflight, OriginCheck
<1>g. saw[r] \subseteq saw'[r]
  BY <1>t, SawGrows
<1>e. /\ Effect(op[r])' => "effect" \in saw'[r]
      /\ Target(op[r])' => "there" \in saw'[r]
      /\ ~Target(op[r])' => "absent" \in saw'[r]
      /\ ByAdmin(op[r]) /\ IsAdmin(op[r].by)' => "admin" \in saw'[r]
      /\ ByAdmin(op[r]) /\ ~IsAdmin(op[r].by)' => "stranger" \in saw'[r]
  BY <1>t, <1>w, <1>o, <1>s, Sees
<1>a. \A x \in {"success", "forbidden", "missing", "conflict", "error"} : x \in Answers
  BY DEF Answers
<1>l. \A x \in {"handler", "insert", "update", "reread", "touch", "originCheck"} : x \in Labels
  BY DEF Labels
<1>k. KindInv(r) /\ SawInv(r)
  BY <1>t DEF ReqInv
<1> DEFINE Ends(a) == pc'[r] = "done" /\ answer'[r] \in {a, "error"}
<1>d. ASSUME NEW a \in Answers, Respond(r, a) \/ Finish(r, a)
      PROVE  Ends(a)
  BY <1>d, <1>t, RespondShape, FinishShape
<1>p. ASSUME NEW x \in Labels, Goto(r, x)
      PROVE  pc'[r] = x /\ answer'[r] = "none"
  BY <1>p, <1>t, <1>w, <1>k, GotoShape DEF KindInv
<1> HIDE DEF Ends
<1>h. ASSUME NEW a \in Answers, Ends(a),
             a = "success" => "effect" \in saw'[r] \/ (op[r].kind = "patch" /\ "absent" \in saw'[r]),
             a = "missing" => "absent" \in saw'[r],
             a = "conflict" => "there" \in saw'[r],
             a \in {"success", "missing", "conflict"} /\ ByAdmin(op[r]) => "admin" \in saw'[r],
             a = "forbidden" => IF ByAdmin(op[r]) THEN "stranger" \in saw'[r] ELSE "absent" \in saw'[r]
      PROVE  ReqInv(r)'
  BY <1>h, <1>o, <1>s DEF Ends, ReqInv, KindInv, SawInv, AnswerIsTrue, Inside, ByAdmin
<1>1. CASE RequireAdmin(r)
  <2>0. ByAdmin(op[r]) /\ (IsAdmin(op[r].by))' = IsAdmin(op[r].by)
    BY <1>1, <1>k, <1>s DEF RequireAdmin, KindInv, IsAdmin, tables
  <2>1. CASE IsAdmin(op[r].by) /\ Proceed(r, "handler")
    <3>1. pc'[r] = "handler" /\ answer'[r] = "none"
      BY <2>1, <1>p, <1>l DEF Proceed
    <3>2. "admin" \in saw'[r]
      BY <2>0, <2>1, <1>e
    <3> QED
      BY <3>1, <3>2, <2>0, <1>o, <1>s DEF ReqInv, KindInv, SawInv, AnswerIsTrue, Inside, ByAdmin
  <2>2. CASE ~IsAdmin(op[r].by) /\ Respond(r, "forbidden")
    <3>1. Ends("forbidden")
      BY <2>2, <1>d, <1>a
    <3>2. "stranger" \in saw'[r]
      BY <2>0, <2>2, <1>e
    <3> QED
      BY <3>1, <3>2, <2>0, <1>h, <1>a
  <2> QED
    BY <1>1, <2>1, <2>2 DEF RequireAdmin
<1>2. CASE Fails(r)
  <2>1. Ends("error")
    BY <1>2, <1>d, <1>a DEF Fails
  <2> QED
    BY <2>1, <1>h, <1>a
<1>in. ASSUME pc[r] \in Inside PROVE ByAdmin(op[r]) /\ "admin" \in saw'[r]
  BY <1>in, <1>k, <1>g DEF KindInv, SawInv
<1>3. CASE CreateLooks(r)
  <2>0. "admin" \in saw'[r] /\ op[r].kind = "create"
    BY <1>3, <1>in DEF CreateLooks, Inside
  <2>1. CASE Exists(op[r].app) /\ Respond(r, "conflict")
    <3>1. Ends("conflict")
      BY <2>1, <1>d, <1>a
    <3>2. Target(op[r])'
      BY <2>0, <2>1, <1>3, <1>s DEF CreateLooks, Target, Exists, tables
    <3> QED
      BY <3>1, <3>2, <2>0, <1>e, <1>h, <1>a
  <2>2. CASE Proceed(r, "insert")
    <3>1. pc'[r] = "insert" /\ answer'[r] = "none"
      BY <2>2, <1>p, <1>l DEF Proceed
    <3> QED
      BY <3>1, <2>0, <1>o, <1>s DEF ReqInv, KindInv, SawInv, AnswerIsTrue, Inside, ByAdmin
  <2> QED
    BY <1>3, <2>1, <2>2 DEF CreateLooks
<1>4. CASE CreateInserts(r)
  <2>0. "admin" \in saw'[r] /\ op[r].kind = "create" /\ op[r].app \in Apps
    BY <1>4, <1>in, <1>o, OpShape DEF CreateInserts, Inside
  <2>1. CASE Respond(r, "error")
    BY <2>1, <1>d, <1>h, <1>a
  <2>2. CASE app' = [app EXCEPT ![op[r].app] = [f \in Flags |-> FALSE]] /\ Finish(r, "success")
    <3>1. Ends("success")
      BY <2>2, <1>d, <1>a
    <3>2. app'[op[r].app] = [f \in Flags |-> FALSE]
      BY <2>2, <2>0, <1>t DEF TypeOK
    <3>3. [f \in Flags |-> FALSE] # NoApp
      BY NullAssumption DEF AppRows
    <3>4. Effect(op[r])'
      BY <3>2, <3>3, <2>0, <1>s DEF Effect, Target, Exists
    <3> QED
      BY <3>1, <3>4, <2>0, <1>e, <1>h, <1>a
  <2> QED
    BY <1>4, <2>1, <2>2 DEF CreateInserts
<1>5. CASE PatchReads(r)
  <2>0. "admin" \in saw'[r] /\ op[r].kind = "patch" /\ op[r].app \in Apps
    BY <1>5, <1>in, <1>o, OpShape DEF PatchReads, Inside
  <2>1. CASE ~Exists(op[r].app) /\ Respond(r, "missing")
    <3>1. Ends("missing")
      BY <2>1, <1>d, <1>a
    <3>2. ~Target(op[r])'
      BY <2>0, <2>1, <1>5, <1>s DEF PatchReads, Target, Exists, tables
    <3> QED
      BY <3>1, <3>2, <2>0, <1>e, <1>h, <1>a
  <2>2. CASE Exists(op[r].app) /\ Goto(r, "update") /\ got' = [got EXCEPT ![r] = app[op[r].app]]
    <3>1. pc'[r] = "update" /\ answer'[r] = "none"
      BY <2>2, <1>p, <1>l
    <3>2. got'[r] \in AppRows
      BY <2>2, <2>0, <1>t DEF TypeOK, Exists
    <3> QED
      BY <3>1, <3>2, <2>0, <1>o, <1>s DEF ReqInv, KindInv, SawInv, AnswerIsTrue, Inside, ByAdmin
  <2> QED
    BY <1>5, <2>1, <2>2 DEF PatchReads
<1>6. CASE PatchWrites(r)
  <2>0. "admin" \in saw'[r] /\ op[r].kind = "patch" /\ op[r].app \in Apps /\ op[r].patch \in Patches
    BY <1>6, <1>in, <1>o, <1>k, OpShape DEF PatchWrites, Inside, KindInv
  <2>1. pc'[r] = "reread" /\ answer'[r] = "none"
    BY <1>6, <1>p, <1>l DEF PatchWrites, Proceed
  <2>2. CASE Exists(op[r].app)
    <3>1. got[r] \in AppRows
      BY <1>6, <1>k DEF PatchWrites, SawInv
    <3>2. app'[op[r].app] = Merged(op[r].patch, got[r])
      BY <2>2, <2>0, <1>6, <1>t DEF PatchWrites, TypeOK
    <3>3. /\ app'[op[r].app] \in AppRows
          /\ \A f \in DOMAIN op[r].patch : app'[op[r].app][f] = op[r].patch[f]
      BY <3>1, <3>2, <2>0, MergedRow
    <3>4. Effect(op[r])'
      BY <3>3, <2>0, <1>s, NullAssumption DEF Effect, Exists
    <3> QED
      BY <3>4, <2>0, <2>1, <1>e, <1>o, <1>s DEF ReqInv, KindInv, SawInv, AnswerIsTrue, Inside, ByAdmin
  <2>3. CASE ~Exists(op[r].app)
    <3>1. ~Target(op[r])'
      BY <2>3, <2>0, <1>6, <1>s DEF PatchWrites, Target, Exists
    <3> QED
      BY <3>1, <2>0, <2>1, <1>e, <1>o, <1>s DEF ReqInv, KindInv, SawInv, AnswerIsTrue, Inside, ByAdmin
  <2> QED
    BY <2>2, <2>3
<1>7. CASE PatchRereads(r)
  <2>0. "admin" \in saw'[r] /\ op[r].kind = "patch"
    BY <1>7, <1>in, <1>k DEF PatchRereads, Inside, KindInv
  <2>1. CASE Exists(op[r].app)
    <3>1. Ends("success")
      BY <2>1, <1>7, <1>d, <1>a DEF PatchRereads
    <3>2. "effect" \in saw'[r] \/ "absent" \in saw'[r]
      BY <1>7, <1>k, <1>g DEF PatchRereads, SawInv
    <3> QED
      BY <3>1, <3>2, <2>0, <1>h, <1>a
  <2>2. CASE ~Exists(op[r].app)
    <3>1. Ends("missing")
      BY <2>2, <1>7, <1>d, <1>a DEF PatchRereads
    <3>2. ~Target(op[r])'
      BY <2>2, <2>0, <1>7, <1>s DEF PatchRereads, Target, Exists, tables
    <3> QED
      BY <3>1, <3>2, <2>0, <1>e, <1>h, <1>a
  <2> QED
    BY <2>1, <2>2
<1>8. CASE Delete(r)
  <2>0. "admin" \in saw'[r] /\ op[r].kind = "delete" /\ op[r].app \in Apps
    BY <1>8, <1>in, <1>o, OpShape DEF Delete, Inside
  <2>1. app'[op[r].app] = NoApp
    BY <2>0, <1>8, <1>t DEF Delete, TypeOK
  <2>2. ~Target(op[r])' /\ Effect(op[r])'
    BY <2>0, <2>1, <1>s DEF Target, Effect, Exists
  <2>3. Ends("success") \/ Ends("missing")
    BY <1>8, <1>d, <1>a DEF Delete
  <2> QED
    BY <2>0, <2>2, <2>3, <1>e, <1>h, <1>a
<1>9. CASE MintLooks(r)
  <2>0. "admin" \in saw'[r] /\ op[r].kind = "mint"
    BY <1>9, <1>in DEF MintLooks, Inside
  <2>1. CASE ~Exists(op[r].app) /\ Respond(r, "missing")
    <3>1. Ends("missing")
      BY <2>1, <1>d, <1>a
    <3>2. ~Target(op[r])'
      BY <2>0, <2>1, <1>9, <1>s DEF MintLooks, Target, Exists, tables
    <3> QED
      BY <3>1, <3>2, <2>0, <1>e, <1>h, <1>a
  <2>2. CASE Proceed(r, "insert")
    <3>1. pc'[r] = "insert" /\ answer'[r] = "none"
      BY <2>2, <1>p, <1>l DEF Proceed
    <3> QED
      BY <3>1, <2>0, <1>o, <1>s DEF ReqInv, KindInv, SawInv, AnswerIsTrue, Inside, ByAdmin
  <2> QED
    BY <1>9, <2>1, <2>2 DEF MintLooks
<1>10. CASE MintInserts(r)
  <2>0. "admin" \in saw'[r] /\ op[r].kind = "mint" /\ op[r].app \in Apps
    BY <1>10, <1>in, <1>o, OpShape DEF MintInserts, Inside
  <2>1. CASE Respond(r, "error")
    BY <2>1, <1>d, <1>h, <1>a
  <2>2. CASE ~Respond(r, "error")
    <3>1. PICK k \in Keys : key' = [key EXCEPT ![k] = [app |-> op[r].app, state |-> "active"]]
      BY <2>2, <1>10 DEF MintInserts
    <3>2. key'[k] = [app |-> op[r].app, state |-> "active"]
      BY <3>1, <1>t DEF TypeOK
    <3>3. key'[k] # NoKey /\ key'[k].app = op[r].app /\ key'[k].state = "active"
      BY <3>2, <2>0, NullAssumption DEF KeyRows
    <3>4. Effect(op[r])'
      BY <3>3, <2>0, <1>s DEF Effect, Live
    <3>5. Ends("success")
      BY <2>2, <1>10, <1>d, <1>a DEF MintInserts
    <3> QED
      BY <3>4, <3>5, <2>0, <1>e, <1>h, <1>a
  <2> QED
    BY <2>1, <2>2
<1>11. CASE Revoke(r)
  <2>0. "admin" \in saw'[r] /\ op[r].kind = "revoke" /\ op[r].key \in Keys
    BY <1>11, <1>in, <1>o, OpShape DEF Revoke, Inside
  <2>1. ~Live(op[r].key)'
    BY <2>0, <1>11, <1>t, <1>s DEF Revoke, Live, TypeOK, KeyRows
  <2>2. ~Target(op[r])' /\ Effect(op[r])'
    BY <2>0, <2>1, <1>s DEF Target, Effect
  <2>3. Ends("success") \/ Ends("missing")
    BY <1>11, <1>d, <1>a DEF Revoke
  <2> QED
    BY <2>0, <2>2, <2>3, <1>e, <1>h, <1>a
<1>12. CASE AddAdmin(r)
  <2>0. "admin" \in saw'[r] /\ op[r].kind = "addAdmin"
    BY <1>12, <1>in DEF AddAdmin, Inside
  <2>1. Effect(op[r])'
    BY <2>0, <1>12, <1>s DEF AddAdmin, Effect, Target
  <2>2. Ends("success")
    BY <1>12, <1>d, <1>a DEF AddAdmin
  <2> QED
    BY <2>0, <2>1, <2>2, <1>e, <1>h, <1>a
<1>13. CASE RemoveAdmin(r)
  <2>0. "admin" \in saw'[r] /\ op[r].kind = "removeAdmin"
    BY <1>13, <1>in DEF RemoveAdmin, Inside
  <2>1. ~Target(op[r])' /\ Effect(op[r])'
    BY <2>0, <1>13, <1>s DEF RemoveAdmin, Effect, Target
  <2>2. Ends("success") \/ Ends("missing")
    BY <1>13, <1>d, <1>a DEF RemoveAdmin
  <2> QED
    BY <2>0, <2>1, <2>2, <1>e, <1>h, <1>a
<1>14. CASE KeyLookup(r)
  <2>0. op[r].kind = "send"
    BY <1>14, <1>k DEF KeyLookup, KindInv
  <2>1. CASE ~KeyIsActive(op[r].key) /\ Respond(r, "forbidden")
    <3>1. Ends("forbidden")
      BY <2>1, <1>d, <1>a
    <3>2. ~Target(op[r])'
      BY <2>0, <2>1, <1>14, <1>s DEF KeyLookup, KeyIsActive, Target, Exists, Live, tables
    <3> QED
      BY <3>1, <3>2, <2>0, <1>e, <1>h, <1>a DEF ByAdmin
  <2>2. CASE KeyIsActive(op[r].key) /\ Goto(r, "touch") /\ got' = [got EXCEPT ![r] = key[op[r].key].app]
    <3>1. pc'[r] = "touch" /\ answer'[r] = "none"
      BY <2>2, <1>p, <1>l
    <3>2. got'[r] = key[op[r].key].app
      BY <2>2, <1>t DEF TypeOK
    <3>3. IF got'[r] = op[r].app THEN Effect(op[r])' ELSE ~Target(op[r])'
      BY <3>2, <2>0, <2>2, <1>14, <1>s DEF KeyLookup, KeyIsActive, Effect, Target, Exists, Live, tables
    <3> QED
      BY <3>1, <3>3, <2>0, <1>e, <1>o, <1>s DEF ReqInv, KindInv, SawInv, AnswerIsTrue, Inside, ByAdmin
  <2> QED
    BY <1>14, <2>1, <2>2 DEF KeyLookup
<1>15. CASE TouchAndServe(r)
  <2>0. op[r].kind = "send"
    BY <1>15, <1>k DEF TouchAndServe, KindInv
  <2>1. CASE got[r] = op[r].app
    <3>1. Ends("success")
      BY <2>1, <1>15, <1>d, <1>a DEF TouchAndServe
    <3>2. "effect" \in saw'[r]
      BY <2>1, <1>15, <1>k, <1>g DEF TouchAndServe, SawInv
    <3> QED
      BY <3>1, <3>2, <2>0, <1>h, <1>a DEF ByAdmin
  <2>2. CASE got[r] # op[r].app
    <3>1. Ends("forbidden")
      BY <2>2, <1>15, <1>d, <1>a DEF TouchAndServe
    <3>2. "absent" \in saw'[r]
      BY <2>2, <1>15, <1>k, <1>g DEF TouchAndServe, SawInv
    <3> QED
      BY <3>1, <3>2, <2>0, <1>h, <1>a DEF ByAdmin
  <2> QED
    BY <2>1, <2>2
<1>16. CASE AllowLooks(r)
  <2>0. "admin" \in saw'[r] /\ op[r].kind = "allow"
    BY <1>16, <1>in DEF AllowLooks, Inside
  <2>1. CASE ~Exists(op[r].app) /\ Respond(r, "missing")
    <3>1. Ends("missing")
      BY <2>1, <1>d, <1>a
    <3>2. ~Target(op[r])'
      BY <2>0, <2>1, <1>16, <1>s DEF AllowLooks, Target, Exists, tables
    <3> QED
      BY <3>1, <3>2, <2>0, <1>e, <1>h, <1>a
  <2>2. CASE Proceed(r, "insert")
    <3>1. pc'[r] = "insert" /\ answer'[r] = "none"
      BY <2>2, <1>p, <1>l DEF Proceed
    <3> QED
      BY <3>1, <2>0, <1>o, <1>s DEF ReqInv, KindInv, SawInv, AnswerIsTrue, Inside, ByAdmin
  <2> QED
    BY <1>16, <2>1, <2>2 DEF AllowLooks
<1>17. CASE AllowInserts(r)
  <2>0. "admin" \in saw'[r] /\ op[r].kind = "allow"
    BY <1>17, <1>in DEF AllowInserts, Inside
  <2>1. CASE Respond(r, "error")
    BY <2>1, <1>d, <1>h, <1>a
  <2>2. CASE ~Respond(r, "error")
    <3>1. AllowedFor(op[r].app, op[r].site)'
      <4>1. CASE AllowedFor(op[r].app, op[r].site)
        BY <4>1, <2>2, <1>17, <1>s DEF AllowInserts, AllowedFor
      <4>2. CASE ~AllowedFor(op[r].app, op[r].site)
        <5>1. PICK i \in Origins : origin' = [origin EXCEPT ![i] = [app |-> op[r].app, site |-> op[r].site]]
          BY <4>2, <2>2, <1>17 DEF AllowInserts
        <5>2. origin'[i] = [app |-> op[r].app, site |-> op[r].site]
          BY <5>1, <1>t DEF TypeOK
        <5> QED
          BY <5>2, <1>s DEF AllowedFor
      <4> QED
        BY <4>1, <4>2
    <3>2. Effect(op[r])'
      BY <3>1, <2>0, <1>s DEF Effect
    <3>3. Ends("success")
      BY <2>2, <1>17, <1>d, <1>a DEF AllowInserts
    <3> QED
      BY <3>2, <3>3, <2>0, <1>e, <1>h, <1>a
  <2> QED
    BY <2>1, <2>2
<1>18. CASE Disallow(r)
  <2>0. "admin" \in saw'[r] /\ op[r].kind = "disallow" /\ op[r].origin \in Origins
    BY <1>18, <1>in, <1>o, OpShape DEF Disallow, Inside
  <2>1. origin'[op[r].origin] \notin OriginRows
    BY <2>0, <1>18, <1>t, NullAssumption DEF Disallow, TypeOK
  <2>2. ~Target(op[r])' /\ Effect(op[r])'
    BY <2>0, <2>1, <1>s DEF Target, Effect
  <2>3. Ends("success") \/ Ends("missing")
    BY <1>18, <1>d, <1>a DEF Disallow
  <2> QED
    BY <2>0, <2>2, <2>3, <1>e, <1>h, <1>a
<1>19. CASE Preflight(r)
  <2>0. op[r].kind = "browse" /\ op[r].app \in Apps /\ op[r].site \in Sites
    BY <1>19, <1>k, <1>o, OpShape DEF Preflight, KindInv
  <2>1. CASE ~AllowedForAny(op[r].site) /\ Respond(r, "forbidden")
    <3>1. Ends("forbidden")
      BY <2>1, <1>d, <1>a
    <3>2. ~AllowedFor(op[r].app, op[r].site)
      BY <2>0, <2>1 DEF AllowedForAny, AllowedFor, OriginRows
    <3>3. ~Target(op[r])'
      BY <2>0, <3>2, <1>19, <1>s DEF Preflight, Target, AllowedFor, tables
    <3> QED
      BY <3>1, <3>3, <2>0, <1>e, <1>h, <1>a DEF ByAdmin
  <2>2. CASE Proceed(r, "originCheck")
    <3>1. pc'[r] = "originCheck" /\ answer'[r] = "none"
      BY <2>2, <1>p, <1>l DEF Proceed
    <3> QED
      BY <3>1, <2>0, <1>o, <1>s DEF ReqInv, KindInv, SawInv, AnswerIsTrue, Inside
  <2> QED
    BY <1>19, <2>1, <2>2 DEF Preflight
<1>20. CASE OriginCheck(r)
  <2>0. op[r].kind = "browse"
    BY <1>20, <1>k DEF OriginCheck, KindInv
  <2>1. Target(op[r])' = AllowedFor(op[r].app, op[r].site)
    BY <2>0, <1>20, <1>s DEF OriginCheck, Target, AllowedFor, tables
  <2>2. Effect(op[r])' = AllowedFor(op[r].app, op[r].site)
    BY <2>0, <1>20, <1>s DEF OriginCheck, Effect, Target, AllowedFor, tables
  <2>3. CASE AllowedFor(op[r].app, op[r].site)
    <3>1. Ends("success")
      BY <2>3, <1>20, <1>d, <1>a DEF OriginCheck
    <3> QED
      BY <3>1, <2>2, <2>3, <2>0, <1>e, <1>h, <1>a DEF ByAdmin
  <2>4. CASE ~AllowedFor(op[r].app, op[r].site)
    <3>1. Ends("forbidden")
      BY <2>4, <1>20, <1>d, <1>a DEF OriginCheck
    <3> QED
      BY <3>1, <2>1, <2>4, <2>0, <1>e, <1>h, <1>a DEF ByAdmin
  <2> QED
    BY <2>3, <2>4
<1> QED
  BY <1>1, <1>2, <1>3, <1>4, <1>5, <1>6, <1>7, <1>8, <1>9, <1>10, <1>11, <1>12, <1>13, <1>14, <1>15,
     <1>16, <1>17, <1>18, <1>19, <1>20
  DEF Step

-----------------------------------------------------------------------------
(* The tables *)

TableInv == KeysHaveApps /\ OriginsHaveApps /\ RevokedInv /\ OneRevokes

\* An arriving request keeps the tables and the answers.
LEMMA ArriveTableInv ==
    ASSUME Inv, NEW r \in Requests, NEW o \in Ops, Arrive(r, o)
    PROVE  TableInv'
<1>1. pc[r] = "waiting" /\ answer[r] = "none" /\ answer' = answer /\ app' = app /\ key' = key /\ origin' = origin
  BY DEF Inv, ReqInv, KindInv, Arrive, Proceed, Goto, tables
<1>2. \A s \in Requests \ {r} : op'[s] = op[s]
  BY DEF Inv, TypeOK, Arrive
<1>3. KeysHaveApps'
  BY <1>1 DEF Inv, KeysHaveApps, Exists
<1>3o. OriginsHaveApps'
  BY <1>1 DEF Inv, OriginsHaveApps, Exists
<1>4. RevokedInv'
  BY <1>1, <1>2 DEF Inv, RevokedInv
<1>5. OneRevokes'
  BY <1>1, <1>2 DEF Inv, OneRevokes
<1> QED
  BY <1>3, <1>3o, <1>4, <1>5 DEF TableInv

\* A key that is out of use stays so.
LEMMA KeysStayOut ==
    ASSUME Inv, NEW r \in Requests, Step(r), NEW k \in Keys, key[k] # NoKey, key[k].state # "active"
    PROVE  key'[k] # NoKey /\ key'[k].state # "active"
<1>t. TypeOK /\ ReqInv(r)
  BY DEF Inv
<1>1. CASE key' = key
  BY <1>1
<1>2. CASE Delete(r)
  <2>1. key'[k] = key[k] \/ key'[k] = [app |-> op[r].app, state |-> "deleted"]
    BY <1>2 DEF Delete, KeysWithout
  <2>2. op[r].app \in Apps
    BY <1>2, <1>t, OpsAssumption, OpShape DEF Delete, TypeOK, ReqInv, KindInv
  <2> QED
    BY <2>1, <2>2, NullAssumption DEF KeyRows
<1>3. CASE MintInserts(r)
  BY <1>3, <1>t DEF MintInserts, TypeOK
<1>4. CASE Revoke(r)
  <2>1. op[r].key \in Keys
    BY <1>4, <1>t, OpsAssumption, OpShape DEF Revoke, TypeOK, ReqInv, KindInv
  <2>2. key'[k] = key[k]
    BY <2>1, <1>4, <1>t DEF Revoke, TypeOK, Live
  <2> QED
    BY <2>2
<1> QED
  BY <1>1, <1>2, <1>3, <1>4
  DEF Step, RequireAdmin, Fails, CreateLooks, CreateInserts, PatchReads, PatchWrites, PatchRereads,
      MintLooks, AllowLooks, AllowInserts, Disallow, AddAdmin, RemoveAdmin, KeyLookup, TouchAndServe,
      Preflight, OriginCheck, tables

\* The foreign key and its cascade: no key in use without its app.
LEMMA StepKeysHaveApps ==
    ASSUME Inv, NEW r \in Requests, Step(r)
    PROVE  KeysHaveApps'
<1>t. TypeOK /\ ReqInv(r) /\ KeysHaveApps
  BY DEF Inv
<1>o. pc[r] # "waiting" => op[r] \in AllOps
  BY <1>t, OpsAssumption DEF TypeOK, ReqInv, KindInv
<1>1. CASE key' = key /\ \A a \in Apps : Exists(a) => Exists(a)'
  <2>1. \A k \in Keys : key[k] # NoKey => key[k].app \in Apps
    BY <1>t DEF TypeOK, KeyRows
  <2> QED
    BY <1>1, <1>t, <2>1 DEF KeysHaveApps
<1>2. CASE Delete(r)
  <2>1. op[r].app \in Apps
    BY <1>2, <1>o, OpShape DEF Delete
  <2> SUFFICES ASSUME NEW k \in Keys, key'[k] # NoKey, key'[k].state # "deleted"
               PROVE  app'[key'[k].app] # NoApp
    BY DEF KeysHaveApps, Exists
  <2>2. key'[k] = key[k] /\ (key[k] = NoKey \/ key[k].app # op[r].app)
    BY <1>2 DEF Delete, KeysWithout
  <2>3. app[key[k].app] # NoApp /\ key[k].app \in Apps
    BY <2>2, <1>t DEF KeysHaveApps, Exists, TypeOK, KeyRows
  <2> QED
    BY <2>1, <2>2, <2>3, <1>2, <1>t DEF Delete, TypeOK
<1>3. CASE MintInserts(r)
  BY <1>3, <1>t DEF MintInserts, TypeOK, KeysHaveApps, Exists
<1>4. CASE Revoke(r)
  <2>1. op[r].key \in Keys
    BY <1>4, <1>o, OpShape DEF Revoke
  <2>2. \A k \in Keys : key'[k] = key[k] \/ (key[k] # NoKey /\ key[k].state = "active" /\ key'[k].app = key[k].app)
    BY <2>1, <1>4, <1>t DEF Revoke, TypeOK, Live, KeyRows
  <2> QED
    BY <2>2, <1>4, <1>t DEF Revoke, KeysHaveApps, Exists
<1>5. CASE CreateInserts(r)
  <2>1. op[r].app \in Apps /\ [f \in Flags |-> FALSE] # NoApp
    BY <1>5, <1>o, OpShape, NullAssumption DEF CreateInserts, AppRows
  <2>2. key' = key /\ \A a \in Apps : Exists(a) => Exists(a)'
    BY <2>1, <1>5, <1>t DEF CreateInserts, TypeOK, Exists
  <2> QED
    BY <2>2, <1>1
<1>6. CASE PatchWrites(r)
  <2>1. op[r].app \in Apps /\ op[r].patch \in Patches /\ got[r] \in AppRows
    BY <1>6, <1>t, <1>o, OpShape DEF PatchWrites, ReqInv, KindInv, SawInv
  <2>2. Merged(op[r].patch, got[r]) # NoApp
    BY <2>1, MergedRow, NullAssumption
  <2>3. key' = key /\ \A a \in Apps : Exists(a) => Exists(a)'
    BY <2>1, <2>2, <1>6, <1>t DEF PatchWrites, TypeOK, Exists
  <2> QED
    BY <2>3, <1>1
<1>7. CASE key' = key /\ app' = app
  BY <1>7, <1>1 DEF Exists
<1> QED
  BY <1>2, <1>3, <1>4, <1>5, <1>6, <1>7
  DEF Step, RequireAdmin, Fails, CreateLooks, PatchReads, PatchRereads,
      MintLooks, AllowLooks, AllowInserts, Disallow, AddAdmin, RemoveAdmin, KeyLookup, TouchAndServe,
      Preflight, OriginCheck, tables

\* An app goes with a DELETE only.
LEMMA AppsStay ==
    ASSUME Inv, NEW r \in Requests, Step(r), ~Delete(r), NEW a \in Apps, Exists(a)
    PROVE  Exists(a)'
<1>t. TypeOK /\ ReqInv(r)
  BY DEF Inv
<1>o. pc[r] # "waiting" => op[r] \in AllOps
  BY <1>t, OpsAssumption DEF TypeOK, ReqInv, KindInv
<1>1. CASE CreateInserts(r)
  <2>1. op[r].app \in Apps /\ [f \in Flags |-> FALSE] # NoApp
    BY <1>1, <1>o, OpShape, NullAssumption DEF CreateInserts, AppRows
  <2> QED
    BY <2>1, <1>1, <1>t DEF CreateInserts, TypeOK, Exists
<1>2. CASE PatchWrites(r)
  <2>1. op[r].app \in Apps /\ op[r].patch \in Patches /\ got[r] \in AppRows
    BY <1>2, <1>t, <1>o, OpShape DEF PatchWrites, ReqInv, KindInv, SawInv
  <2>2. Merged(op[r].patch, got[r]) # NoApp
    BY <2>1, MergedRow, NullAssumption
  <2> QED
    BY <2>1, <2>2, <1>2, <1>t DEF PatchWrites, TypeOK, Exists
<1>3. CASE app' = app
  BY <1>3 DEF Exists
<1> QED
  BY <1>1, <1>2, <1>3
  DEF Step, RequireAdmin, Fails, CreateLooks, PatchReads, PatchRereads, MintLooks, MintInserts, Revoke,
      AllowLooks, AllowInserts, Disallow, AddAdmin, RemoveAdmin, KeyLookup, TouchAndServe,
      Preflight, OriginCheck, tables

\* The same for origins: none without its app.
LEMMA StepOriginsHaveApps ==
    ASSUME Inv, NEW r \in Requests, Step(r)
    PROVE  OriginsHaveApps'
<1>t. TypeOK /\ ReqInv(r) /\ OriginsHaveApps
  BY DEF Inv
<1>o. pc[r] # "waiting" => op[r] \in AllOps
  BY <1>t, OpsAssumption DEF TypeOK, ReqInv, KindInv
<1>a. \A i \in Origins : origin[i] \in OriginRows => origin[i].app \in Apps
  BY DEF OriginRows
<1>1. CASE Delete(r)
  <2> SUFFICES ASSUME NEW i \in Origins, origin'[i] \in OriginRows
               PROVE  app'[origin'[i].app] # NoApp
    BY DEF OriginsHaveApps, Exists
  <2>1. origin'[i] = origin[i] /\ origin[i].app # op[r].app
    BY <1>1, NullAssumption DEF Delete, OriginsWithout
  <2>2. app[origin[i].app] # NoApp /\ origin[i].app \in Apps
    BY <2>1, <1>t, <1>a DEF OriginsHaveApps, Exists
  <2> QED
    BY <2>1, <2>2, <1>1, <1>t DEF Delete, TypeOK
<1>2. CASE AllowInserts(r)
  <2>1. op[r].app \in Apps /\ app' = app
    BY <1>2, <1>o, OpShape DEF AllowInserts
  <2>2. CASE origin' = origin
    BY <2>1, <2>2, <1>t DEF OriginsHaveApps, Exists
  <2>3. CASE origin' # origin
    <3>1. Exists(op[r].app)
      BY <2>3, <1>2 DEF AllowInserts
    <3>2. PICK i \in Origins : origin' = [origin EXCEPT ![i] = [app |-> op[r].app, site |-> op[r].site]]
      BY <2>3, <1>2 DEF AllowInserts
    <3>3. \A j \in Origins : origin'[j] = origin[j] \/ origin'[j].app = op[r].app
      BY <3>2, <1>t DEF TypeOK
    <3> QED
      BY <3>1, <3>3, <2>1, <1>t DEF OriginsHaveApps, Exists
  <2> QED
    BY <2>2, <2>3
<1>3. CASE Disallow(r)
  <2>1. \A i \in Origins : origin'[i] \in OriginRows => origin'[i] = origin[i]
    BY <1>3, <1>t, NullAssumption DEF Disallow, TypeOK
  <2> QED
    BY <2>1, <1>3, <1>t DEF Disallow, OriginsHaveApps, Exists
<1>4. CASE origin' = origin /\ ~Delete(r)
  <2>1. \A i \in Origins : origin[i] \in OriginRows => Exists(origin[i].app)'
    BY <1>4, <1>t, <1>a, AppsStay DEF OriginsHaveApps
  <2> QED
    BY <1>4, <2>1 DEF OriginsHaveApps
<1> QED
  BY <1>1, <1>2, <1>3, <1>4
  DEF Step, RequireAdmin, Fails, CreateLooks, CreateInserts, PatchReads, PatchWrites, PatchRereads,
      MintLooks, MintInserts, Revoke, AllowLooks, AddAdmin, RemoveAdmin, KeyLookup, TouchAndServe,
      Preflight, OriginCheck, tables

\* A request that is told it revoked a key found the key in use, and left it out of use.
LEMMA RevokeSucceeds ==
    ASSUME Inv, NEW r \in Requests, Step(r), op[r].kind = "revoke",
           answer[r] # "success", answer'[r] = "success"
    PROVE  /\ op[r].key \in Keys /\ Live(op[r].key)
           /\ key'[op[r].key] # NoKey /\ key'[op[r].key].state # "active"
<1>t. TypeOK /\ ReqInv(r)
  BY DEF Inv
<1>1. Revoke(r)
  <2>1. op[r].kind = "revoke" /\ KindInv(r)
    BY <1>t DEF ReqInv
  <2>2. CASE RequireAdmin(r)
    BY <2>2, <1>t DEF RequireAdmin, Proceed, Goto, Respond, TypeOK
  <2>3. CASE Fails(r)
    BY <2>3, <1>t DEF Fails, Respond, TypeOK
  <2> QED
    BY <2>1, <2>2, <2>3
    DEF Step, KindInv, CreateLooks, CreateInserts, PatchReads, PatchWrites, PatchRereads, Delete,
        MintLooks, MintInserts, AllowLooks, AllowInserts, Disallow, AddAdmin, RemoveAdmin,
        KeyLookup, TouchAndServe, Preflight, OriginCheck
<1>2. op[r].key \in Keys
  BY <1>1, <1>t, OpsAssumption, OpShape DEF Revoke, TypeOK, ReqInv, KindInv
<1>3. Live(op[r].key)
  <2>1. "missing" \in Answers
    BY DEF Answers
  <2> QED
    BY <1>1, <1>t, <2>1, FinishShape DEF Revoke
<1>4. key[op[r].key] \in KeyRows /\ key' = [key EXCEPT ![op[r].key].state = "revoked"]
  BY <1>1, <1>2, <1>3, <1>t DEF Revoke, Live, TypeOK
<1>5. key'[op[r].key] = [key[op[r].key] EXCEPT !.state = "revoked"]
  BY <1>2, <1>4, <1>t DEF TypeOK
<1>6. key'[op[r].key] \in KeyRows /\ key'[op[r].key].state = "revoked"
  BY <1>4, <1>5 DEF KeyRows
<1> QED
  BY <1>2, <1>3, <1>6, NullAssumption

\* The facts about revocations survive a step.
LEMMA StepRevocations ==
    ASSUME Inv, NEW r \in Requests, Step(r)
    PROVE  RevokedInv' /\ OneRevokes'
<1>1. op' = op
  BY DEF Step, RequireAdmin, Fails, CreateLooks, CreateInserts, PatchReads, PatchWrites, PatchRereads,
         Delete, MintLooks, MintInserts, Revoke, AllowLooks, AllowInserts, Disallow, AddAdmin, RemoveAdmin,
         KeyLookup, TouchAndServe, Preflight, OriginCheck
<1>2. \A s \in Requests \ {r} : answer'[s] = answer[s]
  BY StepMoves DEF Moves
<1>3. \A s \in Requests : answer[s] = "success" /\ op[s].kind = "revoke" => op[s].key \in Keys
  <2> SUFFICES ASSUME NEW s \in Requests, answer[s] = "success", op[s].kind = "revoke"
               PROVE  op[s].key \in Keys
    OBVIOUS
  <2>1. op[s] \in AllOps
    BY OpsAssumption DEF Inv, ReqInv, KindInv, TypeOK
  <2> QED
    BY <2>1, OpShape
<1>4. \A s \in Requests : answer[s] = "success" /\ op[s].kind = "revoke" =>
         /\ key[op[s].key] # NoKey /\ key[op[s].key].state # "active"
         /\ key'[op[s].key] # NoKey /\ key'[op[s].key].state # "active"
  BY <1>3, KeysStayOut DEF Inv, RevokedInv
<1>5. CASE op[r].kind = "revoke" /\ answer[r] # "success" /\ answer'[r] = "success"
  <2>1. /\ Live(op[r].key)
        /\ key'[op[r].key] # NoKey /\ key'[op[r].key].state # "active"
    BY <1>5, RevokeSucceeds
  <2>2. \A s \in Requests \ {r} : answer[s] = "success" /\ op[s].kind = "revoke" => op[s].key # op[r].key
    BY <2>1, <1>4 DEF Live
  <2>3. RevokedInv'
    BY <2>1, <1>1, <1>2, <1>4 DEF RevokedInv
  <2>4. OneRevokes'
    BY <2>2, <1>1, <1>2 DEF Inv, OneRevokes
  <2> QED
    BY <2>3, <2>4
<1>6. CASE ~(op[r].kind = "revoke" /\ answer[r] # "success" /\ answer'[r] = "success")
  <2>1. \A s \in Requests : answer'[s] = "success" /\ op[s].kind = "revoke" => answer[s] = "success"
    BY <1>2, <1>6
  <2>2. RevokedInv'
    BY <2>1, <1>1, <1>4 DEF RevokedInv
  <2>3. OneRevokes'
    BY <2>1, <1>1 DEF Inv, OneRevokes
  <2> QED
    BY <2>2, <2>3
<1> QED
  BY <1>5, <1>6

-----------------------------------------------------------------------------
(* The invariant *)

\* The initial states satisfy it.
LEMMA InitInv == Init => Inv
<1> SUFFICES ASSUME Init PROVE Inv
  OBVIOUS
<1>1. \A k \in Keys : key[k] \in KeyRows \cup {NoKey}
  BY DEF Init, KeyRows
<1>2. [f \in Flags |-> FALSE] \in AppRows
  BY DEF AppRows
<1>3. TypeOK
  BY <1>1, <1>2 DEF Init, TypeOK, Answers
<1>4. \A r \in Requests : ReqInv(r)
  BY DEF Init, ReqInv, KindInv, SawInv, AnswerIsTrue, Inside, ByAdmin
<1>5. KeysHaveApps
  BY <1>1 DEF Init, KeysHaveApps, Live, KeyRows
<1>6. RevokedInv /\ OneRevokes
  BY DEF Init, RevokedInv, OneRevokes
<1>7. OriginsHaveApps
  BY NullAssumption DEF Init, OriginsHaveApps
<1> QED
  BY <1>3, <1>4, <1>5, <1>6, <1>7 DEF Inv

\* Every step keeps it.
LEMMA NextInv == Inv /\ [Next]_vars => Inv'
<1> SUFFICES ASSUME Inv, [Next]_vars PROVE Inv'
  OBVIOUS
<1>1. CASE UNCHANGED vars
  BY <1>1 DEF Inv, vars, TypeOK, ReqInv, KindInv, SawInv, AnswerIsTrue, KeysHaveApps, OriginsHaveApps, Exists,
             RevokedInv, OneRevokes
<1>2. CASE Next
  <2>0. Watch
    BY <1>2 DEF Next
  <2>1. PICK r \in Requests : Step(r) \/ \E o \in Ops : Arrive(r, o)
    BY <1>2 DEF Next
  <2>t. TypeOK /\ \A s \in Requests : ReqInv(s)
    BY DEF Inv
  <2>2. Moves(r)
    BY <2>1, <2>t, ArriveMoves, StepMoves
  <2>3. TypeOK'
    BY <2>0, <2>2, <2>t, SawGrows DEF Moves, TypeOK, Labels, AllFacts
  <2>4. ReqInv(r)'
    BY <2>0, <2>1, <2>t, ArriveReqInv, StepReqInv
  <2>5. ASSUME NEW s \in Requests \ {r} PROVE ReqInv(s)'
    BY <2>0, <2>2, <2>t, <2>5, OthersKeepReqInv
  <2>6. \A s \in Requests : ReqInv(s)'
    BY <2>4, <2>5
  <2>7. KeysHaveApps' /\ OriginsHaveApps' /\ RevokedInv' /\ OneRevokes'
    BY <2>1, ArriveTableInv, StepKeysHaveApps, StepOriginsHaveApps, StepRevocations DEF TableInv
  <2> QED
    BY <2>3, <2>6, <2>7 DEF Inv
<1> QED
  BY <1>1, <1>2

\* Inv is an invariant: what every request's place tells of what it saw, and what the
\* tables and the answers say of each other.
THEOREM Invariance == Spec => []Inv
BY InitInv, NextInv, PTL DEF Spec

\* Type correctness of the tables, the handlers and their answers (src/src/routes/admin.ts,
\* src/src/auth.ts).
THEOREM TypeCorrect == Spec => []TypeOK
<1>1. Inv => TypeOK
  BY DEF Inv
<1> QED
  BY <1>1, Invariance, PTL

\* Every answer of the admin routes and of apiKeyAuth was true at some moment of its
\* request, and only entitled callers get more than a 403.
THEOREM AnswersAreTrueHolds == Spec => []AnswersAreTrue
<1>1. Inv => AnswersAreTrue
  BY DEF Inv, ReqInv, AnswerIsTrue, AnswersAreTrue
<1> QED
  BY <1>1, Invariance, PTL

\* No key is in use whose app is gone (ON DELETE CASCADE and the foreign key of
\* api_keys in src/src/db.ts).
THEOREM KeysHaveAppsHolds == Spec => []KeysHaveApps
<1>1. Inv => KeysHaveApps
  BY DEF Inv
<1> QED
  BY <1>1, Invariance, PTL

\* Of any number of requests that revoke a key, one at most is told that it did.
THEOREM OneRevokesHolds == Spec => []OneRevokes
<1>1. Inv => OneRevokes
  BY DEF Inv
<1> QED
  BY <1>1, Invariance, PTL

\* Only a request of a wallet that was an administrator while it ran changes a table.
THEOREM ChangesAreAuthorisedHolds == Spec => ChangesAreAuthorised
<1> DEFINE Authorised == tables' # tables =>
              \E r \in Requests : pc'[r] # pc[r] /\ ByAdmin(op[r]) /\ "admin" \in saw[r]
<1>1. ASSUME Inv, [Next]_vars PROVE [Authorised]_vars
  <2>1. CASE UNCHANGED vars
    BY <2>1
  <2>2. CASE Next
    <3>1. PICK r \in Requests : Step(r) \/ \E o \in Ops : Arrive(r, o)
      BY <2>2 DEF Next
    <3>2. CASE tables' = tables
      BY <3>2
    <3>3. CASE tables' # tables
      <4>1. pc[r] \in {"handler", "insert", "update"} /\ Step(r)
        BY <3>1, <3>3
        DEF Arrive, Step, RequireAdmin, Fails, CreateLooks, CreateInserts, PatchReads, PatchWrites,
            PatchRereads, Delete, MintLooks, MintInserts, Revoke, AllowLooks, AllowInserts, Disallow,
            AddAdmin, RemoveAdmin, KeyLookup, TouchAndServe, Preflight, OriginCheck
      <4>2. ByAdmin(op[r]) /\ "admin" \in saw[r]
        BY <4>1, <1>1 DEF Inv, ReqInv, KindInv, SawInv, Inside
      <4>3. pc'[r] # pc[r]
        <5>1. ASSUME NEW a, Respond(r, a) \/ Finish(r, a) PROVE pc'[r] = "done"
          BY <5>1, <1>1 DEF Respond, Finish, Inv, TypeOK
        <5>2. ASSUME Proceed(r, "reread") PROVE pc'[r] = "reread"
          BY <5>2, <1>1 DEF Proceed, Goto, Inv, TypeOK
        <5> QED
          BY <3>3, <4>1, <5>1, <5>2
          DEF Step, RequireAdmin, Fails, CreateLooks, CreateInserts, PatchReads, PatchWrites,
              PatchRereads, Delete, MintLooks, MintInserts, Revoke, AllowLooks, AllowInserts, Disallow,
              AddAdmin, RemoveAdmin, KeyLookup, TouchAndServe, Preflight, OriginCheck
      <4> QED
        BY <4>2, <4>3
    <3> QED
      BY <3>2, <3>3
  <2> QED
    BY <1>1, <2>1, <2>2
<1>2. Spec => [][Authorised]_vars
  BY <1>1, Invariance, PTL DEF Spec
<1> QED
  BY <1>2 DEF ChangesAreAuthorised

\* Entries of the allow-list are of apps that exist (ON DELETE CASCADE and the foreign
\* key of cors_origins in src/src/db.ts).
THEOREM OriginsHaveAppsHolds == Spec => []OriginsHaveApps
<1>1. Inv => OriginsHaveApps
  BY DEF Inv
<1> QED
  BY <1>1, Invariance, PTL

\* At the moment an app is created it has no key in use and no allowed origin, whatever
\* app had its id before and however the requests for that one overlapped with its deletion.
THEOREM FreshAppsAreClosedHolds == Spec => FreshAppsAreClosed
<1> DEFINE Closed == \A a \in Apps : ~Exists(a) /\ Exists(a)' =>
              /\ \A k \in Keys : Live(k)' => key'[k].app # a
              /\ \A s \in Sites : ~AllowedFor(a, s)'
<1>1. ASSUME Inv, [Next]_vars PROVE [Closed]_vars
  <2>1. CASE UNCHANGED vars
    BY <2>1
  <2>2. CASE Next
    <3> SUFFICES ASSUME NEW a \in Apps, ~Exists(a), Exists(a)'
                 PROVE  /\ \A k \in Keys : Live(k)' => key'[k].app # a
                        /\ \A s \in Sites : ~AllowedFor(a, s)'
      OBVIOUS
    <3>1. PICK r \in Requests : Step(r) \/ \E o \in Ops : Arrive(r, o)
      BY <2>2 DEF Next
    <3>2. app' # app
      BY DEF Exists
    <3>3. CreateInserts(r) \/ PatchWrites(r) \/ Delete(r)
      BY <3>1, <3>2
      DEF Arrive, Step, RequireAdmin, Fails, CreateLooks, PatchReads, PatchRereads, MintLooks, MintInserts,
          Revoke, AllowLooks, AllowInserts, Disallow, AddAdmin, RemoveAdmin, KeyLookup, TouchAndServe,
          Preflight, OriginCheck, tables
    <3>4. ~Delete(r)
      BY <1>1 DEF Delete, Exists, Inv, TypeOK
    <3>5. key' = key /\ origin' = origin
      BY <3>3, <3>4 DEF CreateInserts, PatchWrites
    <3>6. \A k \in Keys : Live(k) => key[k].app # a
      BY <1>1 DEF Inv, KeysHaveApps, Live
    <3>7. ASSUME NEW s \in Sites PROVE ~AllowedFor(a, s)
      <4>1. [app |-> a, site |-> s] \in OriginRows
        BY DEF OriginRows
      <4> QED
        BY <4>1, <1>1 DEF AllowedFor, Inv, OriginsHaveApps
    <3> QED
      BY <3>5, <3>6, <3>7 DEF Live, AllowedFor
  <2> QED
    BY <1>1, <2>1, <2>2
<1>2. Spec => [][Closed]_vars
  BY <1>1, Invariance, PTL DEF Spec
<1> QED
  BY <1>2 DEF FreshAppsAreClosed

\* An app's flags change by PATCH only, so that of several requests that create one app
\* none clears the requirement of a signature or the switch that stops its keys.
FlagsChangeByPatch ==
    [][\A a \in Apps : Exists(a) /\ Exists(a)' /\ app[a]' # app[a] =>
          \E r \in Requests : /\ op[r] # NoOp /\ op[r].kind = "patch" /\ op[r].app = a
                              /\ pc[r] # pc'[r]]_vars

\* The primary key of apps makes the second of two inserts fail (repository.ts:274-278),
\* and PATCH writes by id (repository.ts:299-302).
THEOREM FlagsChangeByPatchHolds == Spec => FlagsChangeByPatch
<1> DEFINE ByPatch == \A a \in Apps : Exists(a) /\ Exists(a)' /\ app[a]' # app[a] =>
              \E r \in Requests : /\ op[r] # NoOp /\ op[r].kind = "patch" /\ op[r].app = a
                                  /\ pc[r] # pc'[r]
<1>1. ASSUME Inv, [Next]_vars PROVE [ByPatch]_vars
  <2>1. CASE UNCHANGED vars
    BY <2>1
  <2>2. CASE Next
    <3> SUFFICES ASSUME NEW a \in Apps, Exists(a), Exists(a)', app[a]' # app[a]
                 PROVE  \E r \in Requests : /\ op[r] # NoOp /\ op[r].kind = "patch" /\ op[r].app = a
                                            /\ pc[r] # pc'[r]
      OBVIOUS
    <3>1. PICK r \in Requests : Step(r) \/ \E o \in Ops : Arrive(r, o)
      BY <2>2 DEF Next
    <3>2. CreateInserts(r) \/ PatchWrites(r) \/ Delete(r)
      BY <3>1
      DEF Arrive, Step, RequireAdmin, Fails, CreateLooks, PatchReads, PatchRereads, MintLooks, MintInserts,
          Revoke, AllowLooks, AllowInserts, Disallow, AddAdmin, RemoveAdmin, KeyLookup, TouchAndServe,
          Preflight, OriginCheck, tables
    <3>3. ~Delete(r) /\ ~CreateInserts(r)
      BY <1>1 DEF Delete, CreateInserts, Exists, Inv, TypeOK
    <3>4. PatchWrites(r)
      BY <3>2, <3>3
    <3>5. op[r].app = a
      BY <3>4, <1>1 DEF PatchWrites, Inv, TypeOK
    <3>6. op[r] # NoOp /\ op[r].kind = "patch" /\ pc[r] = "update"
      BY <3>4, <1>1 DEF PatchWrites, Inv, ReqInv, KindInv
    <3>7. pc'[r] = "reread"
      BY <3>4, <1>1 DEF PatchWrites, Proceed, Goto, Inv, TypeOK
    <3> QED
      BY <3>5, <3>6, <3>7
  <2> QED
    BY <1>1, <2>1, <2>2
<1>2. Spec => [][ByPatch]_vars
  BY <1>1, Invariance, PTL DEF Spec
<1> QED
  BY <1>2 DEF FlagsChangeByPatch

-----------------------------------------------------------------------------
(* The browser's side of the admin plane: the session of the dashboard, for any   *)
(* tabs and any number of requests under way, whatever the server answers.        *)

\* A tab that emptied the storage and still shows its pages has asked with no token,
\* and has not heard the answer.
AskedInVain(t) == \E c \in calls : c.tab = t /\ c.kind = "api" /\ c.token = NoToken

CallRecords == [tab : Tabs, kind : {"me", "login", "api"}, token : Nat,
                result : {"pending", "ok", "refused", "failed"}]

SessionTyped ==
    /\ token \in Nat /\ issued \in Nat
    /\ connected \in [Tabs -> BOOLEAN] /\ authed \in [Tabs -> BOOLEAN]
    /\ calls \subseteq CallRecords
    /\ cleared \subseteq Tabs

\* A login that was let in has a token, and no request without one was; with that a tab
\* that emptied the storage is closed, or about to hear that it has to close.
SessionInv ==
    /\ SessionTyped
    /\ \A c \in calls : c.kind = "login" /\ c.result = "ok" => c.token # NoToken
    /\ \A c \in calls : c.kind = "api" /\ c.token = NoToken => c.result # "ok"
    /\ \A t \in cleared : token = NoToken /\ Shown(t) => AskedInVain(t)

\* The initial states satisfy the invariant.
LEMMA SessionInitInv == SessionInit => SessionInv
<1> SUFFICES ASSUME SessionInit PROVE SessionInv
  OBVIOUS
<1>1. SessionTyped
  <2>1. token \in Nat /\ issued \in Nat
    BY DEF SessionInit, NoToken
  <2> QED BY <2>1 DEF SessionInit, SessionTyped, CallRecords
<1> QED BY <1>1 DEF SessionInit, SessionInv

\* A turn of a tab keeps the invariant if it forgets at most one call, of its own, and
\* does not go on showing pages after it emptied the storage or was refused.
LEMMA SessionTurnInv ==
    ASSUME SessionInv, NEW t \in Tabs, NEW stored \in Nat,
           NEW isConnected \in BOOLEAN, NEW isAuthed \in BOOLEAN, NEW rest,
           Turn(t, stored, isConnected, isAuthed, rest), UNCHANGED server,
           rest \subseteq calls,
           \A c \in calls \ rest : c.tab = t,
           stored = NoToken => token = NoToken \/ ~isConnected,
           \A c \in calls \ rest : c.kind = "api" /\ c.token = NoToken =>
               ~isConnected \/ c.result = "failed"
    PROVE  SessionInv'
<1> DEFINE now == isAuthed /\ (isConnected # connected[t] => isConnected /\ stored # NoToken)
<1>0. SessionTyped
  BY DEF SessionInv
<1>1. /\ token' = stored /\ connected' = [connected EXCEPT ![t] = isConnected]
      /\ authed' = [authed EXCEPT ![t] = now]
  BY DEF Turn
<1>2. \A c \in calls' : c \in rest \/ c = Request(t, "me", stored) \/ c = Request(t, "api", stored)
  BY DEF Turn
<1>3. rest \subseteq calls'
  BY DEF Turn
<1>4. isConnected /\ isAuthed /\ ~Shown(t) => Request(t, "api", stored) \in calls'
  BY DEF Turn
<1>5. cleared' = IF stored = NoToken /\ token # NoToken THEN {t}
                 ELSE IF \E c \in calls \ rest : c.result = "failed" THEN cleared \ {t}
                 ELSE cleared
  BY DEF Turn
<1>6. SessionTyped'
  <2>1. now \in BOOLEAN
    OBVIOUS
  <2>2. connected' \in [Tabs -> BOOLEAN] /\ authed' \in [Tabs -> BOOLEAN]
    BY <1>0, <1>1, <2>1 DEF SessionTyped
  <2>3. calls' \subseteq CallRecords
    BY <1>0, <1>2 DEF SessionTyped, Request, CallRecords
  <2>4. cleared' \subseteq Tabs
    BY <1>0, <1>5 DEF SessionTyped
  <2> QED BY <1>0, <1>1, <2>2, <2>3, <2>4 DEF SessionTyped, server, CallRecords
<1>7. \A c \in calls' : /\ c.kind = "login" /\ c.result = "ok" => c.token # NoToken
                        /\ c.kind = "api" /\ c.token = NoToken => c.result # "ok"
  BY <1>2 DEF SessionInv, Request
<1>8. ASSUME NEW u \in cleared', stored = NoToken, Shown(u)' PROVE AskedInVain(u)'
  <2>1. u \in Tabs
    BY <1>6 DEF SessionTyped
  <2>2. CASE u = t
    <3>1. isConnected /\ isAuthed /\ (isConnected # connected[t] => stored # NoToken)
      BY <1>0, <1>1, <1>8, <2>2 DEF SessionTyped, Shown
    <3>2. token = NoToken /\ connected[t]
      BY <1>0, <1>8, <3>1 DEF SessionTyped
    <3>3. CASE Shown(t)
      <4>1. t \in cleared /\ ~\E c \in calls \ rest : c.result = "failed"
        BY <1>5, <1>8, <2>2, <3>2
      <4>2. PICK c \in calls : c.tab = t /\ c.kind = "api" /\ c.token = NoToken
        BY <3>2, <3>3, <4>1 DEF SessionInv, AskedInVain
      <4>3. c \in rest
        BY <3>1, <4>1, <4>2
      <4> QED BY <1>3, <2>2, <4>2, <4>3 DEF AskedInVain
    <3>4. CASE ~Shown(t)
      <4>1. Request(t, "api", stored) \in calls'
        BY <1>4, <3>1, <3>4
      <4> QED BY <1>8, <2>2, <4>1 DEF AskedInVain, Request
    <3> QED BY <3>3, <3>4
  <2>3. CASE u # t
    <3>1. token = NoToken /\ u \in cleared /\ Shown(u)
      BY <1>0, <1>1, <1>5, <1>8, <2>1, <2>3 DEF SessionTyped, Shown
    <3>2. PICK c \in calls : c.tab = u /\ c.kind = "api" /\ c.token = NoToken
      BY <3>1 DEF SessionInv, AskedInVain
    <3>3. c \in rest
      BY <2>3, <3>2
    <3> QED BY <1>3, <3>2, <3>3 DEF AskedInVain
  <2> QED BY <2>2, <2>3
<1> QED BY <1>1, <1>6, <1>7, <1>8 DEF SessionInv

\* So does every other step that leaves the token and the history alone, shows no page
\* that was not shown, and keeps every vain request of a tab that shows its pages.
LEMMA SessionQuietInv ==
    ASSUME SessionInv, SessionTyped', token' = token, cleared' = cleared,
           \A c \in calls' : \/ c \in calls
                             \/ /\ c.kind = "login" /\ c.result = "ok" => c.token # NoToken
                                /\ c.kind = "api" /\ c.token = NoToken => c.result # "ok",
           \A t \in Tabs : /\ Shown(t)' => Shown(t)
                           /\ Shown(t)' /\ AskedInVain(t) => AskedInVain(t)'
    PROVE  SessionInv'
<1>1. \A t \in cleared' : token' = NoToken /\ Shown(t)' => AskedInVain(t)'
  BY DEF SessionInv, SessionTyped
<1> QED BY <1>1 DEF SessionInv

\* Every step keeps the invariant.
LEMMA SessionNextInv == SessionInv /\ [SessionNext]_sessionVars => SessionInv'
<1> SUFFICES ASSUME SessionInv, [SessionNext]_sessionVars PROVE SessionInv'
  OBVIOUS
<1>0. /\ SessionTyped /\ calls \subseteq CallRecords /\ issued \in Nat /\ token \in Nat
      /\ connected \in [Tabs -> BOOLEAN] /\ authed \in [Tabs -> BOOLEAN]
  BY DEF SessionInv, SessionTyped, CallRecords
<1>b. NoToken \in Nat
  BY DEF NoToken
<1>c. \A c \in calls : c.tab \in Tabs /\ c.token \in Nat
  BY <1>0 DEF CallRecords
<1>e. calls \subseteq calls /\ calls \ calls = {} /\ TRUE \in BOOLEAN /\ FALSE \in BOOLEAN
  OBVIOUS
<1>r. \A t \in Tabs, kind \in {"me", "login", "api"}, tok \in Nat :
         Request(t, kind, tok) \in CallRecords
  BY DEF Request, CallRecords
<1>1. ASSUME NEW t \in Tabs, Connect(t) PROVE SessionInv'
  <2>1. PICK yes \in BOOLEAN : yes = TRUE
    OBVIOUS
  <2>2. Turn(t, token, yes, authed[t], calls) /\ UNCHANGED server
    BY <1>1, <2>1 DEF Connect
  <2>3. authed[t] \in BOOLEAN
    BY <1>0
  <2> QED BY <1>0, <1>e, <2>2, <2>3, SessionTurnInv
<1>2. ASSUME NEW t \in Tabs, Logout(t) PROVE SessionInv'
  <2>1. PICK no \in BOOLEAN : no = FALSE
    OBVIOUS
  <2>2. Turn(t, NoToken, no, authed[t], calls) /\ UNCHANGED server
    BY <1>2, <2>1 DEF Logout
  <2>3. authed[t] \in BOOLEAN
    BY <1>0
  <2> QED BY <1>b, <1>e, <2>1, <2>2, <2>3, SessionTurnInv
<1>3. ASSUME NEW t \in Tabs, SignIn(t) \/ Act(t) PROVE SessionInv'
  <2>1. PICK c \in {Request(t, "login", NoToken), Request(t, "api", token)} :
          /\ calls' = calls \cup {c}
          /\ UNCHANGED <<token, server, connected, authed, cleared>>
    BY <1>3 DEF SignIn, Act
  <2>2. c \in CallRecords
    BY <1>0, <1>b, <1>r
  <2>3. SessionTyped'
    BY <1>0, <2>1, <2>2 DEF SessionTyped, server, CallRecords
  <2>4. c.result = "pending"
    BY DEF Request
  <2>5. \A u \in Tabs : (Shown(u)' => Shown(u)) /\ (AskedInVain(u) => AskedInVain(u)')
    BY <2>1 DEF Shown, AskedInVain
  <2> QED BY <2>1, <2>3, <2>4, <2>5, SessionQuietInv
<1>4. ASSUME NEW t \in Tabs, Reload(t) PROVE SessionInv'
  <2>1. /\ connected' = [connected EXCEPT ![t] = FALSE] /\ authed' = [authed EXCEPT ![t] = FALSE]
        /\ UNCHANGED <<token, admin, issued, expired, cleared>>
    BY <1>4 DEF Reload
  <2>2. \A c \in calls' : c \in calls \/ c = Request(t, "me", token)
    BY <1>4 DEF Reload
  <2>3. \A c \in calls : c.tab # t => c \in calls'
    BY <1>4 DEF Reload, Of
  <2>4. SessionTyped'
    <3>1. calls' \subseteq CallRecords
      BY <1>0, <1>r, <2>2
    <3>2. connected' \in [Tabs -> BOOLEAN] /\ authed' \in [Tabs -> BOOLEAN]
      BY <1>0, <2>1
    <3> QED BY <1>0, <2>1, <3>1, <3>2 DEF SessionTyped
  <2>5. ASSUME NEW u \in Tabs
        PROVE  (Shown(u)' => Shown(u)) /\ (Shown(u)' /\ AskedInVain(u) => AskedInVain(u)')
    <3>1. CASE u = t
      BY <1>0, <2>1, <3>1 DEF Shown
    <3>2. CASE u # t
      <4>1. Shown(u)' => Shown(u)
        BY <1>0, <2>1, <3>2 DEF Shown
      <4>2. AskedInVain(u) => AskedInVain(u)'
        BY <2>3, <3>2 DEF AskedInVain
      <4> QED BY <4>1, <4>2
    <3> QED BY <3>1, <3>2
  <2>6. Request(t, "me", token).kind = "me"
    BY DEF Request
  <2> QED BY <2>1, <2>2, <2>4, <2>5, <2>6, SessionQuietInv
<1>5. ASSUME NEW c \in calls, Decide(c) \/ Fail(c) PROVE SessionInv'
  <2>1. UNCHANGED <<token, admin, expired, connected, authed, cleared>>
    BY <1>5 DEF Decide, Fail
  <2>2. issued' \in Nat
    BY <1>0, <1>5 DEF Decide, Fail
  <2>3. \/ /\ calls' = calls \ {c} /\ c.kind = "api" /\ c.token # NoToken
        \/ \E d \in CallRecords :
              /\ calls' = (calls \ {c}) \cup {d}
              /\ d.tab = c.tab /\ d.kind = c.kind
              /\ d.kind = "login" /\ d.result = "ok" => d.token # NoToken
              /\ d.kind = "api" => d.token = c.token
              /\ d.kind = "api" /\ d.token = NoToken => d.result # "ok"
    <3>1. c \in CallRecords /\ issued + 1 # NoToken
      BY <1>0 DEF NoToken
    <3>2. ASSUME NEW tok \in Nat, NEW what \in {"pending", "ok", "refused", "failed"}
          PROVE  [c EXCEPT !.result = what, !.token = tok] \in CallRecords
      BY <3>1 DEF CallRecords
    <3>3. CASE Fail(c)
      <4>1. PICK what \in {"failed", "refused"} :
              /\ calls' = (calls \ {c}) \cup {[c EXCEPT !.result = what]}
        BY <3>3 DEF Fail
      <4>2. [c EXCEPT !.result = what] = [c EXCEPT !.result = what, !.token = c.token]
        BY <3>1 DEF CallRecords
      <4>3. [c EXCEPT !.result = what] \in CallRecords
        BY <1>c, <3>2, <4>2
      <4> DEFINE d == [c EXCEPT !.result = what]
      <4>4. d.tab = c.tab /\ d.kind = c.kind /\ d.token = c.token /\ d.result = what
        BY <3>1 DEF CallRecords
      <4> QED BY <4>1, <4>3, <4>4
    <3>4. CASE Decide(c)
      <4>1. CASE calls' = calls \ {c} /\ c.kind = "api" /\ c.token # NoToken
        BY <4>1
      <4>2. CASE /\ c.kind = "login"
                 /\ issued < MaxLogins
                 /\ calls' = (calls \ {c}) \cup {[c EXCEPT !.result = "ok", !.token = issued + 1]}
        <5> DEFINE d == [c EXCEPT !.result = "ok", !.token = issued + 1]
        <5>1. issued + 1 \in Nat
          BY <1>0
        <5>2. d \in CallRecords
          BY <3>2, <5>1
        <5>3. d.tab = c.tab /\ d.kind = c.kind /\ d.token = issued + 1
          BY <3>1 DEF CallRecords
        <5> QED BY <3>1, <4>2, <5>2, <5>3
      <4>3. CASE /\ c.kind = "me" \/ Verdict(c) = "refused"
                 /\ calls' = (calls \ {c}) \cup {[c EXCEPT !.result = Verdict(c)]}
        <5>1. PICK what : what = Verdict(c)
          OBVIOUS
        <5>2. what \in {"ok", "refused"} /\ (c.kind # "me" => what = "refused")
          BY <3>1, <4>3, <5>1 DEF Verdict, CallRecords
        <5> DEFINE d == [c EXCEPT !.result = what]
        <5>3. d = [c EXCEPT !.result = what, !.token = c.token]
          BY <3>1 DEF CallRecords
        <5>4. d \in CallRecords
          BY <1>c, <3>2, <5>2, <5>3
        <5>5. d.tab = c.tab /\ d.kind = c.kind /\ d.token = c.token /\ d.result = what
          BY <3>1 DEF CallRecords
        <5>6. calls' = (calls \ {c}) \cup {d}
          BY <4>3, <5>1
        <5> HIDE DEF d
        <5> QED BY <5>2, <5>4, <5>5, <5>6
      <4> QED BY <3>4, <4>1, <4>2, <4>3 DEF Decide, Verdict
    <3> QED BY <1>5, <3>3, <3>4
  <2>4. calls' \subseteq CallRecords
    BY <1>0, <2>3
  <2>5. SessionTyped'
    BY <1>0, <2>1, <2>2, <2>4 DEF SessionTyped, CallRecords
  <2>6. \A d \in calls' : \/ d \in calls
                         \/ /\ d.kind = "login" /\ d.result = "ok" => d.token # NoToken
                            /\ d.kind = "api" /\ d.token = NoToken => d.result # "ok"
    BY <2>3
  <2>7. ASSUME NEW u \in Tabs, AskedInVain(u) PROVE AskedInVain(u)'
    <3>1. PICK x \in calls : x.tab = u /\ x.kind = "api" /\ x.token = NoToken
      BY <2>7 DEF AskedInVain
    <3>2. CASE x # c
      <4>1. x \in calls'
        BY <2>3, <3>2
      <4> QED BY <3>1, <4>1 DEF AskedInVain
    <3>3. CASE x = c
      <4>1. PICK d \in calls' : d.tab = c.tab /\ d.kind = c.kind /\ d.token = c.token
        BY <2>3, <3>1, <3>3
      <4> QED BY <3>1, <3>3, <4>1 DEF AskedInVain
    <3> QED BY <3>2, <3>3
  <2>8. \A u \in Tabs : Shown(u)' => Shown(u)
    BY <2>1 DEF Shown
  <2> QED BY <2>1, <2>5, <2>6, <2>7, <2>8, SessionQuietInv
<1>6. ASSUME NEW c \in calls, Hear(c) PROVE SessionInv'
  <2>1. c.tab \in Tabs /\ c.token \in Nat /\ UNCHANGED server
    BY <1>c, <1>6 DEF Hear, HearApi, HearMe, HearLogin
  <2>2. calls \ {c} \subseteq calls /\ \A d \in calls \ (calls \ {c}) : d = c
    OBVIOUS
  <2>3. connected[c.tab] \in BOOLEAN /\ authed[c.tab] \in BOOLEAN
    BY <1>0, <2>1
  <2>4. CASE HearApi(c)
    <3>1. CASE c.result = "refused"
      <4>1. Turn(c.tab, NoToken, FALSE, FALSE, calls \ {c})
        BY <2>4, <3>1 DEF HearApi
      <4> QED BY <1>b, <2>1, <2>2, <4>1, SessionTurnInv
    <3>2. CASE c.result # "refused"
      <4>1. Turn(c.tab, token, connected[c.tab], authed[c.tab], calls \ {c})
        BY <2>4, <3>2 DEF HearApi
      <4>2. c.kind = "api" /\ c.token = NoToken => c.result = "failed"
        BY <1>0, <2>4, <3>2 DEF HearApi, SessionInv, CallRecords
      <4> QED BY <1>0, <2>1, <2>2, <2>3, <4>1, <4>2, SessionTurnInv
    <3> QED BY <3>1, <3>2
  <2>5. CASE HearMe(c)
    <3>1. PICK isAuthed \in BOOLEAN :
            Turn(c.tab, token, connected[c.tab], isAuthed, calls \ {c})
      BY <2>3, <2>5 DEF HearMe
    <3>2. c.kind = "me"
      BY <2>5 DEF HearMe
    <3> QED BY <1>0, <2>1, <2>2, <2>3, <3>1, <3>2, SessionTurnInv
  <2>6. CASE HearLogin(c)
    <3>1. c.kind = "login" /\ c.result # "pending"
      BY <2>6 DEF HearLogin
    <3>2. CASE c.result = "ok"
      <4>1. PICK yes \in BOOLEAN : yes = TRUE
        OBVIOUS
      <4>2. Turn(c.tab, c.token, connected[c.tab], yes, calls \ {c})
        BY <2>6, <3>2, <4>1 DEF HearLogin
      <4>3. c.token # NoToken
        BY <3>1, <3>2 DEF SessionInv
      <4> QED BY <2>1, <2>2, <2>3, <3>1, <4>2, <4>3, SessionTurnInv
    <3>3. CASE c.result # "ok"
      <4>1. PICK no \in BOOLEAN : no = FALSE
        OBVIOUS
      <4>2. \/ Turn(c.tab, token, no, no, calls \ {c})
            \/ Turn(c.tab, token, connected[c.tab], authed[c.tab], calls \ {c})
        BY <2>6, <3>3, <4>1 DEF HearLogin
      <4>3. CASE Turn(c.tab, token, no, no, calls \ {c})
        BY <1>0, <2>1, <2>2, <3>1, <4>3, SessionTurnInv
      <4>4. CASE Turn(c.tab, token, connected[c.tab], authed[c.tab], calls \ {c})
        BY <1>0, <2>1, <2>2, <2>3, <3>1, <4>4, SessionTurnInv
      <4> QED BY <4>2, <4>3, <4>4
    <3> QED BY <3>2, <3>3
  <2> QED BY <1>6, <2>4, <2>5, <2>6 DEF Hear
<1>7. CASE ChangeList \/ \E tok \in Tokens : Expire(tok)
  <2>1. UNCHANGED <<token, issued, connected, authed, calls, cleared>>
    BY <1>7 DEF ChangeList, Expire
  <2>2. SessionTyped'
    BY <1>0, <2>1 DEF SessionTyped
  <2> QED BY <2>1, <2>2, SessionQuietInv DEF Shown, AskedInVain
<1>8. CASE UNCHANGED sessionVars
  BY <1>8 DEF sessionVars, server, SessionInv, SessionTyped, Shown, AskedInVain
<1> QED BY <1>1, <1>2, <1>3, <1>4, <1>5, <1>6, <1>7, <1>8 DEF SessionNext

-----------------------------------------------------------------------------
\* The invariant of the dashboard's session in any number of tabs (api.ts, auth.ts, App.tsx).
THEOREM SessionInvariance == SessionSpec => []SessionInv
BY SessionInitInv, SessionNextInv, PTL DEF SessionSpec

\* A tab that emptied the storage itself, by a logout or a refusal it heard, closes its
\* own gate, in whatever order the answers of its requests and of other tabs come
\* (api.ts, App.tsx).
THEOREM OwnRefusalsCloseTheGateHolds == SessionSpec => []OwnRefusalsCloseTheGate
<1>1. SessionInv => OwnRefusalsCloseTheGate
  BY DEF SessionInv, OwnRefusalsCloseTheGate, AskedInVain, Of
<1> QED BY <1>1, SessionInvariance, PTL
=============================================================================
