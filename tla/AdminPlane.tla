------------------------------ MODULE AdminPlane ------------------------------
(***************************************************************************)
(* The administrators' requests (src/src/routes/admin.ts behind            *)
(* requireAdmin in src/src/auth.ts), the requests that carry an app's API  *)
(* key (apiKeyAuth and assertAppAccess in src/src/auth.ts) and those that  *)
(* a page sends (browserCors in src/src/server.ts and the check of the     *)
(* origin in src/src/routes/subscriptions.ts), over the apps, api_keys,    *)
(* cors_origins and admins tables of src/src/repository.ts.                *)
(*                                                                         *)
(* A handler run is cut at its awaits: between any two of its database     *)
(* calls other requests run, so what it checked may no longer hold when it *)
(* acts.  Each SQL statement is atomic.  A call may fail, before or after  *)
(* it took effect.                                                         *)
(*                                                                         *)
(* Of an app the two flags are kept; its name is one more column that      *)
(* every PATCH writes.  An API key is the secret that was generated once;  *)
(* an entry of the allow-list of origins is known by its id, which is      *)
(* never given out again.  Left out are bodies that do not parse, the      *)
(* service's own key (ADMIN_API_KEY) and callers without an Origin header, *)
(* which pass without a look at any table.                                 *)
(***************************************************************************)
EXTENDS Integers

CONSTANTS Apps, Keys, Wallets, Sites,
          Origins,      \* bound: the ids of cors_origins ever given out
          Bootstrap,    \* the wallets of ADMIN_WALLETS
          Requests,     \* bound: the requests that ever arrive
          Ops,          \* what they may ask for
          NoApp, NoKey, NoOrigin, GoneOrigin, NoOp, Nothing

Flags == {"disabled", "strict"}
AppRows == [Flags -> BOOLEAN]
KeyRows == [app : Apps, state : {"active", "revoked", "deleted"}]

OriginRows == [app : Apps, site : Sites]

\* The body of a PATCH gives some of the columns; with neither flag it renames.
Patches == UNION {[named -> BOOLEAN] : named \in SUBSET Flags}

AllOps ==
         [kind : {"create", "delete", "mint"}, by : Wallets, app : Apps]
    \cup [kind : {"patch"}, by : Wallets, app : Apps, patch : Patches]
    \cup [kind : {"revoke"}, by : Wallets, key : Keys]
    \cup [kind : {"allow"}, by : Wallets, app : Apps, site : Sites]
    \cup [kind : {"disallow"}, by : Wallets, origin : Origins]
    \cup [kind : {"addAdmin", "removeAdmin"}, by : Wallets, wallet : Wallets]
    \cup [kind : {"send"}, app : Apps, key : Keys]
    \cup [kind : {"browse"}, app : Apps, site : Sites]

ASSUME OpsAssumption == Ops \subseteq AllOps
ASSUME BootstrapAssumption == Bootstrap \subseteq Wallets
ASSUME NullAssumption ==
    /\ NoApp \notin AppRows /\ NoKey \notin KeyRows /\ NoOp \notin AllOps
    /\ NoOrigin \notin OriginRows /\ GoneOrigin \notin OriginRows

VARIABLES
    app,        \* apps table: an app's flags, or NoApp
    key,        \* api_keys table: the app and state of each secret, or NoKey
    origin,     \* cors_origins table: the row of each id, NoOrigin or GoneOrigin
    admins,     \* admins table
    op,         \* what each request asks for
    pc,         \* where each handler run waits
    got,        \* what it read: the app row of updateApp, the app of the key
    answer,     \* its response
    saw         \* history: what was true at some moment while it ran

tables == <<app, key, origin, admins>>
vars == <<app, key, origin, admins, op, pc, got, answer, saw>>

Answers == {"none", "success", "forbidden", "missing", "conflict", "error"}

Exists(a) == app[a] # NoApp
Live(k) == key[k] # NoKey /\ key[k].state = "active"
AllowedFor(a, s) == \E i \in Origins : origin[i] = [app |-> a, site |-> s]
AllowedForAny(s) == \E i \in Origins : origin[i] \in OriginRows /\ origin[i].site = s
IsAdmin(w) == w \in Bootstrap \cup admins

\* A database with apps, keys and origins of theirs, and administrators.
Init ==
    /\ app \in [Apps -> {NoApp, [f \in Flags |-> FALSE]}]
    /\ key \in [Keys -> [app : Apps, state : {"active"}] \cup {NoKey}]
    /\ \A k \in Keys : Live(k) => Exists(key[k].app)
    /\ origin \in [Origins -> OriginRows \cup {NoOrigin}]
    /\ \A i \in Origins : origin[i] # NoOrigin => Exists(origin[i].app)
    /\ \A i, j \in Origins : origin[i] # NoOrigin /\ origin[i] = origin[j] => i = j
    /\ admins \in SUBSET Wallets
    /\ op = [r \in Requests |-> NoOp]
    /\ pc = [r \in Requests |-> "waiting"]
    /\ got = [r \in Requests |-> Nothing]
    /\ answer = [r \in Requests |-> "none"]
    /\ saw = [r \in Requests |-> {}]

-----------------------------------------------------------------------------
(* What a request is about *)

\* The row it needs.
Target(o) ==
    CASE o.kind \in {"create", "delete", "mint", "patch", "allow"} -> Exists(o.app)
      [] o.kind = "revoke" -> Live(o.key)
      [] o.kind \in {"addAdmin", "removeAdmin"} -> o.wallet \in admins
      [] o.kind = "disallow" -> origin[o.origin] \in OriginRows
      [] o.kind = "browse" -> AllowedFor(o.app, o.site)
      [] o.kind = "send" -> /\ Live(o.key) /\ key[o.key].app = o.app
                            /\ Exists(o.app) /\ ~app[o.app]["disabled"]

\* The state it asks for.
Effect(o) ==
    CASE o.kind = "patch" -> Exists(o.app) /\ \A f \in DOMAIN o.patch : app[o.app][f] = o.patch[f]
      [] o.kind = "mint" -> \E k \in Keys : Live(k) /\ key[k].app = o.app
      [] o.kind = "allow" -> AllowedFor(o.app, o.site)
      [] o.kind \in {"delete", "revoke", "disallow", "removeAdmin"} -> ~Target(o)
      [] o.kind \in {"create", "addAdmin", "send", "browse"} -> Target(o)

\* The routes behind requireAdmin.
ByAdmin(o) == o.kind \notin {"send", "browse"}

Facts(o) ==
         (IF ByAdmin(o) /\ IsAdmin(o.by) THEN {"admin"} ELSE {"stranger"})
    \cup (IF Target(o) THEN {"there"} ELSE {"absent"})
    \cup (IF Effect(o) THEN {"effect"} ELSE {})

\* The history of the requests that run, after a step.
Watch ==
    saw' = [r \in Requests |->
              IF pc[r] = "done" \/ op'[r] = NoOp THEN saw[r]
              ELSE saw[r] \cup (Facts(op[r]))']

-----------------------------------------------------------------------------
(* Steps of a handler *)

Goto(r, label) == pc' = [pc EXCEPT ![r] = label] /\ UNCHANGED answer

\* The handler goes on, and keeps what it read.
Proceed(r, label) == Goto(r, label) /\ UNCHANGED got

Respond(r, a) ==
    /\ pc' = [pc EXCEPT ![r] = "done"]
    /\ answer' = [answer EXCEPT ![r] = a]
    /\ got' = [got EXCEPT ![r] = Nothing]

\* The last database call took effect; its result may get lost.
Finish(r, a) == \E b \in {a, "error"} : Respond(r, b)

\* Where the request starts.
Entry(o) ==
    CASE o.kind = "send" -> "keyAuth"
      [] o.kind = "browse" -> "preflight"
      [] OTHER -> "requireAdmin"

Arrive(r, o) ==
    /\ pc[r] = "waiting"
    /\ op' = [op EXCEPT ![r] = o]
    /\ Proceed(r, Entry(o))
    /\ UNCHANGED tables

\* Mutant of Fails: the middleware's promise rejects and nobody passes it on.
FailsUncaught(r) ==
    /\ pc[r] \notin {"waiting", "done", "hung"}
    /\ Proceed(r, "hung")
    /\ UNCHANGED <<tables, op>>

\* A database call fails: next(err), 500.
Fails(r) ==
    /\ pc[r] \notin {"waiting", "done"}
    /\ Respond(r, "error")
    /\ UNCHANGED <<tables, op>>

\* Mutant of RequireAdmin: a token that was issued is good until it expires.
RequireAdminByToken(r) ==
    /\ pc[r] = "requireAdmin"
    /\ Proceed(r, "handler")
    /\ UNCHANGED <<tables, op>>

\* requireAdmin: the token is the wallet's own, and the wallet is looked up for
\* every request.
RequireAdmin(r) ==
    /\ pc[r] = "requireAdmin"
    /\ \/ IsAdmin(op[r].by) /\ Proceed(r, "handler")
       \/ ~IsAdmin(op[r].by) /\ Respond(r, "forbidden")
    /\ UNCHANGED <<tables, op>>

-----------------------------------------------------------------------------
(* Apps *)

\* POST /apps: look first, then insert.
CreateLooks(r) ==
    /\ pc[r] = "handler" /\ op[r].kind = "create"
    /\ \/ Exists(op[r].app) /\ Respond(r, "conflict")
       \/ ~Exists(op[r].app) /\ Proceed(r, "insert")
    /\ UNCHANGED <<tables, op>>

\* The primary key turns away the second of two inserts: 500.
CreateInserts(r) ==
    LET a == op[r].app IN
    /\ pc[r] = "insert" /\ op[r].kind = "create"
    /\ \/ /\ ~Exists(a)
          /\ app' = [app EXCEPT ![a] = [f \in Flags |-> FALSE]]
          /\ Finish(r, "success")
       \/ Exists(a) /\ Respond(r, "error") /\ UNCHANGED app
    /\ UNCHANGED <<key, origin, admins, op>>

\* PATCH /apps/:appId: updateApp reads the row,
PatchReads(r) ==
    LET a == op[r].app IN
    /\ pc[r] = "handler" /\ op[r].kind = "patch"
    /\ \/ ~Exists(a) /\ Respond(r, "missing")
       \/ Exists(a) /\ Goto(r, "update") /\ got' = [got EXCEPT ![r] = app[a]]
    /\ UNCHANGED <<tables, op>>

Merged(patch, current) == [f \in Flags |-> IF f \in DOMAIN patch THEN patch[f] ELSE current[f]]

\* writes every column, into whatever row has the id by now,
PatchWrites(r) ==
    LET a == op[r].app IN
    /\ pc[r] = "update"
    /\ app' = IF Exists(a) THEN [app EXCEPT ![a] = Merged(op[r].patch, got[r])] ELSE app
    /\ Proceed(r, "reread")
    /\ UNCHANGED <<key, origin, admins, op>>

\* and reads it again for the response.
PatchRereads(r) ==
    /\ pc[r] = "reread"
    /\ Respond(r, IF Exists(op[r].app) THEN "success" ELSE "missing")
    /\ UNCHANGED <<tables, op>>

\* Mutant of KeysWithout: the foreign key of api_keys without ON DELETE CASCADE.
KeysLeft(a) == key

\* ON DELETE CASCADE
KeysWithout(a) ==
    [k \in Keys |-> IF key[k] # NoKey /\ key[k].app = a
                    THEN [app |-> a, state |-> "deleted"] ELSE key[k]]

OriginsWithout(a) ==
    [i \in Origins |-> IF origin[i] \in OriginRows /\ origin[i].app = a THEN GoneOrigin ELSE origin[i]]

\* DELETE /apps/:appId.  Its subscriptions stay.
Delete(r) ==
    LET a == op[r].app IN
    /\ pc[r] = "handler" /\ op[r].kind = "delete"
    /\ app' = [app EXCEPT ![a] = NoApp]
    /\ key' = KeysWithout(a)
    /\ origin' = OriginsWithout(a)
    /\ Finish(r, IF Exists(a) THEN "success" ELSE "missing")
    /\ UNCHANGED <<admins, op>>

-----------------------------------------------------------------------------
(* Keys *)

\* POST /apps/:appId/keys
MintLooks(r) ==
    /\ pc[r] = "handler" /\ op[r].kind = "mint"
    /\ \/ ~Exists(op[r].app) /\ Respond(r, "missing")
       \/ Exists(op[r].app) /\ Proceed(r, "insert")
    /\ UNCHANGED <<tables, op>>

\* The secret is fresh; the foreign key turns the row away when the app is gone: 500.
MintInserts(r) ==
    LET a == op[r].app IN
    /\ pc[r] = "insert" /\ op[r].kind = "mint"
    /\ \/ /\ Exists(a)
          /\ \E k \in Keys :
                /\ key[k] = NoKey
                /\ key' = [key EXCEPT ![k] = [app |-> a, state |-> "active"]]
          /\ Finish(r, "success")
       \/ ~Exists(a) /\ Respond(r, "error") /\ UNCHANGED key
    /\ UNCHANGED <<app, origin, admins, op>>

\* DELETE /keys/:id
Revoke(r) ==
    LET k == op[r].key IN
    /\ pc[r] = "handler" /\ op[r].kind = "revoke"
    /\ IF Live(k)
       THEN key' = [key EXCEPT ![k].state = "revoked"] /\ Finish(r, "success")
       ELSE Finish(r, "missing") /\ UNCHANGED key
    /\ UNCHANGED <<app, origin, admins, op>>

-----------------------------------------------------------------------------
(* Origins *)

\* POST /apps/:appId/origins
AllowLooks(r) ==
    /\ pc[r] = "handler" /\ op[r].kind = "allow"
    /\ \/ ~Exists(op[r].app) /\ Respond(r, "missing")
       \/ Exists(op[r].app) /\ Proceed(r, "insert")
    /\ UNCHANGED <<tables, op>>

\* The upsert leaves a row that is there already as it is; the foreign key turns the
\* row away when the app is gone: 500.
AllowInserts(r) ==
    LET new == [app |-> op[r].app, site |-> op[r].site] IN
    /\ pc[r] = "insert" /\ op[r].kind = "allow"
    /\ \/ /\ Exists(op[r].app)
          /\ IF AllowedFor(op[r].app, op[r].site) THEN UNCHANGED origin
             ELSE \E i \in Origins : origin[i] = NoOrigin /\ origin' = [origin EXCEPT ![i] = new]
          /\ Finish(r, "success")
       \/ ~Exists(op[r].app) /\ Respond(r, "error") /\ UNCHANGED origin
    /\ UNCHANGED <<app, key, admins, op>>

\* DELETE /origins/:id
Disallow(r) ==
    LET i == op[r].origin IN
    /\ pc[r] = "handler" /\ op[r].kind = "disallow"
    /\ origin' = IF origin[i] \in OriginRows THEN [origin EXCEPT ![i] = GoneOrigin] ELSE origin
    /\ Finish(r, IF origin[i] \in OriginRows THEN "success" ELSE "missing")
    /\ UNCHANGED <<app, key, admins, op>>

-----------------------------------------------------------------------------
(* Administrators *)

\* POST /admins is an upsert.
AddAdmin(r) ==
    /\ pc[r] = "handler" /\ op[r].kind = "addAdmin"
    /\ admins' = admins \cup {op[r].wallet}
    /\ Finish(r, "success")
    /\ UNCHANGED <<app, key, origin, op>>

\* DELETE /admins/:address
RemoveAdmin(r) ==
    /\ pc[r] = "handler" /\ op[r].kind = "removeAdmin"
    /\ admins' = admins \ {op[r].wallet}
    /\ Finish(r, IF op[r].wallet \in admins THEN "success" ELSE "missing")
    /\ UNCHANGED <<app, key, origin, op>>

-----------------------------------------------------------------------------
(* Requests with an API key *)

\* Mutant of KeyIsActive: the join with apps does not look at disabled.
KeyIsActiveByItself(k) == Live(k) /\ Exists(key[k].app)

\* findActiveApiKeyByHash
KeyIsActive(k) == Live(k) /\ Exists(key[k].app) /\ ~app[key[k].app]["disabled"]

\* apiKeyAuth: the lookup,
KeyLookup(r) ==
    LET k == op[r].key IN
    /\ pc[r] = "keyAuth"
    /\ \/ KeyIsActive(k) /\ Goto(r, "touch") /\ got' = [got EXCEPT ![r] = key[k].app]
       \/ ~KeyIsActive(k) /\ Respond(r, "forbidden")
    /\ UNCHANGED <<tables, op>>

\* touchApiKey (last_used_at is not kept), and assertAppAccess.
TouchAndServe(r) ==
    /\ pc[r] = "touch"
    /\ Respond(r, IF got[r] = op[r].app THEN "success" ELSE "forbidden")
    /\ UNCHANGED <<tables, op>>

-----------------------------------------------------------------------------
(* Requests of a page *)

\* browserCors answers the preflight; without the header the browser sends no request.
Preflight(r) ==
    /\ pc[r] = "preflight"
    /\ \/ AllowedForAny(op[r].site) /\ Proceed(r, "originCheck")
       \/ ~AllowedForAny(op[r].site) /\ Respond(r, "forbidden")
    /\ UNCHANGED <<tables, op>>

\* POST /subscriptions and POST /subscriptions/challenge look for the app's own origin.
OriginCheck(r) ==
    /\ pc[r] = "originCheck"
    /\ Respond(r, IF AllowedFor(op[r].app, op[r].site) THEN "success" ELSE "forbidden")
    /\ UNCHANGED <<tables, op>>

-----------------------------------------------------------------------------
Step(r) ==
    \/ RequireAdmin(r) \/ Fails(r)
    \/ CreateLooks(r) \/ CreateInserts(r) \/ PatchReads(r) \/ PatchWrites(r) \/ PatchRereads(r)
    \/ Delete(r) \/ MintLooks(r) \/ MintInserts(r) \/ Revoke(r)
    \/ AllowLooks(r) \/ AllowInserts(r) \/ Disallow(r) \/ AddAdmin(r) \/ RemoveAdmin(r)
    \/ KeyLookup(r) \/ TouchAndServe(r) \/ Preflight(r) \/ OriginCheck(r)

Next ==
    /\ \E r \in Requests : Step(r) \/ \E o \in Ops : Arrive(r, o)
    /\ Watch

Spec == Init /\ [][Next]_vars

\* Every handler run is continued: Node's event loop does not starve one, and every
\* database call returns or fails.
FairSpec == Spec /\ \A r \in Requests : WF_vars(Step(r) /\ Watch)

-----------------------------------------------------------------------------
TypeOK ==
    /\ app \in [Apps -> AppRows \cup {NoApp}]
    /\ key \in [Keys -> KeyRows \cup {NoKey}]
    /\ origin \in [Origins -> OriginRows \cup {NoOrigin, GoneOrigin}]
    /\ admins \subseteq Wallets
    /\ op \in [Requests -> Ops \cup {NoOp}]
    /\ pc \in [Requests -> {"waiting", "requireAdmin", "handler", "insert", "update", "reread",
                            "keyAuth", "touch", "preflight", "originCheck", "done"}]
    /\ got \in [Requests -> AppRows \cup Apps \cup {Nothing}]
    /\ answer \in [Requests -> Answers]
    /\ saw \in [Requests -> SUBSET {"admin", "stranger", "there", "absent", "effect"}]

\* Whatever a request is told was so at some moment while it ran: a success saw its
\* effect, a 404 the row missing, a 409 the row there, a 403 the caller without the
\* right; and nobody is told more than a 403 who was no administrator, had no active
\* key of that app, or came from an origin the app does not allow, all the while.
\* (A PATCH overtaken by a DELETE may answer with the row of a new app.)
AnswersAreTrue ==
    \A r \in Requests :
        /\ answer[r] = "success" => \/ "effect" \in saw[r]
                                    \/ op[r].kind = "patch" /\ "absent" \in saw[r]
        /\ answer[r] = "missing" => "absent" \in saw[r]
        /\ answer[r] = "conflict" => "there" \in saw[r]
        /\ answer[r] \in {"success", "missing", "conflict"} /\ ByAdmin(op[r]) =>
              "admin" \in saw[r]
        /\ answer[r] = "forbidden" => IF ByAdmin(op[r]) THEN "stranger" \in saw[r]
                                                        ELSE "absent" \in saw[r]

\* A wallet that was removed from the administrators before its request arrived
\* changes nothing, whatever token it still holds; one removed while its request
\* runs may still change what that request asks for.
ChangesAreAuthorised ==
    [][tables' # tables =>
          \E r \in Requests : pc'[r] # pc[r] /\ ByAdmin(op[r]) /\ "admin" \in saw[r]]_vars

\* At the moment an app is created it is closed: no key is in use and no origin allowed
\* that an app of the same id had before, however its deletion and the requests that were
\* adding to it overlapped (db.ts:66-85, repository.ts:306-309).  What is added afterwards
\* is another matter: see the README on requests that looked before.
FreshAppsAreClosed ==
    [][\A a \in Apps : ~Exists(a) /\ Exists(a)' =>
          /\ \A k \in Keys : Live(k)' => key'[k].app # a
          /\ \A s \in Sites : ~AllowedFor(a, s)']_vars

\* Every request gets a response, also when a database call of its middleware
\* fails (src/src/auth.ts:99-101).
RequestsAreAnswered ==
    \A r \in Requests : op[r] # NoOp ~> pc[r] = "done"

-----------------------------------------------------------------------------
(* What the tests say and the code does not keep when requests overlap. *)

\* test/repository.test.ts:21: "Unrelated patches must not clear the flag."
PatchKeepsTheRest ==
    [][\A r \in Requests : PatchWrites(r) /\ Exists(op[r].app) =>
          \A f \in Flags \ DOMAIN op[r].patch : app'[op[r].app][f] = app[op[r].app][f]]_vars
=============================================================================
