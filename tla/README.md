# A verified model of push-notifications

TLA+ models, TLC runs and TLAPS proofs for the push-notifications service: a
TypeScript server (`src/src/`) that stores Web Push subscriptions in Postgres
and delivers notifications to them for several apps, with a browser SDK
(`src/client/`) and an administrators' dashboard (`src/dashboard/`).  Paths below
are relative to the repository, so `routes/admin.ts` is `src/src/routes/admin.ts`.

The service is small, but nearly every hard question about it is one of
interleaving.  Node runs one step at a time, yet every handler gives up control
at each `await` on the database, and any number of handlers, on any number of
replicas (README.md:353), share the tables.  There is one transaction in the
whole code (`seed.ts`); everything else is a sequence of single statements, each
atomic, with nothing that holds the rows still in between.  The models are
therefore cut exactly at the awaits.

## 1. Inventory

| Component | State | Operations | Interacts through | Hard behaviour |
|---|---|---|---|---|
| Concurrency pool (`concurrency.ts`) | shared cursor, result slots, one promise per call | `mapWithConcurrency` | calls `fn`, called by the sender | a rejecting `fn` kills one worker and rejects the promise while the others go on; limits at and below zero |
| Registration (`routes/subscriptions.ts`, `repository.ts`) | `subscriptions` rows, one per endpoint | challenge, subscribe, unsubscribe, stats | apps table, verifier | the flag and the row are read before the write; proofs, refreshes, deletions and other users' writes interleave |
| Proof verifier (`subscription-verify.ts`) | none but each check's own (stateless challenge) | build a challenge, verify a proof | RPC of the chain, registration | windows across replicas' clocks, three kinds of signatures, an RPC whose failures look like rejections |
| Delivery (`routes/notifications.ts`, `webpush.ts`) | failure counters and flags on rows, `notification_logs` | send, read the log | pool, push service, subscriptions | works on rows read at the start; counters under concurrent sends; bookkeeping that fails after a delivery |
| Admin plane (`routes/admin.ts`) | `apps`, `api_keys`, `admins`, `cors_origins` | create, change and delete apps, mint and revoke keys, origins, administrators | all other components read these tables | check-then-act in several statements, administrators who remove each other |
| API-key authentication (`auth.ts`, `api-keys.ts`) | `last_used_at` | look up, touch, compare the app | admin plane | a key revoked while its request runs |
| Wallet sign-in (`auth-service.ts`, `jwt.ts`, `siwe.ts`, `routes/auth.ts`) | none on the server: signed payloads and tokens | payload, login, me, every request of an administrator | admins table | lifetimes across replicas' clocks, in seconds and milliseconds; administrators removed while tokens live; nonces stored nowhere |
| Boot and shutdown (`index.ts`, `seed.ts`, `config.ts`, `db.ts`) | imported rows, requests in progress | create the schema, import the environment, prune the log, serve, drain and stop | admin plane, other replicas | crash in the middle, two replicas at a time, a shutdown with requests in progress |
| Server shell (`server.ts`, `async-handler.ts`, `schemas.ts`) | none | CORS, validation, errors to responses | all routes | an async error that reaches nobody would hang its request |
| Client SDK (`client/src/index.ts`, `client/src/react.ts`) | the browser's subscription, a cached key, the hook's flags | subscribe, sync, unsubscribe | registration API, push service, other tabs and libraries | browser and server disagree after a failure or a lost answer; overlapping calls; late requests |
| Dashboard (`dashboard/src`) | token in storage, gate and wallet of each tab, view state | sign in and out, the admin API | admin plane, other tabs | answers that arrive after what they were asked for has changed |
| Demo, examples, scripts, e2e, CI | – | – | – | no logic of their own |

What makes each correct, in a sentence:

- pool: every item is started at most once, at most `limit` at a time, and a
  resolved call has every result in its own slot; a call always settles;
- registration: an app that requires signatures holds proven channels only, and
  a row becomes verified only by its own user's signature;
- verifier: a live challenge signed by its wallet is never called invalid because
  of the RPC or another check, and no proof is good for ever;
- sign-in: sessions end and last as long as payload and token say, and a token
  opens nothing for a wallet that is no administrator any more;
- delivery: failures add up on the row they happened to, disable it at the
  threshold, and only a channel the push service dropped is removed; the summary
  and the log tell what happened;
- boot: the import is there as a whole or not at all, never overrules an
  administrator, every instance comes up in the end, a shutdown leaves no request
  without its answer, and old logs go;
- admin plane: what a request is told was true at some moment while it ran, and
  only entitled callers change anything, and an app has no key and no origin at the
  moment it is created;
- client: whatever went wrong before, a call that nothing overlaps leaves browser,
  server and hook of one mind; the server never gets a channel of another service,
  and in the end sends to the browser's own only;
- dashboard: a tab shows its pages only while its token may be good, and a removed
  administrator is locked out of every tab that goes on asking.

## 2. Modules and plan

Each component has a module with its state, actions and properties, an `MC`
module with the values TLC uses, and a `Proofs` module; the dashboard's session shares
that of the admin plane, whose other side it is.

| Module | Models | Proofs |
|---|---|---|
| `ParallelMap` | what a bounded parallel map promises: abstract specification | – |
| `AtomicImport` | what importing the environment promises: one step, into tables that hold nothing of it; abstract specification | – |
| `Concurrency` | `mapWithConcurrency`; implements `ParallelMap` | `ConcurrencyProofs` |
| `Subscriptions` | registration under changing apps | `SubscriptionsProofs` |
| `Verifier` | challenges, windows on several clocks, and checks of proofs against an RPC that fails | `VerifierProofs` |
| `Login` | payloads, logins, tokens and the requests they admit, on several clocks, under a changing table of administrators | `LoginProofs` |
| `Delivery` | several sends, the push service, registrations in between, failing database calls; every send is a `ParallelMap` of its jobs | `DeliveryProofs` |
| `Boot` | instances from start to shutdown: import, prune, serving, draining, crashes; implements `AtomicImport` | `BootProofs` |
| `AdminPlane` | administrators' requests, requests with an API key, requests of a page from an origin | `AdminPlaneProofs` |
| `Client` | the SDK in several tabs, the browser, the network and the server's rows | `ClientProofs` |
| `DashboardSession` | token, gate, wallet and requests under way in several tabs, and the server that answers them | `AdminPlaneProofs` |

They were written in this order: the pool first since delivery stands on it,
then the two paths users depend on, then what feeds them, the verifier and the
sign-in, which share the idea of clocks that differ, and last the two programs
that run in browsers, against servers reduced to what a response can be.

What would come next:

1. `Verifier` composed with `Subscriptions`: a challenge presented again within
   its window, after the row changed hands.
2. An abstract registry (endpoint to proven or unproven channel) that
   `Subscriptions` implements.
3. The overlapping loads of the dashboard's pages.

## 3. How the models correspond to the code

**Concurrency.** A worker of the code is an element of `Workers`; a step of it is
what it does from one await to the next: store the result, test the cursor,
start the next item or return (`FnResolves`), or leave by the exception
(`FnRejects`).  `Call` is the synchronous part of the call, in which every worker
starts its first item.  Results are written as the item they came from, so a
result in a wrong slot shows.  `StatusOf` reads the abstract status of an item
off the cursor, the slots and the workers: the refinement mapping to
`ParallelMap`.

**Subscriptions.** The actions `ReadApp`, `Verify`, `ReadExisting` and `Upsert`
are the parts of POST /subscriptions between its awaits; `path` remembers which
branch let it through, and `Fails` is a database call that throws at any of
them (asyncHandler answers 500).  `DeleteByEndpoint` is both DELETE /subscriptions and the
sender's prune; `CreateApp`, `UpdateApp`, `DeleteApp` are the admin plane as
registration sees it.  The verifier is its comparison of the signed channel
(`Bound`) and its possible answers; the rest of it is `Verifier`.  `proved` and `everOpen` are history.
Reading the allow-list of origins and parsing the body happen before `Arrive`.

**Verifier.** The server keeps no challenge; it is a payload that some replica
built at some time (`Challenge`), and `Presentable` are all of those up to now
together with payloads a caller made up.  `now` is true time and each replica's
clock is `ahead` of it by up to `Skew`; Node reads its clock once in each of the
two functions.  `Check` is verifyProof up to viem's call, with everything that is decided
offline; `ChainAccepts`, `ChainRejects` and `RpcFails` are what viem's call comes
to, and `Decide` is the rest of the handler, which reads the failure its own
watched transport recorded.  viem and the chain are external: a request fails
in one of four ways (unreachable, timed out, over a limit, the node's own
error), viem gives up at the first one that does, and without a failed request
its answer is the contract's.  A retry inside the transport is part of its request.
`built`, `began` and `rpc` are history.

**Login.** As in `Verifier`, the server keeps nothing: payloads are what some
replica built at some time (`Presentable`, with made-up ones), a token is what a
login stored in `token`, and only what its answer handed out (`HandedOut`) can be
used.  `SignIn` is POST /login and `Call` is GET /me or requireAdmin, both up to
the query of the admins table; `Lookup` and `LookupFails` are the rest, and a
bootstrap administrator needs no query.  `Live` compares in ticks and `Valid` in
whole seconds, as the code does with milliseconds and seconds.  A date that is
missing is no bound, and neither is one that does not parse (comparisons with NaN are
false).  `at` and `entitled` are history.

**Delivery.** A send looks its targets up (`Lookup`, one query per user named,
`LookupFails`), then each target is a job that goes through the stages of
`sendToOne` and `handleError`: push, mark, log, with the push service's answer
chosen among accepted, gone (404, 410) and refused.  `BookOnRow` and `BookInLog`
are a database call that succeeds, fails before it took effect, or fails after;
where the failure leads is an argument, since the code's try block makes that
the interesting part.  Rows have ids, so that marks by id and prunes by endpoint
differ.  The pool is used by its abstract promise: `Workers` bounds the running
jobs, a job that throws costs a worker and rejects the send.  That this is the promise
of `ParallelMap`, which `Concurrency` keeps, is `SendsArePools`: `StatusOf` and
`PromiseOf` read an item's status and the promise off the jobs of one send.

**Boot.** One instance boots by `Start`, `ListApps`, one `Insert` per row of the
environment, `Commit`.  Pending rows are in `tx`; an insert waits for another
transaction's pending row of the same key and fails on a committed one, as
Postgres does at its default isolation.  `Exit` is the rollback together with
`process.exit(1)`; `SeedFails` gets there too.  `EndProcess` is the end of a process with
whatever it has in progress, by a `Crash` or by its own `Close`: what was not answered is
`lost`, a history variable that both write.  After the import an
instance prunes the log (`Prune`, whose failure is caught) and serves: `Accept` and
`Answer` count the requests in progress, `Shutdown` is server.close, `Close` its
callback, whose guard is what server.close waits for, and `PruneHourly` the timer.  `Atomic` maps the tables to `AtomicImport`.  Of notification_logs only counts whether it
holds a row older than the retention (`old`).  Administrators change things through
an instance that has a request in progress.  Left out: what a connection that is kept
alive asks while its instance drains, and the workers of a rejected send, which go on
against a pool that has ended (their bookkeeping then fails, as in `Delivery`).

**AdminPlane.** A request arrives with what it asks for (`op`), passes
`RequireAdmin`, `KeyLookup` or `Preflight`, and takes the steps of its handler.  `got` is what
the handler holds in a local variable across an await.  `saw` is history: for
every request the facts - the caller is an administrator, the row it needs is
there or absent, the state it asks for holds - that were true after some step
while it ran.  Any database call may fail (`Fails`, and `Finish` for a result
that gets lost after the effect).

**Client.** A call of the hook is a number; `pc` is the await it waits at, and its
locals are `key`, `got` (its subscription) and `req` (its request, which may outlive
it: a tab that is closed, or a lost answer, leaves the request to arrive later or
never).  `Answer` to `Receive` are the parts of subscribe() and unsubscribe() between
two awaits; `Rejects` is any of them failing.  Two of them wait for the user and are places
of their own (`Prompts`): the browser's permission (`Answer`) and the wallet's signature
(`Sign`, with the challenge that comes before it).  The server's handlers are single steps
(`Handled`): their own interleavings are those of `Subscriptions`.  The browser has one
subscription per registration, which a user, the browser or another library may end or
make (`Environment`); `Prune` is what the first push to a dead channel does to its row,
if the row is sent to at all: `Active` is the condition of findActive, and `Disable` the last
of MAX_FAILURES refusals.  `alone` is history: the call since whose begin nothing else has moved.

**DashboardSession.** `Turn` is what React makes of one event in a tab: the new token,
wallet and gate, and the requests that effects and freshly shown pages send with what is
stored by then.  `HearApi`, `HearMe` and `HearLogin` are the continuations of the three kinds of
requests; they run whatever happened since they were sent.  `Decide` is the server's
part in one step (its own steps are in `Login` and `AdminPlane`): /auth/me looks at the
token only, the admin API at the list as well.  Wallets are thirdweb's and are modelled
from how App.tsx uses them.  `cleared` is history.

Left out everywhere: payloads, names, labels, user agents, wording of errors,
timestamps except as "set or not".  A user, an app, an endpoint or a key is a
model value; a wallet address is taken case-insensitively as one value.

## 4. Runs

All of them use small sets of values, with symmetry where no liveness property is
checked.  `CHECK_DEADLOCK FALSE` stands where a bounded environment runs out (every
send done, every request answered, no event left); registration never stops and
is checked for deadlock.

| Run | Question | Bounds | Distinct states |
|---|---|---|---|
| `concurrency` | the pool's three invariants, and that it implements `ParallelMap`, the limit and the settling included | 0 to 4 items, limits -1 to 5: fewer, as many and more workers than items, and every combination of failing calls | 530 |
| `subscriptions` | strict apps hold proven channels; verification is earned; requests are answered; a flag that stays on is enforced in the end | 2 apps, 2 wallets, 2 requests at once and any number in sequence, all for one endpoint (proofs may name another): one endpoint is where they meet, and two requests are all a race between a check and a write needs.  `Arrivals` are ten bodies: without a proof, with the right one, and with one for another user, app or endpoint | 412,966 |
| `verifier` | good proofs are not invalid, challenges expire, unavailable has a cause | 2 checks of an ordinary wallet and a contract on 2 replicas; a lifetime of 2 ticks, clocks 1 apart and 4 ticks of time, so that every challenge is presented before, at and after each end of its window by either clock | 2,555,413 |
| `login` | sessions end, live sessions last, only administrators enter | 2 requests - two logins, or a login and a call - of a bootstrap administrator and another wallet, on 2 replicas; payloads of 1 tick, tokens of 2 seconds of 2 ticks, clocks 1 tick apart and 5 ticks of time, so that payloads and tokens are used on both sides of their end by either clock | 1,574,596 |
| `delivery` | counters, marks, log and summary of sends that overlap and whose database calls fail; every send is a bounded parallel map of its jobs, is answered, and its jobs end | 1 endpoint, 1 user, 2 sends - one names its user twice, or nobody, and has two workers; the other is a broadcast -, threshold 2, 2 rows in sequence: three jobs on one row, enough for two failures and one booking that comes too late, and for a failure that kills one worker or both | 624,097 |
| `boot` | the import is `AtomicImport` under crashes and administrators; all instances serve in the end; shutdowns lose no request; old logs go | 2 instances, 2 imported apps and one foreign, 2 crashes or failures, 1 shutdown, 1 request in progress per instance, 3 changes: one transaction can be interrupted at each of its six statements, by the other instance as well, and an instance can stop while the other boots | 204,368 |
| `admin` | answers are true, changes are authorised, apps are closed when they are created, every request is answered | any 2 of 17 requests by 2 wallets, neither a bootstrap administrator: every operation on one app, one key, one origin and the list of administrators, a sender with the key and a page.  Two requests are what a check and a write that overtake each other need | 621,720 |
| `client` | calls heal and end what they should, only own channels, a spinner has a call, calls settle unless a prompt stays open, the server ends sending to live channels only | 2 calls of 2 tabs, or of one, by 2 users, 2 server keys and a foreign one, 2 channels, 1 event of the environment: a failed or late call and the one that has to make good for it | 1,379,215 |
| `session` | a tab's own refusals close its gate; removed administrators leave | 2 tabs, 2 tokens, 2 requests per tab under way, 1 event (a change of the list, an expiry, a failed request, a reload); one tab's answer meets the other's token, and two answers in one tab come in either order | 1,101,590 |

The larger runs take one to three minutes with two workers.  The bounds named in the
modules: `MaxId` (rows ever inserted) and the finite set of sends in `Delivery`;
`MaxOpen`, `MaxCrashes`, `MaxStops` and `MaxChanges` in `Boot`; `Requests` (each arrives
once) and `Ops` in `AdminPlane`; `Arrivals` in `Subscriptions`; `Checks` and `MaxTime` in
`Verifier`; `Requests` and `MaxTime` in `Login`; `Sizes` and `Limits` in `Concurrency`;
`MaxTabs`, `MaxCalls`, `MaxEndpoint` and `MaxEvents` in `Client`; `MaxLogins`, `MaxCalls` and
`MaxEvents` in `DashboardSession`.  The proofs do not depend on any of their values.

`SendsArePools` states the whole promise of `ParallelMap`, of which this run reaches
all but the limit: no send of it has more jobs than workers.  The limit is checked by the
run of `Concurrency`, where it binds, and proved for both.

The type invariants are proved rather than run.

### Where documentation and code part

Three runs expect a violation; each is a statement of a document, a comment or a
test that overlapping or repeated calls refute.

| Run | Statement | What happens |
|---|---|---|
| `verified_at_user` | types.ts:49: `verifiedAt` is set "when the subscriber proved control of `userId`" | a later unsigned write for another user, who never signed for any channel, keeps the timestamp (repository.ts:168); the property compares users only, whichever app and endpoint was signed for |
| `delivery_miscount` | README.md:204: "Consecutive delivery failures" | a delivered push whose bookkeeping fails counts as a failure (webpush.ts:77-89) |
| `admin_lost` | repository.test.ts:21: "Unrelated patches must not clear the flag." | two overlapping PATCH requests: the later write restores the flags as it had read them (repository.ts:294-302) |

Seen while modelling, without a run of their own:

- a channel deleted between the check of an unsigned refresh and its upsert comes
  back without `verified_at` (routes/subscriptions.ts:79-89), so "COALESCE preserves
  the prior timestamp" holds only while the row is there;
- SEND_CONCURRENCY limits the pushes of one request, not those of the process
  (webpush.ts:48);
- the environment is imported whenever the apps table is empty (seed.ts:13, as its
  comment says), so a restart after the last app was deleted imports APP_KEYS
  again, revoked keys included; the design document speaks of "first boot";
- the nonce of a payload is called single-use (siwe.ts:56) but stored nowhere: a
  signed payload logs in again until it expires.  `SessionsEnd` bounds what follows
  from that;
- react.ts:28 calls `loading` "true while subscribe()/unsubscribe() is in flight"; of two
  overlapping calls of one hook the first to end sets it to false.  What holds is the
  converse, `SpinnerHasACall`;
- react.ts:40 says that changing `userId` re-creates the client, but the memo depends on
  the connection options only; nothing follows, since the client keeps no user.  The hook's
  `permission` is set after a successful subscribe() only, so it stays behind a prompt that
  was denied;
- a PushClient keeps the VAPID key it fetched; after the server's key changed, subscribe()
  in a tab that is still open registers a channel that the server cannot push to, until the
  page is loaded again (`SubscribeHeals` therefore speaks of the key its client holds);
- index.ts:215 says that a failed delete "self-heals via 410-pruning".  It does for a row that is
  sent to; findActive (repository.ts:193-202) leaves out a row that MAX_FAILURES refusals have
  disabled, so when its channel goes nobody finds out and the row stays.  `EndsWithLiveRows` therefore speaks of the rows that are
  not disabled;
- POST /apps/:appId/keys and /origins look for the app and insert later (routes/admin.ts:48-61,
  74-79): when the app is deleted and a new one of the same id created in between, the key or
  the origin is the new app's.  An administrator asked for it, of the old app;
  `FreshAppsAreClosed` is about the moment of creation only, and this is not excluded by it;
- a PATCH that is overtaken by a deletion and a new app answers with the new app's row, which
  it never wrote (repository.ts:303); `AnswersAreTrue` lets it;
- unsubscribe() waits for a service worker and registers none, so without one it
  waits for ever (`CallsSettle` says so);
- the dashboard clears whatever token is stored when a 401 or 403 arrives, also one that a
  sign-in stored after the refused request was sent: the fresh session ends with the old
  one.  It errs on the closed side;
- the answer of /auth/me to a request sent before a disconnection may arrive after it and
  open the gate of a tab without a token, if its wallet is connected again by then.  The
  first request of the page it shows is refused and closes it: `OwnRefusalsCloseTheGate` is
  about what remains of this in the end;
- any answer of /auth/me but a 2xx closes the gate, also a 500 while the token is good; the
  token stays, and a reload opens the gate again;
- AppDetail.tsx loads its lists without regard to the order of the answers, so a toggle and a load
  that overlap may leave the checkbox showing the former flag.

## 5. Fairness

Liveness is checked under weak fairness of each component's own steps, never of
its environment:

- `Concurrency`: some call in flight settles (what the code asks of its `fn`);
- `Subscriptions`, `AdminPlane`: every handler that can take a step takes one -
  Node's event loop is not starved, and a database or verifier call returns (in
  `AdminPlane`: or fails; which of the two is not assumed);
- `Delivery`: for every send its lookups, and some job of it, go on; the push
  service answers;
- `Boot`: every instance boots on, which includes being started again:
  docker-compose.yml has `restart: unless-stopped`.  Requests in progress are answered, a
  drained server closes, and an instance's hourly timer fires.  Crashes and shutdowns
  are bounded;
- `Client`: promises of the browser and of fetch settle (`Step` includes `Rejects`), except
  those that wait for the user (the permission's prompt and the wallet's, `Answer` and `Sign`,
  which may stay open for ever) or for a worker that nobody registers; the service goes on
  sending, so that every row that is not disabled is tried (`Prune`).  A request that reaches the
  server late has no fairness: it may be lost;
- `DashboardSession`: for each tab and kind of request the server goes on answering, and the
  tab hears the answers.  Nobody has to click, connect or sign in;
  `RemovedAdministratorsLeave` says in its premise that the tab goes on asking.

Administrators, users, browsers, the push service ending a channel, crashes and failing
calls have no fairness.

## 6. Proofs

TLAPS proves the following for all values of the constants, from the named
assumptions only (sets of lengths are natural numbers, null values are none of
the rows, bounds are natural numbers, the environment names an app once).

- **Concurrency.** `Inv` says how cursor, workers, slots and promise hang
  together: every item below the cursor is with exactly one running worker,
  stored, or lost by a worker that threw; no two running workers share an item;
  the promise is pending exactly as long as nobody threw and somebody runs.
  None of the properties is inductive without it.  It gives `AtMostOnce`,
  `BoundedInFlight` (the workers are a finite set no larger than the pool),
  `ResolvedInInputOrder`, `HolesAreFailures` (the workers that threw and the holes they
  left are in bijection, so they are as many), type correctness, and `Refinement`: every step of the workers is a step
  or a stutter of `ParallelMap`, in which a settled promise never changes.
- **Subscriptions.** `StrictAppsHoldProvenChannels` is strengthened by what a
  handler that has passed its check knows: one about to write on the open path
  has an app that was open at some time, one on the proof or refresh path has a
  proven channel - the refresh because the row it read was proven and history
  only grows, whatever became of the row since.  `VerificationIsEarned` follows
  as an action property.  Two theorems are about an app that was open before its flag
  was turned on, for which `StrictAppsHoldProvenChannels` says nothing:
  `OpenWritesOnlyDrain`, by which no request is newly let through without a check while
  the flag is on (the safety half of `FlagIsEventuallyEnforced`), and
  `CleanAppsStayClean`, by which it is then enough to look at the rows and the writes
  that are left: once those are proven, they stay so.
- **Verifier.** An undecided check has a sound proof that was fresh by some
  clock, its `rpcFailure` is what its own request came to, and a clock is never
  more than `Skew` ahead; from these follow `GoodProofsAreNotInvalid`,
  `ChallengesExpire` and `UnavailableHasACause` for every lifetime, skew and
  number of checks.
- **Login.** A request that is past its token was measured on some replica's clock:
  a login by the window of its payload, a call by the token of a login that is
  over and does not change any more.  `SessionsEnd` and `LiveSessionsLast` follow by
  arithmetic with the rounding of seconds, for every length of a second, lifetime
  and skew; `OnlyAdministratorsEnter` needs that a lookup under way knows whether
  its wallet is in the table.
- **Delivery.** The invariant ties each job's stage to the push service's answer
  and to the last log entry, and bounds the ids of the rows and of the slots by
  the last id handed out; from it follow `SummaryMatchesLog`,
  `LogTellsAnswer`, `ExpiredMeansPruned`, `OnlyDeadChannelsPruned` and
  `MarksHitTheRowRead`.  A prune by endpoint is safe because a dead channel never
  comes back and nobody can register it; an expired row stays away because ids
  are handed out once.  `DisabledAtThreshold` has two halves: `ThresholdDisables`, and
  `DisabledAfterFailures`, which needs a count: `CountInv` says that a row's
  counter is at most the number of jobs that failed on this very row.  A step that adds one
  to the counter adds its own job to them, no step takes one away while the row keeps its
  id, and only finitely many jobs have ever counted.  `SendsArePools` needs an invariant of
  its own, `PoolInv`: the jobs of a send are finitely many and none before its lookups are
  done, those that run and those that killed their worker are together no more than its
  workers, and a send that waits has a job that has not ended.  It also gives
  `NoSendStalls`: a send that waits has a job that runs, or one to start and a worker that
  is free to take it.
- **Boot.** A transaction's pending rows are a prefix of the environment's
  script, and no two transactions hold the same pending row; this is what makes
  the commit add all of the environment's rows at once.  Since an insert fails on a
  committed row, a transaction that gets to its commit found none of its rows in the
  tables, whatever it read before: `AtomicImportRefined` is the refinement of
  `AtomicImport`.  `OneImportAtATime` says why imports never wait for each
  other in a circle: a transaction that has anything pending holds the first row of the
  script.  `ServesASeededDatabase` is an action property of the same invariant.  `ShutdownsLoseNoRequest`
  is proved from the guard of `Close`: a process ends with requests in progress by a crash
  only.
- **AdminPlane.** `ReqInv` says of a single request what its program counter
  tells of the facts it saw.  It does not mention the tables, and history only
  grows, so no other request can break it; each kind of step is then looked at
  once, for its own request.  `AnswersAreTrue` and `ChangesAreAuthorised` follow.
  `KeysHaveApps` and `OriginsHaveApps` (parts of the invariant: no key is in use,
  and no origin allowed, whose app is gone) give `FreshAppsAreClosed`, which speaks of the
  step that creates the app.  `OneRevokes`
  needs that a key that is out of use never returns.  `FlagsChangeByPatch` is an action
  property of the same invariant.
- **DashboardSession** (in `AdminPlaneProofs`).  `OwnRefusalsCloseTheGate` speaks of a tab
  with no request under way; `SessionInv` says what such a tab has ahead of it before: a tab
  that emptied the storage itself, and still shows its pages, has a request without a
  token under way, or answered, and no answer to it lets it in.  The page it opens sends
  this request, so a gate that an answer of /auth/me opens again is covered.
- **Client.** Two invariants.  `Own` needs no history: every channel that a call holds to
  send, or to sign for, and every row of the server, was made under a key of the server's.  `Plans` speaks
  of a call that nothing overlapped: what it read - permission, key, subscription - is
  still so at each of its awaits, the wallet's prompt included, and a request of it that was
  answered took effect.
  `SubscribeHeals` and `UnsubscribeEnds` are what it says where the call resolves or
  throws; the starting state is arbitrary, so they hold after any failure before.

Checked by TLC only: what must happen in the end, since fairness and ENABLED are out of the
prover's reach - `FlagIsEventuallyEnforced`, `RequestsAreAnswered` (registration and admin
plane), `SendsAreAnswered`, `EveryInstanceComesUp`, `OldLogsGo`, `CallsSettle`,
`EndsWithLiveRows`, `RemovedAdministratorsLeave`, and the liveness of
`ImplementsParallelMap`, whose steps are proved as `Refinement` - and the three violations.
Induction over data and recursive operators are beyond the prover as well; no module
needs either.

## 7. Not modelled

- Cryptography (VAPID, payload encryption, HMAC, signature recovery): the models
  take its results.
- What viem does inside one call of verifyMessage: its outcomes are modelled.
- The client's server helper (`client/src/server.ts`: one request per call, no state) and the
  service worker (a notification per push, a window per click).
- The dashboard's pages: what they load and show, and the banner of a wallet that is not
  on the list.
- adminCors, request validation, configuration parsing: no state changes.  The
  values a missing validation lets through (a limit that is no number) are
  listed as hazards.
- The service's own key (ADMIN_API_KEY) passes without a look at a table; the
  requests it makes are those of `Delivery`.
- The demo, the examples, the scripts, the end-to-end test and the CI files: no logic
  of their own.
