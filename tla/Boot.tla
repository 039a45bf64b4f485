--------------------------------- MODULE Boot ---------------------------------
(***************************************************************************)
(* Booting instances of the service on a shared database: the import of    *)
(* APP_KEYS and CORS_ORIGINS (src/src/seed.ts, called by src/src/index.ts) *)
(* in one transaction (src/src/repository.ts), next to administrators who  *)
(* create and delete apps and revoke keys through an instance that is up.  *)
(*                                                                         *)
(* Instances are replicas or a deploy that overlaps its predecessor.  One  *)
(* may crash at any point, and a statement of its transaction may fail; it *)
(* is started again (docker-compose.yml: restart: unless-stopped).         *)
(*                                                                         *)
(* An instance that is up answers requests, prunes the old rows of         *)
(* notification_logs every hour (index.ts), and drains when it is asked to *)
(* stop: it answers what it accepted and closes.  What a connection that   *)
(* is kept alive asks while the instance drains is left out.               *)
(*                                                                         *)
(* The tables are a set of rows.  Transactions are Postgres's READ         *)
(* COMMITTED: rows show when they are committed, and an insert of a unique *)
(* value that another transaction has pending waits for its end.           *)
(***************************************************************************)
EXTENDS Integers, Sequences

CONSTANTS Instances, Apps,
          EnvApps,      \* the appIds of APP_KEYS, in the order of its entries
          Retention,    \* is LOG_RETENTION_DAYS above zero?
          MaxOpen,      \* bound: an instance's requests in progress
          MaxCrashes,   \* bound: how often instances crash or statements fail
          MaxStops,     \* bound: how often instances are shut down
          MaxChanges    \* bound: how many changes administrators make

ASSUME EnvAppsAssumption ==
    /\ EnvApps \in Seq(Apps)
    /\ \A m, n \in 1 .. Len(EnvApps) : EnvApps[m] = EnvApps[n] => m = n
ASSUME RetentionAssumption == Retention \in BOOLEAN
ASSUME BoundsAssumption ==
    MaxOpen \in Nat /\ MaxCrashes \in Nat /\ MaxStops \in Nat /\ MaxChanges \in Nat

VARIABLES
    db,         \* the committed rows
    tx,         \* the rows each instance's transaction has inserted so far
    pc,         \* how far each instance has booted
    next,       \* the next statement of each instance's import
    old,        \* does notification_logs hold a row older than the retention?
    open,       \* how many requests each instance has in progress
    lost,       \* history: was a request that an instance had accepted never answered?
    crashes, stops, changes

boot == <<tx, pc, next>>
serving == <<open, lost, stops>>
vars == <<db, boot, old, serving, crashes, changes>>

\* An app, the key imported for it and the mark that it was revoked, and the
\* allow-list entries imported for it.
Rows == {"app", "key", "revoked", "origin"} \X Apps
RowsOf(a) == {"app", "key", "revoked", "origin"} \X {a}

\* The statements of the import, one per row.
Kind(n) == CASE n % 3 = 1 -> "app" [] n % 3 = 2 -> "key" [] OTHER -> "origin"
Statements == 1 .. 3 * Len(EnvApps)
Statement(n) == <<Kind(n), EnvApps[((n - 1) \div 3) + 1]>>
EnvRows == {Statement(n) : n \in Statements}

AppsIn(rows) == {r \in rows : r[1] = "app"}

Init ==
    /\ db = {}
    /\ tx = [i \in Instances |-> {}]
    /\ pc = [i \in Instances |-> "down"]
    /\ next = [i \in Instances |-> 1]
    /\ old \in BOOLEAN
    /\ open = [i \in Instances |-> 0]
    /\ lost = FALSE
    /\ crashes = 0
    /\ stops = 0
    /\ changes = 0

-----------------------------------------------------------------------------
(* main and seedFromEnv *)

Start(i) ==
    /\ pc[i] = "down"
    /\ pc' = [pc EXCEPT ![i] = "list"]
    /\ UNCHANGED <<db, tx, next, old, serving, crashes, changes>>

\* What follows the import: the prune, unless the logs are kept for ever.
Seeded == IF Retention THEN "prune" ELSE "up"

\* repo.listApps: with any app there, nothing is imported.
ListApps(i) ==
    /\ pc[i] = "list"
    /\ pc' = [pc EXCEPT ![i] = IF AppsIn(db) # {} THEN Seeded ELSE "seed"]
    /\ next' = [next EXCEPT ![i] = 1]
    /\ UNCHANGED <<db, tx, old, serving, crashes, changes>>

\* Mutant of Exit: the error is logged and the process neither exits nor listens.
ExitHangs(i) ==
    /\ pc' = [pc EXCEPT ![i] = "stuck"]
    /\ tx' = [tx EXCEPT ![i] = {}]

\* ROLLBACK, by the code or by the database when it loses the connection, and the
\* process ends.
Exit(i) ==
    /\ pc' = [pc EXCEPT ![i] = "down"]
    /\ tx' = [tx EXCEPT ![i] = {}]

\* Mutant of Insert: every statement is its own transaction.
InsertCommitting(i) ==
    LET row == Statement(next[i]) IN
    /\ pc[i] = "seed" /\ next[i] \in Statements
    /\ \/ /\ row \notin db
          /\ db' = db \cup {row}
          /\ next' = [next EXCEPT ![i] = @ + 1]
          /\ UNCHANGED <<pc, tx>>
       \/ /\ row \in db
          /\ Exit(i)
          /\ UNCHANGED <<db, next>>
    /\ UNCHANGED <<old, serving, crashes, changes>>

\* Mutant of Insert: ON CONFLICT DO NOTHING.
InsertIgnoringConflict(i) ==
    LET row == Statement(next[i]) IN
    /\ pc[i] = "seed" /\ next[i] \in Statements
    /\ \A j \in Instances \ {i} : row \notin tx[j]
    /\ tx' = [tx EXCEPT ![i] = @ \cup ({row} \ db)]
    /\ next' = [next EXCEPT ![i] = @ + 1]
    /\ UNCHANGED <<db, pc, old, serving, crashes, changes>>

\* One INSERT.  It waits for a pending row of the same app or key, and a committed
\* one is a unique violation: the transaction is rolled back and the process exits.
Insert(i) ==
    LET row == Statement(next[i]) IN
    /\ pc[i] = "seed" /\ next[i] \in Statements
    /\ \A j \in Instances \ {i} : row \notin tx[j]
    /\ \/ /\ row \notin db
          /\ tx' = [tx EXCEPT ![i] = @ \cup {row}]
          /\ next' = [next EXCEPT ![i] = @ + 1]
          /\ UNCHANGED pc
       \/ /\ row \in db
          /\ Exit(i)
          /\ UNCHANGED next
    /\ UNCHANGED <<db, old, serving, crashes, changes>>

\* COMMIT: the import shows.
Commit(i) ==
    /\ pc[i] = "seed" /\ next[i] \notin Statements
    /\ db' = db \cup tx[i]
    /\ tx' = [tx EXCEPT ![i] = {}]
    /\ pc' = [pc EXCEPT ![i] = Seeded]
    /\ UNCHANGED <<next, old, serving, crashes, changes>>

\* The prune at startup.  Whether it succeeds or fails, the server listens.
Prune(i) ==
    /\ pc[i] = "prune"
    /\ pc' = [pc EXCEPT ![i] = "up"]
    /\ \/ old' = FALSE /\ UNCHANGED crashes
       \/ crashes < MaxCrashes /\ crashes' = crashes + 1 /\ UNCHANGED old
    /\ UNCHANGED <<db, tx, next, serving, changes>>

\* Mutant of SeedFails: main goes on without the import.
SeedFailsCaught(i) ==
    /\ pc[i] \in {"list", "seed"} /\ crashes < MaxCrashes
    /\ pc' = [pc EXCEPT ![i] = "up"]
    /\ tx' = [tx EXCEPT ![i] = {}]
    /\ crashes' = crashes + 1
    /\ UNCHANGED <<db, next, old, serving, changes>>

\* A statement of the boot fails: main rejects, process.exit(1).
SeedFails(i) ==
    /\ pc[i] \in {"list", "seed"} /\ crashes < MaxCrashes
    /\ Exit(i)
    /\ crashes' = crashes + 1
    /\ UNCHANGED <<db, next, old, serving, changes>>

\* The process ends with what it has in progress: a request that it had accepted and not
\* answered is lost.
EndProcess(i) ==
    /\ Exit(i)
    /\ open' = [open EXCEPT ![i] = 0]
    /\ lost' = (lost \/ open[i] > 0)

\* The process dies, or is told to stop before it serves.
Crash(i) ==
    /\ pc[i] # "down" /\ crashes < MaxCrashes
    /\ EndProcess(i)
    /\ crashes' = crashes + 1
    /\ UNCHANGED <<db, next, old, stops, changes>>

Boot(i) == Start(i) \/ ListApps(i) \/ Insert(i) \/ Commit(i) \/ Prune(i)

-----------------------------------------------------------------------------
(* An instance that serves *)

Accept(i) ==
    /\ pc[i] = "up" /\ open[i] < MaxOpen
    /\ open' = [open EXCEPT ![i] = @ + 1]
    /\ UNCHANGED <<db, boot, old, lost, stops, crashes, changes>>

Answer(i) ==
    /\ open[i] > 0
    /\ open' = [open EXCEPT ![i] = @ - 1]
    /\ UNCHANGED <<db, boot, old, lost, stops, crashes, changes>>

\* SIGTERM or SIGINT: server.close.
Shutdown(i) ==
    /\ pc[i] = "up" /\ stops < MaxStops
    /\ pc' = [pc EXCEPT ![i] = "draining"]
    /\ stops' = stops + 1
    /\ UNCHANGED <<db, tx, next, old, open, lost, crashes, changes>>

\* Mutant of Close: process.exit(0) does not wait for server.close.
CloseAtOnce(i) ==
    /\ pc[i] = "draining"
    /\ EndProcess(i)
    /\ UNCHANGED <<db, next, old, stops, crashes, changes>>

\* server.close calls back when the last request is answered: db.end and process.exit(0).
Close(i) ==
    /\ pc[i] = "draining" /\ open[i] = 0
    /\ EndProcess(i)
    /\ UNCHANGED <<db, next, old, stops, crashes, changes>>

\* Mutant of PruneHourly: no timer after the prune at startup.
PruneHourlyNever(i) == FALSE /\ UNCHANGED vars

\* The timer's prune; one that fails is logged, and the timer goes on.
PruneHourly(i) ==
    /\ pc[i] \in {"up", "draining"} /\ Retention /\ old
    /\ old' = FALSE
    /\ UNCHANGED <<db, boot, serving, crashes, changes>>

\* A day passes.
LogsAge ==
    /\ ~old /\ old' = TRUE
    /\ UNCHANGED <<db, boot, serving, crashes, changes>>

Serve(i) == Accept(i) \/ Answer(i) \/ Shutdown(i) \/ Close(i) \/ PruneHourly(i)

-----------------------------------------------------------------------------
(* Administrators, by a request that an instance has in progress *)

Change(rows) ==
    /\ \E i \in Instances : open[i] > 0
    /\ changes < MaxChanges
    /\ changes' = changes + 1
    /\ db' = rows
    /\ UNCHANGED <<boot, old, serving, crashes>>

\* POST /apps; the insert waits for an import that has the same app pending.
CreateApp(a) ==
    /\ <<"app", a>> \notin db
    /\ \A i \in Instances : <<"app", a>> \notin tx[i]
    /\ Change(db \cup {<<"app", a>>})

\* DELETE /apps/:appId, with the cascade to keys and origins.
DeleteApp(a) == <<"app", a>> \in db /\ Change(db \ RowsOf(a))

\* DELETE /keys/:id
RevokeKey(a) ==
    /\ <<"key", a>> \in db /\ <<"revoked", a>> \notin db
    /\ Change(db \cup {<<"revoked", a>>})

-----------------------------------------------------------------------------
Next ==
    \/ \E i \in Instances : Boot(i) \/ SeedFails(i) \/ Crash(i) \/ Serve(i)
    \/ LogsAge
    \/ \E a \in Apps : CreateApp(a) \/ DeleteApp(a) \/ RevokeKey(a)

Spec == Init /\ [][Next]_vars

\* Instances are restarted and boot on; the database answers, every request is
\* answered, and the timer fires.
FairSpec ==
    /\ Spec
    /\ \A i \in Instances : WF_vars(Boot(i)) /\ WF_vars(Answer(i)) /\ WF_vars(Close(i))
    /\ \A i \in Instances : WF_vars(PruneHourly(i))

-----------------------------------------------------------------------------
TypeOK ==
    /\ db \subseteq Rows
    /\ tx \in [Instances -> SUBSET Rows]
    /\ pc \in [Instances -> {"down", "list", "seed", "prune", "up", "draining"}]
    /\ next \in [Instances -> 1 .. 3 * Len(EnvApps) + 1]
    /\ old \in BOOLEAN
    /\ open \in [Instances -> 0 .. MaxOpen]
    /\ lost \in BOOLEAN
    /\ crashes \in 0 .. MaxCrashes
    /\ stops \in 0 .. MaxStops
    /\ changes \in 0 .. MaxChanges

\* seed.ts:17-18: "a crash mid-seed must not leave a partial state that the guard
\* would then refuse to re-seed".  As long as no administrator changed anything,
\* all of the environment's apps, keys and origins are there, or nothing is.
SeedIsWhole == changes = 0 => db \in {{}, EnvRows}

\* The import never reaches into an app that exists: one that an administrator
\* created in the meantime does not get the environment's key, and a key that
\* was revoked is not imported anew beside it.
ImportLeavesAppsAlone ==
    [][\A a \in Apps : <<"app", a>> \in db /\ <<"app", a>> \in db' /\ <<"key", a>> \in db' =>
                          <<"key", a>> \in db]_vars

\* However many instances boot at a time, crash half-way and boot again, and whatever
\* administrators create, delete and revoke between their statements, those who read
\* the tables see imports that happen at once, each of them into tables that hold no
\* row of it (seed.ts:17-33, repository.ts:129-149).
Atomic == INSTANCE AtomicImport WITH EnvRows <- EnvRows
ImplementsAtomicImport == Atomic!Spec

\* No instance goes on to serve from a database that had no app when the import was
\* over, unless the environment names none.
ServesASeededDatabase ==
    [][\A i \in Instances : (pc[i] \in {"list", "seed"} /\ pc'[i] \in {"prune", "up"}) =>
                               AppsIn(db') # {} \/ EnvApps = <<>>]_vars

\* Instances that boot at the same time may trip over each other's import, and the
\* loser exits; but in the end all of them serve: a prune that fails keeps none from
\* it, and an instance that is shut down ends, to be started again.
EveryInstanceComesUp == <>[](\A i \in Instances : pc[i] = "up")

\* As long as nothing crashed or failed, every request that an instance accepted is
\* answered before the instance ends, whatever else is shut down or boots meanwhile
\* (index.ts:60-68, server.close before db.end and process.exit).
ShutdownsLoseNoRequest == lost => crashes > 0

\* Logs older than the retention go, however often a prune failed or its instance
\* was stopped before its hour came (index.ts:20-30).
OldLogsGo == Retention => (old ~> ~old)
=============================================================================
