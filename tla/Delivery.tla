------------------------------- MODULE Delivery -------------------------------
(***************************************************************************)
(* POST /notifications/send: the targets are looked up, every target is    *)
(* pushed through a bounded pool, and the outcome of each push is booked   *)
(* on the subscription's row and in the delivery log                       *)
(* (src/src/routes/notifications.ts, webpush.ts, repository.ts).           *)
(*                                                                         *)
(* A send works on the rows it read at the start.  Between that and the    *)
(* booking of an outcome browsers register and unregister, the push        *)
(* service drops channels, other sends book their own outcomes, and any    *)
(* database call may fail, before or after it took effect.                 *)
(*                                                                         *)
(* A slot <<k, e>> is the target that the k-th lookup of a send found at   *)
(* endpoint e; a job is the run of sendToOne on it.  The pool is the one   *)
(* of Concurrency, seen as ParallelMap: a job that throws costs a worker,  *)
(* rejects the send, and leaves the other workers running.                 *)
(***************************************************************************)
EXTENDS Naturals, Sequences, FiniteSets

CONSTANTS Endpoints, Users, Sends,
          Everyone,         \* the lookup of a broadcast
          NoRow,
          Queries,          \* the lists of lookups each send's body may ask for
          Limit,            \* SEND_CONCURRENCY
          MaxFailures,      \* MAX_FAILURES
          MaxId,            \* bound: how many rows are ever inserted
          DbFaults          \* whether a database call may fail

ASSUME EveryoneAssumption == Everyone \notin Users
ASSUME LimitAssumption == Limit \in Nat
ASSUME MaxFailuresAssumption == MaxFailures \in Nat /\ MaxFailures > 0
ASSUME MaxIdAssumption == MaxId \in Nat
ASSUME QueriesAssumption ==
    \A s \in Sends : \A q \in Queries[s] : q \in Seq(Users \cup {Everyone})
ASSUME DbFaultsAssumption == DbFaults \in BOOLEAN

VARIABLES
    row,        \* subscriptions table, by endpoint
    lastId,     \* the sequence behind subscriptions.id
    alive,      \* push service: does the channel still exist?
    phase,      \* where each send stands
    query,      \* the lookups of each send's body
    open,       \* the lookups not answered yet
    ident,      \* row id each slot was found with, 0 for a slot that is no target
    job,        \* the next thing each job waits for, or how it ended
    answer,     \* history: what the push service answered to each job
    log         \* notification_logs, by the job that wrote the entry

vars == <<row, lastId, alive, phase, query, open, ident, job, answer, log>>
sending == <<phase, query, open, ident, job, answer, log>>

AllQueries == UNION {Queries[s] : s \in Sends}
Positions == UNION {DOMAIN q : q \in AllQueries}
Slots == Positions \X Endpoints
Rows == [id : 1 .. MaxId, user : Users, failures : Nat, disabled : BOOLEAN]

\* An absent row is none of them.
ASSUME NoRowAssumption == NoRow \notin Rows

Ended == {"sent", "failed", "expired", "threw"}
Stages == {"none", "todo", "push", "markSuccess", "logSent", "prune", "logExpired",
           "markFailure", "logFailed"} \cup Ended

NewRow(id, u) == [id |-> id, user |-> u, failures |-> 0, disabled |-> FALSE]

\* Every channel is alive and nobody has registered yet.
Init ==
    /\ row = [e \in Endpoints |-> NoRow]
    /\ lastId = 0
    /\ alive = [e \in Endpoints |-> TRUE]
    /\ phase = [s \in Sends |-> "new"]
    /\ query = [s \in Sends |-> <<>>]
    /\ open = [s \in Sends |-> {}]
    /\ ident = [s \in Sends |-> [t \in Slots |-> 0]]
    /\ job = [s \in Sends |-> [t \in Slots |-> "none"]]
    /\ answer = [s \in Sends |-> [t \in Slots |-> "none"]]
    /\ log = [s \in Sends |-> [t \in Slots |-> <<>>]]

-----------------------------------------------------------------------------
(* Browsers and the push service *)

\* upsertSubscription: a known endpoint keeps its id and starts afresh.
Register(e, u) ==
    /\ \/ /\ row[e] # NoRow
          /\ row' = [row EXCEPT ![e] = NewRow(@.id, u)]
          /\ UNCHANGED lastId
       \/ /\ row[e] = NoRow
          /\ lastId < MaxId
          /\ lastId' = lastId + 1
          /\ row' = [row EXCEPT ![e] = NewRow(lastId + 1, u)]
    /\ UNCHANGED <<alive, sending>>

\* DELETE /subscriptions
Unregister(e) ==
    /\ row[e] # NoRow
    /\ row' = [row EXCEPT ![e] = NoRow]
    /\ UNCHANGED <<lastId, alive, sending>>

\* The browser drops the channel; the push service never revives it.
ChannelDies(e) ==
    /\ alive[e]
    /\ alive' = [alive EXCEPT ![e] = FALSE]
    /\ UNCHANGED <<row, lastId, sending>>

-----------------------------------------------------------------------------
(* POST /notifications/send: the lookups *)

\* An empty userIds passes the schema beside a userId, and asks for nobody (404).
Request(s, q) ==
    /\ phase[s] = "new"
    /\ phase' = [phase EXCEPT ![s] = IF q = <<>> THEN "nobody" ELSE "lookup"]
    /\ query' = [query EXCEPT ![s] = q]
    /\ open' = [open EXCEPT ![s] = DOMAIN q]
    /\ UNCHANGED <<row, lastId, alive, ident, job, answer, log>>

\* repo.findActive
FindActive(u) ==
    {e \in Endpoints : /\ row[e] # NoRow
                       /\ ~row[e].disabled
                       /\ u \in {Everyone, row[e].user}}

Found(s, k) ==
    [t \in Slots |-> IF t[1] = k /\ t[2] \in FindActive(query[s][k])
                     THEN row[t[2]].id ELSE ident[s][t]]

\* The k-th lookup answers; with the last one the targets are known and, unless
\* there is none (404), the pool starts.
Lookup(s, k) ==
    LET found == Found(s, k)
        targets == {t \in Slots : found[t] # 0}
    IN
    /\ phase[s] = "lookup" /\ k \in open[s]
    /\ open' = [open EXCEPT ![s] = @ \ {k}]
    /\ ident' = [ident EXCEPT ![s] = found]
    /\ IF open'[s] # {}
       THEN UNCHANGED <<phase, job>>
       ELSE /\ phase' = [phase EXCEPT ![s] = IF targets = {} THEN "nobody" ELSE "sending"]
            /\ job' = [job EXCEPT ![s] = [t \in Slots |-> IF t \in targets THEN "todo" ELSE "none"]]
    /\ UNCHANGED <<row, lastId, alive, query, answer, log>>

\* A lookup that fails rejects Promise.all: 500, and nothing is sent.
LookupFails(s) ==
    /\ DbFaults
    /\ phase[s] = "lookup"
    /\ phase' = [phase EXCEPT ![s] = "rejected"]
    /\ open' = [open EXCEPT ![s] = {}]
    /\ UNCHANGED <<row, lastId, alive, query, ident, job, answer, log>>

-----------------------------------------------------------------------------
(* sendToOne and handleError *)

Jobs(s) == {t \in Slots : job[s][t] # "none"}
Running(s) == {t \in Slots : job[s][t] \notin {"none", "todo"} \cup Ended}
Dead(s) == Cardinality({t \in Slots : job[s][t] = "threw"})
Workers(s) ==
    CASE Limit = 0 -> 1
      [] Limit > Cardinality(Jobs(s)) -> Cardinality(Jobs(s))
      [] OTHER -> Limit

\* Mutant of Goto: the promises of the workers are not awaited for their errors.
GotoUnreported(s, t, stage) ==
    /\ job' = [job EXCEPT ![s][t] = stage]
    /\ phase' = [phase EXCEPT ![s] =
                    IF \A x \in Slots : job'[s][x] \in {"none"} \cup (Ended \ {"threw"})
                    THEN "resolved" ELSE @]
    /\ UNCHANGED <<lastId, alive, query, open, ident>>

\* Mutant of Goto: a rejected send is answered again when its last job ends.
GotoSettlesAgain(s, t, stage) ==
    /\ job' = [job EXCEPT ![s][t] = stage]
    /\ phase' = [phase EXCEPT ![s] =
                    IF stage = "threw" THEN "rejected"
                    ELSE IF \A x \in Slots : job'[s][x] \in {"none"} \cup Ended THEN "resolved"
                    ELSE @]
    /\ UNCHANGED <<lastId, alive, query, open, ident>>

\* The job goes on to `stage`; the map resolves with its last result and rejects
\* with the first error, and a settled map stays settled.
Goto(s, t, stage) ==
    /\ job' = [job EXCEPT ![s][t] = stage]
    /\ phase' = [phase EXCEPT ![s] =
                    IF @ # "sending" THEN @
                    ELSE IF stage = "threw" THEN "rejected"
                    ELSE IF \A x \in Slots : job'[s][x] \in {"none"} \cup Ended THEN "resolved"
                    ELSE @]
    /\ UNCHANGED <<lastId, alive, query, open, ident>>

\* A worker that is neither busy nor dead takes the next target: those of the
\* first lookup come first, and a lookup's rows come in any order.
StartJob(s, t) ==
    /\ job[s][t] = "todo"
    /\ \A x \in Slots : job[s][x] = "todo" => t[1] <= x[1]
    /\ Cardinality(Running(s)) + Dead(s) < Workers(s)
    /\ Goto(s, t, "push")
    /\ UNCHANGED <<row, answer, log>>

Answered(s, t, what, stage) ==
    /\ job[s][t] = "push"
    /\ answer' = [answer EXCEPT ![s][t] = what]
    /\ Goto(s, t, stage)
    /\ UNCHANGED <<row, log>>

PushAccepted(s, t) == alive[t[2]] /\ Answered(s, t, "accepted", "markSuccess")
PushGone(s, t) == ~alive[t[2]] /\ Answered(s, t, "gone", "prune")      \* 404, 410

\* Mutants of PushRefused: any error is taken for a dead channel; the error is lost.
PushRefusedPrunes(s, t) == Answered(s, t, "refused", "prune")
PushRefusedIgnored(s, t) == Answered(s, t, "refused", "markSuccess")

\* Any other status, or an error of the request itself.
PushRefused(s, t) == Answered(s, t, "refused", "markFailure")

\* A database call that is to leave the row at `e` as `new`.  When it fails, it
\* may have taken effect or not.
BookOnRow(s, t, here, new, next, onFault) ==
    LET e == t[2] IN
    /\ job[s][t] = here
    /\ \/ row' = [row EXCEPT ![e] = new] /\ Goto(s, t, next)
       \/ /\ DbFaults
          /\ row' \in {row, [row EXCEPT ![e] = new]}
          /\ Goto(s, t, onFault)
    /\ UNCHANGED <<answer, log>>

BookInLog(s, t, here, status, onFault) ==
    LET written == [log EXCEPT ![s][t] = Append(@, status)] IN
    /\ job[s][t] = here
    /\ \/ log' = written /\ Goto(s, t, status)
       \/ /\ DbFaults
          /\ log' \in {log, written}
          /\ Goto(s, t, onFault)
    /\ UNCHANGED <<row, answer>>

\* Mutant of StillThere: UPDATE ... WHERE endpoint = $1.
StillThereByEndpoint(s, t) == row[t[2]] # NoRow

\* UPDATE ... WHERE id = $1: the row the send read, if it is still there.
StillThere(s, t) == row[t[2]] # NoRow /\ row[t[2]].id = ident[s][t]

\* failure_count = 0; a disabled row stays disabled.
Succeeded(s, t) ==
    IF StillThere(s, t) THEN [row[t[2]] EXCEPT !.failures = 0] ELSE row[t[2]]

\* Mutant of Failed: the count is compared before this failure is added to it.
FailedComparesOldCount(s, t) ==
    IF StillThere(s, t)
    THEN [row[t[2]] EXCEPT !.failures = @ + 1,
                           !.disabled = @ \/ row[t[2]].failures >= MaxFailures]
    ELSE row[t[2]]

\* failure_count + 1, and disabled when that reaches MAX_FAILURES.
Failed(s, t) ==
    IF StillThere(s, t)
    THEN [row[t[2]] EXCEPT !.failures = @ + 1,
                           !.disabled = @ \/ row[t[2]].failures + 1 >= MaxFailures]
    ELSE row[t[2]]

\* In the try block: an error of the bookkeeping, too, is handled as a failed push.
MarkSuccess(s, t) == BookOnRow(s, t, "markSuccess", Succeeded(s, t), "logSent", "markFailure")

LogSent(s, t) == BookInLog(s, t, "logSent", "sent", "markFailure")

\* Mutants of Prune and LogFailed: the call is not awaited, and its error is lost.
PruneUnawaited(s, t) == BookOnRow(s, t, "prune", NoRow, "logExpired", "logExpired")
LogFailedUnawaited(s, t) == BookInLog(s, t, "logFailed", "failed", "failed")

\* In handleError: an error of the bookkeeping escapes from the job.  A dead
\* channel is pruned by its endpoint, whatever row is there by now.
Prune(s, t) == BookOnRow(s, t, "prune", NoRow, "logExpired", "threw")

LogExpired(s, t) == BookInLog(s, t, "logExpired", "expired", "threw")

MarkFailure(s, t) == BookOnRow(s, t, "markFailure", Failed(s, t), "logFailed", "threw")

LogFailed(s, t) == BookInLog(s, t, "logFailed", "failed", "threw")

JobStep(s, t) ==
    \/ StartJob(s, t)
    \/ PushAccepted(s, t) \/ PushGone(s, t) \/ PushRefused(s, t)
    \/ MarkSuccess(s, t) \/ LogSent(s, t)
    \/ Prune(s, t) \/ LogExpired(s, t)
    \/ MarkFailure(s, t) \/ LogFailed(s, t)

LookupStep(s) == (\E k \in Positions : Lookup(s, k)) \/ LookupFails(s)

-----------------------------------------------------------------------------
Next ==
    \/ \E e \in Endpoints, u \in Users : Register(e, u)
    \/ \E e \in Endpoints : Unregister(e) \/ ChannelDies(e)
    \/ \E s \in Sends : \E q \in Queries[s] : Request(s, q)
    \/ \E s \in Sends : LookupStep(s)
    \/ \E s \in Sends, t \in Slots : JobStep(s, t)

Spec == Init /\ [][Next]_vars

\* The database and the push service answer every call.
FairSpec ==
    /\ Spec
    /\ \A s \in Sends : WF_vars(LookupStep(s)) /\ WF_vars(\E t \in Slots : JobStep(s, t))

-----------------------------------------------------------------------------
TypeOK ==
    /\ row \in [Endpoints -> Rows \cup {NoRow}]
    /\ lastId \in 0 .. MaxId
    /\ alive \in [Endpoints -> BOOLEAN]
    /\ phase \in [Sends -> {"new", "lookup", "nobody", "sending", "resolved", "rejected"}]
    /\ query \in [Sends -> AllQueries \cup {<<>>}]
    /\ open \in [Sends -> SUBSET Positions]
    /\ ident \in [Sends -> [Slots -> 0 .. MaxId]]
    /\ job \in [Sends -> [Slots -> Stages]]
    /\ answer \in [Sends -> [Slots -> {"none", "accepted", "gone", "refused"}]]
    /\ log \in [Sends -> [Slots -> Seq({"sent", "failed", "expired"})]]

\* No subscription that has failed MAX_FAILURES times in a row is still active,
\* whatever sends, registrations and failed writes came between the failures
\* (repository.ts:216-224).
ThresholdDisables ==
    \A e \in Endpoints :
        row[e] # NoRow /\ row[e].failures >= MaxFailures => row[e].disabled

\* The jobs of this very row whose push failed, or could not be booked, and that
\* have counted it.
FailedJobs(e) ==
    {p \in Sends \X Slots : /\ p[2][2] = e
                            /\ ident[p[1]][p[2]] = row[e].id
                            /\ answer[p[1]][p[2]] \in {"refused", "accepted"}
                            /\ job[p[1]][p[2]] \in {"logFailed", "failed", "threw"}}

\* A row is disabled only after MAX_FAILURES jobs on this very row failed: sends at
\* the same time neither count one failure twice nor book it on a row inserted since,
\* and a database call that fails counts at most once (repository.ts:215-224).
DisabledAfterFailures ==
    \A e \in Endpoints :
        row[e] # NoRow /\ row[e].disabled => Cardinality(FailedJobs(e)) >= MaxFailures

\* A row is disabled when, and only when, the sends have failed on it often enough,
\* whatever else became of it between the failures (repository.ts:208-224).
DisabledAtThreshold == ThresholdDisables /\ DisabledAfterFailures

\* The summary of a resolved send and the log agree: the last entry a job wrote
\* is the result reported for it, although a job may write two (webpush.ts:77-119).
SummaryMatchesLog ==
    \A s \in Sends : phase[s] = "resolved" =>
        \A t \in Jobs(s) : log[s][t] # <<>> /\ log[s][t][Len(log[s][t])] = job[s][t]

\* A log entry "sent" or "expired" tells what the push service answered, also
\* when database calls fail on the way.
LogTellsAnswer ==
    \A s \in Sends, t \in Slots : \A n \in DOMAIN log[s][t] :
        /\ log[s][t][n] = "sent" => answer[s][t] = "accepted"
        /\ log[s][t][n] = "expired" => answer[s][t] = "gone"

\* A target reported as expired "has been pruned" (webpush.ts:11): the
\* registration the send read is in the table no more.
ExpiredMeansPruned ==
    \A s \in Sends, t \in Slots : job[s][t] = "expired" => ~StillThere(s, t)

\* A row that a send removes belongs to a channel the push service dropped; a
\* channel that works is never pruned, not even when it is registered anew between
\* the push and the prune, which goes by endpoint (webpush.ts:103).
OnlyDeadChannelsPruned ==
    [][\A e \in Endpoints :
          (job' # job /\ row[e] # NoRow /\ row'[e] = NoRow) => ~alive[e]]_vars

\* A send books its outcomes on the registration it read: one inserted after the
\* lookup keeps its counters (the marks go by id, repository.ts:208-224).
MarksHitTheRowRead ==
    [][\A e \in Endpoints :
          (job' # job /\ row[e] # NoRow /\ row'[e] # NoRow /\ row'[e] # row[e]) =>
              \E s \in Sends, k \in Positions : /\ job'[s][<<k, e>>] # job[s][<<k, e>>]
                                              /\ ident[s][<<k, e>>] = row[e].id]_vars

\* Every send is answered, and its background jobs come to an end.
SendsAreAnswered ==
    \A s \in Sends :
        (phase[s] \in {"lookup", "sending"} \/ Running(s) # {}) ~>
        (phase[s] \in {"nobody", "resolved", "rejected"} /\ Running(s) = {})

-----------------------------------------------------------------------------
(* The pool of a send, read off its jobs *)

StatusOf(s, t) ==
    CASE job[s][t] = "todo" -> "todo"
      [] job[s][t] = "threw" -> "failed"
      [] job[s][t] \in Ended \ {"threw"} -> "ok"
      [] OTHER -> "running"

\* A send without a target has no pool, and one whose lookup failed neither.
PromiseOf(s) ==
    IF Jobs(s) = {} THEN "none"
    ELSE IF phase[s] = "sending" THEN "pending" ELSE phase[s]

Pool(s) == INSTANCE ParallelMap WITH
    Inputs <- SUBSET Slots,
    Limits <- {Limit},
    limit <- IF Jobs(s) = {} THEN 1 ELSE Limit,
    status <- [t \in Jobs(s) |-> StatusOf(s, t)],
    promise <- PromiseOf(s)

\* The jobs of every send are a bounded parallel map, the one that mapWithConcurrency
\* implements: its own SEND_CONCURRENCY bounds them, also those that go on after the
\* send was rejected; none is run twice; and the send's outcome is theirs
\* (webpush.ts:43-58, concurrency.ts:1-25).
SendsArePools ==
    /\ \A s \in Sends : Pool(s)!Init
    /\ [][\A s \in Sends : [Pool(s)!Next]_(Pool(s)!vars)]_vars
-----------------------------------------------------------------------------
(* What the README says and the code does not keep when the database fails. *)

RefusedPushes(e) == {p \in FailedJobs(e) : answer[p[1]][p[2]] = "refused"}

\* README.md:204, MAX_FAILURES: "Consecutive delivery failures before a
\* subscription is auto-disabled".
DisabledAfterRefusals ==
    \A e \in Endpoints :
        row[e] # NoRow /\ row[e].disabled => Cardinality(RefusedPushes(e)) >= MaxFailures
=============================================================================
