----------------------------- MODULE ParallelMap -----------------------------
(***************************************************************************)
(* What a bounded parallel map promises its caller, with no worker and no  *)
(* cursor: every item goes from "todo" to "running" to "ok" or "failed",   *)
(* at most Cap(limit) items run at once, and the promise handed back is    *)
(* resolved by the last success and rejected by the first failure.  It is  *)
(* the specification that Concurrency implements for one array, and        *)
(* Delivery for the targets of every send.                                 *)
(***************************************************************************)
EXTENDS Integers, FiniteSets

CONSTANTS Inputs,   \* the sets of items a call may be given
          Limits    \* the values the `limit` argument may have

VARIABLES limit,    \* the `limit` of the call
          status,   \* its items, each "todo", "running", "ok" or "failed"
          promise   \* "none" before the call, then "pending", "resolved", "rejected"

vars == <<limit, status, promise>>

\* A limit of zero or less still runs one item at a time.
Cap(l) == IF l > 1 THEN l ELSE 1

Running(st) == {i \in DOMAIN st : st[i] = "running"}

\* An item never goes back.
Follows(old, new) ==
    \/ new = old
    \/ old = "todo" /\ new = "running"
    \/ old = "running" /\ new \in {"ok", "failed"}

Outcome(st, old) ==
    IF old # "pending" THEN old
    ELSE IF \E i \in DOMAIN st : st[i] = "failed" THEN "rejected"
    ELSE IF \A i \in DOMAIN st : st[i] = "ok" THEN "resolved"
    ELSE "pending"

Init ==
    /\ limit = 1
    /\ status = [i \in {} |-> "todo"]
    /\ promise = "none"

Call ==
    /\ promise = "none"
    /\ limit' \in Limits
    /\ \E items \in Inputs : status' \in [items -> {"todo", "running"}]
    /\ Cardinality(Running(status')) <= Cap(limit')
    /\ promise' = Outcome(status', "pending")

Advance ==
    /\ promise # "none"
    /\ status' \in [DOMAIN status -> {"todo", "running", "ok", "failed"}]
    /\ \A i \in DOMAIN status : Follows(status[i], status'[i])
    /\ Cardinality(Running(status')) <= Cap(limit)
    /\ promise' = Outcome(status', promise)
    /\ UNCHANGED limit

Next == Call \/ Advance

Spec == Init /\ [][Next]_vars

\* Every call settles.
FairSpec == Spec /\ (promise = "pending" ~> promise \in {"resolved", "rejected"})
=============================================================================
