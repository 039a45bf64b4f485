----------------------------- MODULE Concurrency -----------------------------
(***************************************************************************)
(* mapWithConcurrency of src/src/concurrency.ts: a fixed pool of workers   *)
(* pulls items from a shared cursor.  The event loop runs a worker from    *)
(* one `await` to the next without interruption, so a step of a worker is  *)
(* what it does between two awaits: store the result it waited for, test   *)
(* the cursor, and start the next call or return.                          *)
(*                                                                         *)
(* fn(items[i]) is external: it settles once, with a value (written i, the *)
(* item it came from) or with an error.                                    *)
(***************************************************************************)
EXTENDS Integers, FiniteSets

CONSTANTS Sizes,    \* the lengths the input array may have
          Limits    \* the values of the `limit` argument; any integer is legal

ASSUME SizesAssumption == Sizes \subseteq Nat
ASSUME LimitsAssumption == Limits \subseteq Int

VARIABLES
    size,       \* items.length
    limit,      \* the `limit` argument
    cursor,     \* the shared index of the next item to start
    pc,         \* [Workers -> {"calling", "returned", "threw"}]
    index,      \* [Workers -> the item a worker started last]
    results,    \* the array under construction, Hole where nothing is stored
    promise,    \* the promise of the whole call
    calls       \* history: how many times fn was called on each item

vars == <<size, limit, cursor, pc, index, results, promise, calls>>

Hole == -1      \* what `new Array(n)` holds before a slot is assigned

\* Math.max(1, Math.min(limit, items.length))
PoolSize(l, n) == LET m == IF l < n THEN l ELSE n IN IF m > 1 THEN m ELSE 1

Items == 0 .. size - 1
Workers == DOMAIN pc

Init ==
    /\ size = 0 /\ limit = 1 /\ cursor = 0
    /\ pc = [w \in {} |-> "returned"]
    /\ index = [w \in {} |-> 0]
    /\ results = [i \in {} |-> Hole]
    /\ calls = [i \in {} |-> 0]
    /\ promise = "none"

\* The synchronous part of the call: every worker of the pool runs to its first
\* await, so the first PoolSize items are started at once.
Call(n, l) ==
    /\ promise = "none"
    /\ n > 0
    /\ size' = n /\ limit' = l
    /\ cursor' = PoolSize(l, n)
    /\ pc' = [w \in 1 .. PoolSize(l, n) |-> "calling"]
    /\ index' = [w \in 1 .. PoolSize(l, n) |-> w - 1]
    /\ results' = [i \in 0 .. n - 1 |-> Hole]
    /\ calls' = [i \in 0 .. n - 1 |-> IF i < PoolSize(l, n) THEN 1 ELSE 0]
    /\ promise' = "pending"

\* With no items the one worker of the pool returns without a call.
CallOnNothing(l) ==
    /\ promise = "none"
    /\ size' = 0 /\ limit' = l /\ cursor' = 0
    /\ pc' = [w \in 1 .. PoolSize(l, 0) |-> "returned"]
    /\ index' = [w \in 1 .. PoolSize(l, 0) |-> 0]
    /\ results' = [i \in {} |-> Hole]
    /\ calls' = [i \in {} |-> 0]
    /\ promise' = "resolved"

\* Mutant of Stored: results are pushed in the order they arrive.
StoredByArrival(w) ==
    LET holes == {i \in Items : results[i] = Hole}
        first == CHOOSE i \in holes : \A j \in holes : i <= j
    IN  [results EXCEPT ![first] = index[w]]

\* results[index] = await fn(...): what the worker stores when fn resolves.
Stored(w) == [results EXCEPT ![index[w]] = index[w]]

\* Mutant of PullNext: a worker moves to the item after its own.
PullNextNeighbour(w) ==
    /\ index' = [index EXCEPT ![w] = @ + 1]
    /\ calls' = [calls EXCEPT ![index[w] + 1] = @ + 1]
    /\ cursor' = cursor + 1
    /\ UNCHANGED <<pc, promise>>

\* The loop's next turn: index = cursor++, and fn is called on that item.
PullNext(w) ==
    /\ index' = [index EXCEPT ![w] = cursor]
    /\ calls' = [calls EXCEPT ![cursor] = @ + 1]
    /\ cursor' = cursor + 1
    /\ UNCHANGED <<pc, promise>>

\* Mutant of Return: the first worker that returns resolves the promise.
ReturnRace(w) ==
    /\ pc' = [pc EXCEPT ![w] = "returned"]
    /\ promise' = IF promise = "pending" THEN "resolved" ELSE promise
    /\ UNCHANGED <<index, calls, cursor>>

\* The loop's end.  Promise.all resolves when the last worker has returned.
Return(w) ==
    /\ pc' = [pc EXCEPT ![w] = "returned"]
    /\ promise' = IF \A v \in Workers : pc'[v] = "returned" THEN "resolved" ELSE promise
    /\ UNCHANGED <<index, calls, cursor>>

\* Mutant of FnResolves: the loop stops once the promise is rejected.
FnResolvesStopsOnRejection(w) ==
    /\ pc[w] = "calling"
    /\ results' = Stored(w)
    /\ \/ cursor < size /\ promise = "pending" /\ PullNext(w)
       \/ (cursor >= size \/ promise # "pending") /\ Return(w)
    /\ UNCHANGED <<size, limit>>

FnResolves(w) ==
    /\ pc[w] = "calling"
    /\ results' = Stored(w)
    /\ \/ cursor < size /\ PullNext(w)
       \/ cursor >= size /\ Return(w)
    /\ UNCHANGED <<size, limit>>

\* An error of fn ends this worker alone.  Promise.all rejects on the first
\* one; the other workers are not stopped and keep pulling items.
FnRejects(w) ==
    /\ pc[w] = "calling"
    /\ pc' = [pc EXCEPT ![w] = "threw"]
    /\ promise' = "rejected"
    /\ UNCHANGED <<size, limit, cursor, index, results, calls>>

Next ==
    \/ \E n \in Sizes, l \in Limits : Call(n, l)
    \/ 0 \in Sizes /\ \E l \in Limits : CallOnNothing(l)
    \/ \E w \in Workers : FnResolves(w)
    \/ \E w \in Workers : FnRejects(w)

Spec == Init /\ [][Next]_vars

\* As long as some call of fn is in flight one of them settles: what the code
\* assumes of its argument.  (Node then runs the worker's continuation.)
FnSettles == \E w \in Workers : FnResolves(w) \/ FnRejects(w)

FairSpec == Spec /\ WF_vars(FnSettles)

-----------------------------------------------------------------------------
TypeOK ==
    /\ size \in Nat /\ limit \in Int /\ cursor \in 0 .. size
    /\ promise \in {"none", "pending", "resolved", "rejected"}
    /\ DOMAIN pc = 1 .. (IF promise = "none" THEN 0 ELSE PoolSize(limit, size))
    /\ pc \in [Workers -> {"calling", "returned", "threw"}]
    /\ index \in [Workers -> Nat]
    /\ results \in [Items -> Items \cup {Hole}]
    /\ calls \in [Items -> Nat]

\* The items whose fn call has started and not settled.
InFlight == {index[w] : w \in {v \in Workers : pc[v] = "calling"}}

Threw == {w \in Workers : pc[w] = "threw"}

\* An item is started once at most, and two workers never hold the same one:
\* every push of a fan-out is attempted at most once (concurrency.ts:19, cursor++
\* before the await).
AtMostOnce ==
    /\ \A i \in Items : calls[i] <= 1
    /\ \A v, w \in Workers :
          v # w /\ pc[v] = "calling" /\ pc[w] = "calling" => index[v] # index[w]

\* "At most `limit` calls to fn in flight" (concurrency.ts:2), counting calls
\* that started and did not settle, also after the promise is rejected.
BoundedInFlight ==
    Cardinality(InFlight) <= (IF limit > 1 THEN limit ELSE 1)

\* When the promise resolves no item was dropped, no call is still running and
\* slot i holds the result of item i whatever order the calls finished in
\* (concurrency.ts:3, "Results are returned in input order").
ResolvedInInputOrder ==
    promise = "resolved" => \A i \in Items : results[i] = i

\* An item that was never started, or one that left a hole after all workers
\* stopped, is accounted for by a worker that threw: with one worker left, every
\* item that follows is still processed in the background of a rejected call.
HolesAreFailures ==
    (promise # "none" /\ InFlight = {}) =>
        \/ Threw = Workers
        \/ Cardinality({i \in Items : results[i] = Hole}) = Cardinality(Threw)

-----------------------------------------------------------------------------
(* The promise of ParallelMap, read off the workers. *)

StatusOf(i) ==
    IF i \in InFlight THEN "running"
    ELSE IF i >= cursor THEN "todo"
    ELSE IF results[i] # Hole THEN "ok"
    ELSE "failed"

PM == INSTANCE ParallelMap WITH Inputs <- {0 .. n - 1 : n \in Sizes},
                                status <- [i \in Items |-> StatusOf(i)]

\* mapWithConcurrency is the bounded parallel map of ParallelMap: never more than
\* `limit` calls in flight, a promise that tells the outcome of the calls, and one
\* that settles whatever the limit and whichever calls fail (concurrency.ts:1-6).
ImplementsParallelMap == PM!FairSpec
=============================================================================
