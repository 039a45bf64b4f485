-------------------------- MODULE ConcurrencyProofs --------------------------
(***************************************************************************)
(* mapWithConcurrency for every array length and every limit: its          *)
(* inductive invariant, the safety properties that follow from it, and the *)
(* refinement of ParallelMap.                                              *)
(***************************************************************************)
EXTENDS Concurrency, FiniteSetTheorems, TLAPS

\* Which items the cursor has handed out, and to whom.
CursorInv ==
    /\ \A w \in Workers : pc[w] # "returned" => index[w] < cursor
    /\ \A i \in Items : calls[i] = IF i < cursor THEN 1 ELSE 0
    /\ \A w \in Workers : pc[w] = "returned" => cursor = size

\* Two workers that have not returned were handed different items.
OwnerInv ==
    \A v, w \in Workers :
        v # w /\ pc[v] # "returned" /\ pc[w] # "returned" => index[v] # index[w]

\* A slot is a hole as long as nobody finished the item, and only that long.
SlotInv ==
    /\ \A i \in Items : results[i] \in {i, Hole}
    /\ \A i \in Items : i >= cursor => results[i] = Hole
    /\ \A w \in Workers : pc[w] # "returned" => results[index[w]] = Hole
    /\ \A i \in Items : i < cursor /\ results[i] = Hole =>
            \E w \in Workers : pc[w] # "returned" /\ index[w] = i

\* What the promise says of the workers.
PromiseInv ==
    /\ promise = "none" => size = 0 /\ Workers = {}
    /\ promise = "pending" =>
            /\ \E w \in Workers : pc[w] = "calling"
            /\ \A w \in Workers : pc[w] # "threw"
    /\ promise = "resolved" => \A w \in Workers : pc[w] = "returned"
    /\ promise = "rejected" => \E w \in Workers : pc[w] = "threw"

Inv == TypeOK /\ CursorInv /\ OwnerInv /\ SlotInv /\ PromiseInv

-----------------------------------------------------------------------------
\* The pool has at least one worker and never more than the limit allows.
LEMMA PoolSizeFacts ==
  ASSUME NEW l \in Int, NEW n \in Nat
  PROVE  /\ PoolSize(l, n) \in Nat /\ PoolSize(l, n) >= 1
         /\ PoolSize(l, n) <= (IF l > 1 THEN l ELSE 1)
         /\ n > 0 => PoolSize(l, n) <= n
  BY DEF PoolSize

\* The initial states satisfy the invariant.
LEMMA InitInv == Init => Inv
  BY SMTT(30) DEF Init, Inv, TypeOK, CursorInv, OwnerInv, SlotInv, PromiseInv,
            Items, Workers, Hole, PoolSize

\* Calling mapWithConcurrency on items establishes the invariant anew.
LEMMA CallInv ==
  ASSUME NEW n \in Nat, NEW l \in Int, Call(n, l)
  PROVE  Inv'
<1>1. /\ PoolSize(l, n) \in 1 .. n
  BY PoolSizeFacts DEF Call
<1>2. TypeOK'
  BY <1>1 DEF Call, TypeOK, Items, Workers, Hole
<1>3. CursorInv' /\ OwnerInv'
  BY <1>1 DEF Call, CursorInv, OwnerInv, Items, Workers
<1>4. SlotInv'
  <2>1. \A i \in 0 .. n - 1 : i < PoolSize(l, n) => i + 1 \in 1 .. PoolSize(l, n) /\ (i + 1) - 1 = i
    BY <1>1
  <2>2. ASSUME NEW i \in Items', i < cursor'
        PROVE  \E w \in Workers' : pc'[w] # "returned" /\ index'[w] = i
    <3>1. i + 1 \in Workers' /\ pc'[i + 1] # "returned" /\ index'[i + 1] = i
      BY <1>1, <2>1, <2>2 DEF Call, Items, Workers
    <3> QED BY <3>1
  <2>3. /\ \A i \in Items' : results'[i] = Hole
        /\ \A w \in Workers' : results'[index'[w]] = Hole
    BY <1>1 DEF Call, Items, Workers
  <2> QED BY <2>2, <2>3 DEF SlotInv
<1>5. PromiseInv'
  BY <1>1 DEF Call, PromiseInv, Workers
<1> QED BY <1>2, <1>3, <1>4, <1>5 DEF Inv

\* So does calling it on an empty array.
LEMMA CallOnNothingInv ==
  ASSUME NEW l \in Int, CallOnNothing(l)
  PROVE  Inv'
<1>1. PoolSize(l, 0) = 1
  BY DEF PoolSize
<1> QED
  BY <1>1 DEF CallOnNothing, Inv, TypeOK, CursorInv, OwnerInv, SlotInv, PromiseInv,
              Items, Workers, Hole

\* A worker that is calling holds an item below the cursor.
LEMMA CallingHolds ==
  ASSUME Inv, NEW w \in Workers, pc[w] = "calling"
  PROVE  /\ index[w] \in Items /\ index[w] < cursor
         /\ promise # "none" /\ promise # "resolved" /\ size > 0
<1>1. promise # "none"
  BY DEF Inv, PromiseInv
<1> QED BY <1>1 DEF Inv, TypeOK, CursorInv, PromiseInv, Items

\* A worker that takes the next item keeps it.
LEMMA PullNextInv ==
  ASSUME Inv, NEW w \in Workers, pc[w] = "calling", cursor < size,
         results' = Stored(w), PullNext(w), UNCHANGED <<size, limit>>
  PROVE  Inv'
<1>1. index[w] \in Items /\ index[w] < cursor /\ promise # "none" /\ size > 0
  BY CallingHolds
<1>2. cursor \in Items /\ cursor + 1 \in 0 .. size
  BY DEF Inv, TypeOK, Items
<1>3. TypeOK'
  BY <1>1, <1>2 DEF Inv, TypeOK, PullNext, Stored, Items, Workers
<1>4. CursorInv'
  BY <1>1, <1>2 DEF Inv, TypeOK, CursorInv, PullNext, Items, Workers
<1>5. OwnerInv'
  BY <1>1, <1>2 DEF Inv, TypeOK, CursorInv, OwnerInv, PullNext, Items, Workers
<1>6. SlotInv'
  <2>1. \A i \in Items : results'[i] = IF i = index[w] THEN i ELSE results[i]
    BY <1>1 DEF Inv, TypeOK, Stored
  <2>2. \A v \in Workers : index'[v] = IF v = w THEN cursor ELSE index[v]
    BY DEF Inv, TypeOK, PullNext
  <2>3. \A v \in Workers : pc[v] # "returned" => results'[index'[v]] = Hole
    BY <1>1, <1>2, <2>1, <2>2 DEF Inv, TypeOK, CursorInv, OwnerInv, SlotInv, Items
  <2>4. ASSUME NEW i \in Items, i < cursor', results'[i] = Hole
        PROVE  \E v \in Workers : pc[v] # "returned" /\ index'[v] = i
    <3>1. CASE i = cursor
      BY <2>2, <3>1
    <3>2. CASE i # cursor
      <4>1. i < cursor /\ i # index[w] /\ results[i] = Hole
        BY <2>4, <2>1, <3>2, <1>1 DEF PullNext, Inv, TypeOK, Items, Hole
      <4>2. PICK v \in Workers : pc[v] # "returned" /\ index[v] = i
        BY <4>1 DEF Inv, SlotInv
      <4> QED BY <4>1, <4>2, <2>2
    <3> QED BY <3>1, <3>2
  <2>5. \A i \in Items : results'[i] \in {i, Hole} /\ (i >= cursor' => results'[i] = Hole)
    BY <1>1, <2>1 DEF Inv, TypeOK, SlotInv, PullNext, Items
  <2> QED BY <2>3, <2>4, <2>5 DEF SlotInv, PullNext, Items, Workers
<1>7. PromiseInv'
  BY <1>1 DEF Inv, PromiseInv, PullNext, Workers
<1> QED BY <1>3, <1>4, <1>5, <1>6, <1>7 DEF Inv

\* A worker that finds no item left keeps it, also the last one, which settles the promise.
LEMMA ReturnInv ==
  ASSUME Inv, NEW w \in Workers, pc[w] = "calling", cursor >= size,
         results' = Stored(w), Return(w), UNCHANGED <<size, limit>>
  PROVE  Inv'
<1>1. index[w] \in Items /\ index[w] < cursor /\ promise \in {"pending", "rejected"}
  BY CallingHolds DEF Inv, TypeOK
<1>2. \A v \in Workers : pc'[v] = IF v = w THEN "returned" ELSE pc[v]
  BY DEF Inv, TypeOK, Return
<1>3. TypeOK'
  BY <1>1 DEF Inv, TypeOK, Return, Stored, Items, Workers
<1>4. CursorInv' /\ OwnerInv'
  BY <1>1, <1>2 DEF Inv, TypeOK, CursorInv, OwnerInv, Return, Items, Workers
<1>5. SlotInv'
  <2>1. \A i \in Items : results'[i] = IF i = index[w] THEN i ELSE results[i]
    BY <1>1 DEF Inv, TypeOK, Stored
  <2>2. \A v \in Workers : pc'[v] # "returned" => results'[index[v]] = Hole
    BY <1>1, <1>2, <2>1 DEF Inv, TypeOK, CursorInv, OwnerInv, SlotInv, Items
  <2>3. ASSUME NEW i \in Items, i < cursor, results'[i] = Hole
        PROVE  \E v \in Workers : pc'[v] # "returned" /\ index[v] = i
    <3>1. i # index[w] /\ results[i] = Hole
      BY <2>3, <2>1, <1>1 DEF Items, Hole
    <3>2. PICK v \in Workers : pc[v] # "returned" /\ index[v] = i
      BY <2>3, <3>1 DEF Inv, SlotInv
    <3> QED BY <3>1, <3>2, <1>2
  <2>4. \A i \in Items : results'[i] \in {i, Hole} /\ (i >= cursor => results'[i] = Hole)
    BY <1>1, <2>1 DEF Inv, TypeOK, SlotInv, Items
  <2>5. Items' = Items /\ Workers' = Workers /\ UNCHANGED <<cursor, index>>
    BY DEF Inv, TypeOK, Return, Items, Workers
  <2> QED BY <2>2, <2>3, <2>4, <2>5 DEF SlotInv
<1>6. PromiseInv'
  BY <1>1, <1>2, <1>3 DEF Inv, TypeOK, PromiseInv, Return, Workers
<1> QED BY <1>3, <1>4, <1>5, <1>6 DEF Inv

\* A call of fn that rejects keeps it.
LEMMA FnRejectsInv ==
  ASSUME Inv, NEW w \in Workers, FnRejects(w)
  PROVE  Inv'
<1>1. pc[w] = "calling" /\ promise # "none"
  BY CallingHolds DEF FnRejects
<1>2. \A v \in Workers : pc'[v] = IF v = w THEN "threw" ELSE pc[v]
  BY DEF Inv, TypeOK, FnRejects
<1>3. Workers' = Workers /\ Items' = Items /\ UNCHANGED <<size, limit, cursor, index, results, calls>>
  BY DEF Inv, TypeOK, FnRejects, Workers, Items
<1>4. TypeOK'
  BY <1>1, <1>3 DEF Inv, TypeOK, FnRejects, Items, Workers
<1>5. CursorInv' /\ OwnerInv'
  BY <1>1, <1>2, <1>3 DEF Inv, CursorInv, OwnerInv
<1>6. SlotInv'
  BY <1>1, <1>2, <1>3 DEF Inv, SlotInv
<1>7. PromiseInv'
  BY <1>2, <1>3 DEF PromiseInv, FnRejects
<1> QED BY <1>4, <1>5, <1>6, <1>7 DEF Inv

\* Every step keeps the invariant.
LEMMA NextInv == Inv /\ [Next]_vars => Inv'
<1> SUFFICES ASSUME Inv, [Next]_vars PROVE Inv'
  OBVIOUS
<1>1. ASSUME NEW n \in Sizes, NEW l \in Limits, Call(n, l) PROVE Inv'
  BY <1>1, CallInv, SizesAssumption, LimitsAssumption
<1>2. ASSUME NEW l \in Limits, CallOnNothing(l) PROVE Inv'
  BY <1>2, CallOnNothingInv, LimitsAssumption
<1>3. ASSUME NEW w \in Workers, FnResolves(w) PROVE Inv'
  BY <1>3, PullNextInv, ReturnInv DEF FnResolves
<1>4. ASSUME NEW w \in Workers, FnRejects(w) PROVE Inv'
  BY <1>4, FnRejectsInv
<1>5. CASE UNCHANGED vars
  <2>1. Workers' = Workers /\ Items' = Items
    BY <1>5 DEF vars, Workers, Items
  <2> QED BY <1>5, <2>1 DEF vars, Inv, TypeOK, CursorInv, OwnerInv, SlotInv, PromiseInv
<1> QED BY <1>1, <1>2, <1>3, <1>4, <1>5 DEF Next

\* mapWithConcurrency keeps its inductive invariant, for every array and limit.
THEOREM Invariance == Spec => []Inv
<1> QED BY InitInv, NextInv, PTL DEF Spec

-----------------------------------------------------------------------------
\* No item is started twice and no two calls in flight share one.
THEOREM AtMostOnceHolds == Spec => []AtMostOnce
<1>1. Inv => AtMostOnce
  BY DEF Inv, TypeOK, CursorInv, OwnerInv, AtMostOnce
<1> QED BY <1>1, Invariance, PTL

\* A resolved map has filled every slot with its own item's result.
THEOREM ResolvedInInputOrderHolds == Spec => []ResolvedInInputOrder
<1>1. ASSUME Inv, promise = "resolved", NEW i \in Items
      PROVE  results[i] = i
  <2>1. PICK w \in Workers : pc[w] = "returned"
    BY <1>1, PoolSizeFacts DEF Inv, TypeOK, PromiseInv, Workers
  <2>2. i < cursor /\ \A v \in Workers : pc[v] = "returned"
    BY <1>1, <2>1 DEF Inv, TypeOK, CursorInv, PromiseInv, Items
  <2> QED BY <1>1, <2>2 DEF Inv, SlotInv
<1>2. Inv => ResolvedInInputOrder
  BY <1>1 DEF ResolvedInInputOrder
<1> QED BY <1>2, Invariance, PTL

\* A function has no more values on a finite set than the set has elements.
LEMMA ImageOfFinite ==
  ASSUME NEW S, IsFiniteSet(S), NEW f
  PROVE  IsFiniteSet({f[x] : x \in S}) /\ Cardinality({f[x] : x \in S}) <= Cardinality(S)
<1> DEFINE T == {f[x] : x \in S}
           g == [x \in S |-> f[x]]
<1>1. g \in Surjection(S, T)
  BY DEF Surjection
<1> HIDE DEF T, g
<1>2. IsFiniteSet(T) /\ Cardinality(T) <= Cardinality(S)
  BY <1>1, FS_Surjection
<1> QED BY <1>2 DEF T

\* There are never more calls in flight than the limit, or one for a limit below
\* one, whatever the number of items.
LEMMA InFlightBound ==
  ASSUME Inv
  PROVE  /\ IsFiniteSet(InFlight)
         /\ Cardinality(InFlight) <= (IF limit > 1 THEN limit ELSE 1)
<1> DEFINE Calling == {v \in Workers : pc[v] = "calling"}
           k == IF promise = "none" THEN 0 ELSE PoolSize(limit, size)
<1>1. k \in Nat /\ k <= (IF limit > 1 THEN limit ELSE 1) /\ Workers = 1 .. k
  BY PoolSizeFacts DEF Inv, TypeOK, Workers
<1>2. IsFiniteSet(Workers) /\ Cardinality(Workers) = k
  <2> HIDE DEF k
  <2> QED BY <1>1, FS_Interval
<1>3. IsFiniteSet(Calling) /\ Cardinality(Calling) <= k /\ Cardinality(Calling) \in Nat
  BY <1>2, FS_Subset, FS_CardinalityType
<1>4. /\ IsFiniteSet(InFlight)
      /\ Cardinality(InFlight) <= Cardinality(Calling)
  <2>1. InFlight = {index[w] : w \in Calling}
    BY DEF InFlight
  <2> HIDE DEF Calling
  <2> QED BY <2>1, <1>3, ImageOfFinite
<1>5. Cardinality(InFlight) \in Nat
  BY <1>4, FS_CardinalityType
<1> QED
  <2> HIDE DEF k, Calling
  <2> QED BY <1>1, <1>3, <1>4, <1>5 DEF Inv, TypeOK

\* Type correctness of the worker pool, for any array lengths and limits.
THEOREM TypeCorrect == Spec => []TypeOK
<1>1. Inv => TypeOK
  BY DEF Inv
<1> QED BY <1>1, Invariance, PTL

\* What the invariant says of the calls in flight.
LEMMA BoundedFacts == Inv => BoundedInFlight
  BY InFlightBound DEF BoundedInFlight

\* The limit bounds the calls in flight of one map in every reachable state.
THEOREM BoundedInFlightHolds == Spec => []BoundedInFlight
<1> QED BY BoundedFacts, Invariance, PTL

\* The threw workers and the holes are in one-to-one correspondence once a worker
\* has returned and none is calling.
LEMMA HolesOfThrew ==
  ASSUME Inv, InFlight = {}, Threw # Workers
  PROVE  Cardinality({i \in Items : results[i] = Hole}) = Cardinality(Threw)
<1> DEFINE Holes == {i \in Items : results[i] = Hole}
           g == [w \in Threw |-> index[w]]
           k == IF promise = "none" THEN 0 ELSE PoolSize(limit, size)
<1>1. \A w \in Workers : pc[w] \in {"returned", "threw"}
  <2>1. ASSUME NEW w \in Workers PROVE pc[w] # "calling"
    <3>1. pc[w] = "calling" => index[w] \in InFlight
      BY DEF InFlight
    <3> QED BY <3>1
  <2> QED BY <2>1 DEF Inv, TypeOK
<1>2. PICK v \in Workers : pc[v] = "returned"
  BY <1>1 DEF Threw
<1>3. cursor = size /\ size \in Nat
  BY <1>2 DEF Inv, TypeOK, CursorInv
<1>4. \A w \in Threw : w \in Workers /\ pc[w] = "threw" /\ index[w] \in Holes
  BY <1>3 DEF Inv, TypeOK, CursorInv, SlotInv, Threw, Items
<1>5. \A v1, v2 \in Threw : index[v1] = index[v2] => v1 = v2
  BY DEF Inv, OwnerInv, Threw
<1>6. \A i \in Holes : \E w \in Threw : index[w] = i
  BY <1>1, <1>3 DEF Inv, SlotInv, Threw, Items
<1>7. g \in Bijection(Threw, Holes)
  <2> HIDE DEF Holes
  <2>1. g \in [Threw -> Holes] /\ \A w \in Threw : g[w] = index[w]
    BY <1>4
  <2>2. g \in Injection(Threw, Holes)
    BY <2>1, <1>5 DEF Injection, IsInjective
  <2>3. g \in Surjection(Threw, Holes)
    BY <2>1, <1>6 DEF Surjection
  <2> QED BY <2>2, <2>3 DEF Bijection
<1>8. IsFiniteSet(Threw)
  <2>1. k \in Nat /\ Workers = 1 .. k
    BY PoolSizeFacts DEF Inv, TypeOK, Workers
  <2> HIDE DEF k
  <2>2. IsFiniteSet(Workers)
    BY <2>1, FS_Interval
  <2> QED BY <2>2, FS_Subset DEF Threw
<1>9. ExistsBijection(Threw, Holes)
  <2> HIDE DEF g, Holes
  <2> QED BY <1>7 DEF ExistsBijection
<1> QED
  <2> HIDE DEF g, k, Holes
  <2>1. Cardinality(Holes) = Cardinality(Threw)
    BY <1>8, <1>9, FS_Bijection
  <2> QED BY <2>1 DEF Holes

\* What the invariant says of the holes.
LEMMA HolesFacts == Inv => HolesAreFailures
  BY HolesOfThrew DEF HolesAreFailures

\* When no call is in flight any more every hole is a call that failed, or all
\* workers are gone.
THEOREM HolesAreFailuresHolds == Spec => []HolesAreFailures
<1> QED BY HolesFacts, Invariance, PTL

\* No step changes a settled promise.
LEMMA SettledStays ==
  ASSUME Inv, Next, promise \in {"resolved", "rejected"}
  PROVE  UNCHANGED promise
<1>1. ASSUME NEW w \in Workers, FnResolves(w)
      PROVE  UNCHANGED promise
  <2>1. promise = "rejected" /\ pc[w] = "calling"
    BY <1>1, CallingHolds DEF FnResolves
  <2>2. PICK v \in Workers : pc[v] = "threw"
    BY <2>1 DEF Inv, PromiseInv
  <2>3. ASSUME Return(w) PROVE UNCHANGED promise
    <3>1. pc'[v] # "returned"
      BY <2>1, <2>2, <2>3 DEF Return, Inv, TypeOK
    <3> QED BY <3>1, <2>3 DEF Return
  <2> QED BY <1>1, <2>3 DEF FnResolves, PullNext
<1>2. ASSUME NEW w \in Workers, FnRejects(w)
      PROVE  UNCHANGED promise
  BY <1>2, CallingHolds DEF FnRejects
<1> QED BY <1>1, <1>2 DEF Next, Call, CallOnNothing

-----------------------------------------------------------------------------
(* The refinement of ParallelMap. *)

StatusBar == [i \in Items |-> StatusOf(i)]

\* What the mapped status of an item says of the workers and the array.
StatusMeaning ==
    \A i \in Items :
        /\ StatusOf(i) \in {"todo", "running", "ok", "failed"}
        /\ StatusOf(i) = "running" <=> i \in InFlight
        /\ StatusOf(i) = "todo" <=> i >= cursor
        /\ StatusOf(i) = "ok" <=> results[i] = i
        /\ StatusOf(i) = "failed" <=> \E w \in Workers : pc[w] = "threw" /\ index[w] = i

\* A promise that was made is the outcome its item statuses call for.
OutcomeMeaning ==
    promise # "none" => promise = PM!Outcome(StatusBar, "pending")

\* The abstract status of an item, read off its slot and the workers.
LEMMA StatusFacts == Inv => StatusMeaning
<1> SUFFICES ASSUME Inv, NEW i \in Items
             PROVE  StatusMeaning!(i)
  BY DEF StatusMeaning
<1>1. i \in InFlight <=> \E w \in Workers : pc[w] = "calling" /\ index[w] = i
  BY DEF InFlight
<1>2. i \in InFlight => i < cursor /\ results[i] = Hole
  BY <1>1 DEF Inv, CursorInv, SlotInv
<1>3. \A w \in Workers : pc[w] = "threw" /\ index[w] = i =>
          i < cursor /\ results[i] = Hole /\ i \notin InFlight
  BY <1>1 DEF Inv, CursorInv, SlotInv, OwnerInv
<1>4. ASSUME i < cursor, results[i] = Hole, i \notin InFlight
      PROVE  \E w \in Workers : pc[w] = "threw" /\ index[w] = i
  BY <1>1, <1>4 DEF Inv, TypeOK, SlotInv
<1>5. results[i] \in {i, Hole} /\ i # Hole /\ (i >= cursor => results[i] = Hole)
      /\ (i < cursor <=> ~(i >= cursor))
  BY DEF Inv, TypeOK, SlotInv, Items, Hole
<1> QED BY <1>2, <1>3, <1>4, <1>5 DEF StatusOf

\* The promise is what the abstract map's outcome says.
LEMMA OutcomeFacts == Inv => OutcomeMeaning
<1> SUFFICES ASSUME Inv, promise # "none"
             PROVE  promise = PM!Outcome(StatusBar, "pending")
  BY DEF OutcomeMeaning
<1>1. DOMAIN StatusBar = Items /\ \A i \in Items : StatusBar[i] = StatusOf(i)
  BY DEF StatusBar
<1>2. CASE promise = "rejected"
  <2>1. PICK w \in Workers : pc[w] = "threw"
    BY <1>2 DEF Inv, PromiseInv
  <2>2. index[w] \in Items
    BY <2>1 DEF Inv, TypeOK, CursorInv, Items
  <2>3. StatusOf(index[w]) = "failed"
    BY <2>1, <2>2, StatusFacts DEF StatusMeaning
  <2> QED BY <1>1, <1>2, <2>2, <2>3 DEF PM!Outcome
<1>3. CASE promise = "pending"
  <2>1. PICK w \in Workers : pc[w] = "calling"
    BY <1>3 DEF Inv, PromiseInv
  <2>2. index[w] \in Items /\ index[w] \in InFlight
    BY <2>1, CallingHolds DEF InFlight
  <2>3. StatusOf(index[w]) = "running"
    BY <2>2, StatusFacts DEF StatusMeaning
  <2>4. \A i \in Items : StatusOf(i) # "failed"
    BY <1>3, StatusFacts DEF StatusMeaning, Inv, PromiseInv
  <2> QED BY <1>1, <1>3, <2>2, <2>3, <2>4 DEF PM!Outcome
<1>4. CASE promise = "resolved"
  <2>1. \A w \in Workers : pc[w] = "returned"
    BY <1>4 DEF Inv, PromiseInv
  <2>2. PICK w \in Workers : TRUE
    BY <1>4, PoolSizeFacts DEF Inv, TypeOK, Workers
  <2>3. cursor = size
    BY <2>1, <2>2 DEF Inv, CursorInv
  <2>4. \A i \in Items : results[i] = i
    BY <2>1, <2>3 DEF Inv, TypeOK, SlotInv, Items
  <2>5. \A i \in Items : StatusOf(i) = "ok"
    BY <2>4, StatusFacts DEF StatusMeaning
  <2> QED BY <1>1, <1>4, <2>5 DEF PM!Outcome
<1> QED BY <1>2, <1>3, <1>4 DEF Inv, TypeOK

\* A step of a worker moves every item forward.
LEMMA StepFollows ==
  ASSUME Inv, Inv', StatusMeaning, StatusMeaning',
         NEW w \in Workers, FnResolves(w) \/ FnRejects(w), NEW i \in Items
  PROVE  PM!Follows(StatusOf(i), StatusOf(i)')
<1>1. pc[w] = "calling" /\ index[w] \in Items /\ index[w] < cursor
  BY CallingHolds DEF FnResolves, FnRejects
<1>2. Items' = Items /\ Workers' = Workers /\ cursor' \in {cursor, cursor + 1}
  BY DEF FnResolves, FnRejects, PullNext, Return, Items, Workers, Inv, TypeOK
<1>3. /\ results'[i] = results[i] \/ (i = index[w] /\ results'[i] = i)
      /\ \A v \in Workers : v # w => pc'[v] = pc[v] /\ index'[v] = index[v]
      /\ pc'[w] = "threw" => index'[w] = index[w]
  <2>1. CASE FnResolves(w)
    BY <1>1, <2>1 DEF FnResolves, PullNext, Return, Stored, Inv, TypeOK
  <2>2. CASE FnRejects(w)
    BY <1>1, <2>2 DEF FnRejects, Inv, TypeOK
  <2> QED BY <2>1, <2>2
<1>4. CASE StatusOf(i) = "todo"
  <2>1. i >= cursor /\ results[i] = Hole /\ i # index[w]
    BY <1>1, <1>4 DEF StatusMeaning, Inv, TypeOK, SlotInv, Items
  <2>2. StatusOf(i)' # "ok"
    BY <1>2, <1>3, <2>1 DEF StatusMeaning, Hole, Items, Inv, TypeOK
  <2>3. StatusOf(i)' # "failed"
    <3> SUFFICES ASSUME NEW v \in Workers, pc'[v] = "threw", index'[v] = i
                 PROVE  FALSE
      BY <1>2 DEF StatusMeaning
    <3>1. index[v] = i /\ pc[v] # "returned"
      BY <1>1, <1>3
    <3> QED BY <2>1, <3>1 DEF Inv, TypeOK, CursorInv, Items
  <2> QED BY <1>2, <1>4, <2>2, <2>3 DEF StatusMeaning, PM!Follows
<1>5. CASE StatusOf(i) = "running"
  <2>1. i < cursor
    BY <1>5, CallingHolds DEF StatusMeaning, InFlight
  <2>2. i \in Items' /\ ~(i >= cursor')
    <3>1. i \in Int /\ cursor \in Int
      BY DEF Inv, TypeOK, Items
    <3> QED BY <1>2, <2>1, <3>1
  <2>3. StatusOf(i)' # "todo"
    BY <2>2 DEF StatusMeaning
  <2> QED BY <1>5, <2>2, <2>3 DEF StatusMeaning, PM!Follows
<1>6. CASE StatusOf(i) = "ok"
  BY <1>2, <1>3, <1>6 DEF StatusMeaning, PM!Follows
<1>7. CASE StatusOf(i) = "failed"
  BY <1>1, <1>2, <1>3, <1>7 DEF StatusMeaning, PM!Follows
<1> QED BY <1>4, <1>5, <1>6, <1>7 DEF StatusMeaning

\* The items that run in the mapped state are the calls in flight.
LEMMA RunningIsInFlight ==
  Inv => PM!Running(StatusBar) = InFlight
<1> SUFFICES ASSUME Inv PROVE PM!Running(StatusBar) = InFlight
  OBVIOUS
<1>1. InFlight \subseteq Items
  BY CallingHolds DEF InFlight
<1> QED BY <1>1, StatusFacts DEF StatusMeaning, StatusBar, PM!Running

\* The abstract module counts as this one does.
LEMMA SameCardinality == \A S : PM!Cardinality(S) = Cardinality(S)
  BY DEF PM!Cardinality, Cardinality

\* Every step of the workers is a step of the abstract map.
LEMMA StepRefines == Inv /\ [Next]_vars => [PM!Next]_(PM!vars)
<1> SUFFICES ASSUME Inv, Next PROVE PM!Next
  BY DEF vars, PM!vars, StatusOf, InFlight, Workers, Items
<1>1. Inv' /\ StatusMeaning /\ StatusMeaning' /\ OutcomeMeaning /\ OutcomeMeaning'
  <2>1. Inv'
    BY NextInv
  <2>2. (Inv => StatusMeaning)' /\ (Inv => OutcomeMeaning)'
    BY StatusFacts, OutcomeFacts, PTL
  <2> QED BY <2>1, <2>2, StatusFacts, OutcomeFacts
<1>2. Cardinality(PM!Running(StatusBar')) <= PM!Cap(limit')
  <2>1. (Inv => PM!Running(StatusBar) = InFlight)'
    BY RunningIsInFlight, PTL
  <2>2. (Inv => BoundedInFlight)'
    BY BoundedFacts, PTL
  <2> QED BY <1>1, <2>1, <2>2 DEF BoundedInFlight, PM!Cap, PM!Running
<1>3. /\ DOMAIN StatusBar = Items /\ \A i \in Items : StatusBar[i] = StatusOf(i)
      /\ DOMAIN StatusBar' = Items' /\ \A i \in Items' : StatusBar'[i] = StatusOf(i)'
  BY DEF StatusBar
<1>0. promise' # "none" => promise' = PM!Outcome(StatusBar', "pending")
  BY <1>1 DEF OutcomeMeaning, PM!Outcome
<1>4. ASSUME promise = "none", promise' # "none", size' \in Sizes, limit' \in Limits,
             \A i \in Items' : StatusOf(i)' \in {"todo", "running"}
      PROVE  PM!Call
  <2>1. \E items \in {0 .. n - 1 : n \in Sizes} : StatusBar' \in [items -> {"todo", "running"}]
    <3>1. StatusBar' \in [0 .. size' - 1 -> {"todo", "running"}]
      BY <1>4 DEF StatusBar, Items
    <3>2. 0 .. size' - 1 \in {0 .. n - 1 : n \in Sizes}
      BY <1>4
    <3> QED BY <3>1, <3>2
  <2> QED BY <1>0, <1>2, <1>4, <2>1, SameCardinality DEF PM!Call, StatusBar
<1>5. ASSUME NEW n \in Sizes, NEW l \in Limits, Call(n, l)
      PROVE  PM!Call
  <2>1. \A i \in Items' : StatusOf(i)' \in {"todo", "running"}
    <3>1. \A i \in Items' : results'[i] = Hole /\ i # Hole
      BY <1>5 DEF Call, Items, Hole
    <3>2. \A v \in Workers' : pc'[v] # "threw"
      BY <1>5 DEF Call, Workers
    <3> QED BY <1>1, <3>1, <3>2 DEF StatusMeaning
  <2> QED BY <1>4, <1>5, <2>1 DEF Call
<1>6. ASSUME 0 \in Sizes, NEW l \in Limits, CallOnNothing(l)
      PROVE  PM!Call
  BY <1>4, <1>6 DEF CallOnNothing, Items
<1>7. ASSUME NEW w \in Workers, FnResolves(w) \/ FnRejects(w)
      PROVE  PM!Advance
  <2>1. promise # "none" /\ UNCHANGED <<size, limit>> /\ Items' = Items /\ promise' # "none"
    BY <1>7, CallingHolds DEF FnResolves, FnRejects, PullNext, Return, Items
  <2>2. \A i \in Items : PM!Follows(StatusOf(i), StatusOf(i)')
    BY <1>1, <1>7, StepFollows
  <2>3. promise # "resolved" /\ (promise = "rejected" => promise' = "rejected")
    BY <1>7, CallingHolds, SettledStays DEF FnResolves, FnRejects
  <2>4. promise' = PM!Outcome(StatusBar', promise)
    BY <1>0, <2>1, <2>3 DEF PM!Outcome, Inv, TypeOK
  <2>5. StatusBar' \in [DOMAIN StatusBar -> {"todo", "running", "ok", "failed"}]
    BY <1>1, <2>1, <1>3 DEF StatusMeaning, StatusBar
  <2> QED BY <1>2, <1>3, <2>1, <2>2, <2>4, <2>5, SameCardinality DEF PM!Advance, StatusBar
<1> QED BY <1>5, <1>6, <1>7 DEF Next, PM!Next

\* mapWithConcurrency implements the bounded parallel map, for every array
\* length and every limit.
THEOREM Refinement == Spec => PM!Spec
<1>1. Init => PM!Init
  BY DEF Init, PM!Init, Items
<1> QED BY <1>1, StepRefines, Invariance, PTL DEF Spec, PM!Spec
=============================================================================
