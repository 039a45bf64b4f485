---------------------------- MODULE VerifierProofs ----------------------------
(***************************************************************************)
(* For any wallets, replicas, clocks within Skew of each other and any     *)
(* number of checks at once: what a verdict means.                         *)
(*                                                                         *)
(* A check's freshness is settled when it begins, by the clock of the      *)
(* replica it runs on; CheckOK keeps what that says in true time while     *)
(* the chain is asked, and that the error a check decides by is one of its *)
(* own requests.                                                           *)
(***************************************************************************)
EXTENDS Verifier, TLAPS

\* The dates of a challenge are those of the clock of the replica that built it.
BuiltAt(p, t) ==
    /\ p.built \in Nat /\ p.built <= t
    /\ \E r \in Replicas : /\ p.from = p.built + ahead[r] - TTL
                           /\ p.until = p.built + ahead[r] + TTL

\* On some replica it was within its window; on some replica it was not.
FreshSomewhere(p, t) == \E r \in Replicas : Fresh(p, t + ahead[r])
StaleSomewhere(p, t) == \E r \in Replicas : ~Fresh(p, t + ahead[r])

\* What the place of a check tells of its proof, its times and its RPC requests.
Begun(v) ==
    /\ proof[v] \in Proofs
    /\ began[v] \in Nat
    /\ proof[v].payload.built # NoTime => BuiltAt(proof[v].payload, began[v])

Waiting(v) ==
    /\ Bound(proof[v]) /\ ~Recovers(proof[v])
    /\ FreshSomewhere(proof[v].payload, began[v])

RpcEnded(v) ==
    \/ rpc[v] = "answered" /\ rpcFailure[v] = "none" /\ ~Genuine(proof[v])
    \/ rpc[v] \in RpcErrors /\ rpcFailure[v] = rpc[v]

Meaning(v) ==
    /\ verdict[v] = "true" =>
          Genuine(proof[v]) /\ FreshSomewhere(proof[v].payload, began[v])
    /\ verdict[v] = "unavailable" => Unavailable(rpc[v]) /\ ~Recovers(proof[v])
    /\ verdict[v] = "false" =>
          \/ ~Genuine(proof[v]) \/ ~Bound(proof[v]) \/ rpc[v] = "error"
          \/ StaleSomewhere(proof[v].payload, began[v])

CheckOK(v) ==
    /\ pc[v] # "idle" => Begun(v)
    /\ pc[v] \in {"idle", "viem"} => rpcFailure[v] = "none" /\ rpc[v] = "none"
    /\ pc[v] \in {"viem", "rejected"} => Waiting(v)
    /\ pc[v] = "rejected" => RpcEnded(v)
    /\ pc[v] = "done" => Meaning(v)

Inv == TypeOK /\ \A v \in Checks : CheckOK(v)

-----------------------------------------------------------------------------
\* What may be presented is a payload, and one of the server's was built before.
LEMMA PresentableFacts ==
  ASSUME TypeOK, NEW p \in Presentable
  PROVE  p \in Payloads /\ (p.built # NoTime => BuiltAt(p, now))
<1>1. now \in Nat /\ MaxTime + Skew \in Int /\ \A r \in Replicas : ahead[r] \in Nat
  BY ClockAssumption DEF TypeOK
<1>2. PICK w \in Wallets, c \in Channels, h \in Hosts :
        p \in MadeUp(w, c, h) \cup {Challenge(w, c, h, r, t) : r \in Replicas, t \in 0 .. now}
  BY DEF Presentable
<1>3. CASE p \in MadeUp(w, c, h)
  BY <1>1, <1>2, <1>3 DEF MadeUp, Payloads, Dates
<1>4. ASSUME NEW r \in Replicas, NEW t \in 0 .. now, p = Challenge(w, c, h, r, t)
      PROVE  p \in Payloads /\ BuiltAt(p, now)
  <2>1. t \in Nat /\ t <= now /\ t + ahead[r] - TTL \in Int /\ t + ahead[r] + TTL \in Int
    BY <1>1, <1>4, ClockAssumption
  <2> QED BY <1>2, <1>4, <2>1 DEF Challenge, Payloads, Dates, BuiltAt
<1> QED BY <1>2, <1>3, <1>4

\* The initial states satisfy the invariant.
LEMMA InitInv == Init => Inv
  BY ClockAssumption DEF Init, Inv, TypeOK, CheckOK

\* A check whose own variables stay is as good as before.
LEMMA OtherChecks ==
  ASSUME NEW v \in Checks, CheckOK(v), ahead' = ahead, proof'[v] = proof[v], pc'[v] = pc[v],
         rpcFailure'[v] = rpcFailure[v], verdict'[v] = verdict[v], began'[v] = began[v],
         rpc'[v] = rpc[v]
  PROVE  CheckOK(v)'
  BY DEF CheckOK, Begun, BuiltAt, Waiting, FreshSomewhere, StaleSomewhere, RpcEnded, Meaning,
     Fresh, Bound, Recovers, Genuine, Unavailable

\* A check that begins keeps the invariant.
LEMMA CheckInv ==
  ASSUME Inv, NEW v \in Checks, NEW r \in Replicas, NEW p \in Presentable,
         NEW w \in Wallets, NEW c \in Channels, NEW h \in Hosts, NEW s \in {w, Nobody},
         Check(v, r, [user |-> w, channel |-> c, host |-> h, payload |-> p, signer |-> s])
  PROVE  Inv'
<1> DEFINE q == [user |-> w, channel |-> c, host |-> h, payload |-> p, signer |-> s]
<1>1. q \in Proofs /\ q.payload = p
  BY PresentableFacts DEF Inv, Proofs
<1> HIDE DEF q
<1>2. /\ proof' = [proof EXCEPT ![v] = q] /\ began' = [began EXCEPT ![v] = now]
      /\ UNCHANGED <<now, ahead, rpcFailure, rpc>> /\ pc[v] = "idle"
  BY DEF Check, q
<1>3. PICK label \in {"viem", "done"}, outcome \in {"none", "true", "false"} :
        /\ Goto(v, label, outcome)
        /\ \/ ~(Bound(q) /\ Fresh(p, now + ahead[r])) /\ label = "done" /\ outcome = "false"
           \/ /\ Bound(q) /\ Fresh(p, now + ahead[r]) /\ Recovers(q)
              /\ label = "done" /\ outcome = "true"
           \/ /\ Bound(q) /\ Fresh(p, now + ahead[r]) /\ ~Recovers(q)
              /\ label = "viem" /\ outcome = "none"
  BY <1>1 DEF Check, q, Local
<1>4. now \in Nat /\ now \in Int
  BY ClockAssumption DEF Inv, TypeOK
<1>5. TypeOK'
  BY <1>1, <1>2, <1>3, <1>4 DEF Inv, TypeOK, Goto
<1>6. proof'[v] = q /\ began'[v] = now /\ pc'[v] = label /\ verdict'[v] = outcome
      /\ rpcFailure'[v] = "none" /\ rpc'[v] = "none"
  BY <1>2, <1>3 DEF Inv, TypeOK, CheckOK, Goto
<1>7. CheckOK(v)'
  <2>1. Begun(v)'
    BY <1>1, <1>2, <1>4, <1>6, PresentableFacts DEF Inv, Begun, BuiltAt
  <2>2. label = "viem" => Waiting(v)'
    BY <1>1, <1>2, <1>3, <1>6 DEF Waiting, FreshSomewhere, Bound, Recovers, Genuine, Fresh
  <2>3. label = "done" => Meaning(v)'
    BY <1>1, <1>2, <1>3, <1>6 DEF Meaning, FreshSomewhere, StaleSomewhere, Bound, Recovers,
       Genuine, Fresh, Unavailable
  <2> QED BY <1>3, <1>6, <2>1, <2>2, <2>3 DEF CheckOK
<1>8. ASSUME NEW x \in Checks, x # v PROVE CheckOK(x)'
  BY <1>2, <1>3, <1>8, OtherChecks DEF Inv, TypeOK, Goto
<1> QED BY <1>5, <1>7, <1>8 DEF Inv

\* The chain's yes keeps it.
LEMMA ChainAcceptsInv ==
  ASSUME Inv, NEW v \in Checks, ChainAccepts(v)
  PROVE  Inv'
<1>1. TypeOK'
  BY DEF ChainAccepts, Goto, Inv, TypeOK
<1>2. CheckOK(v)'
  <2>1. Begun(v)' /\ pc'[v] = "done" /\ verdict'[v] = "true"
    BY DEF ChainAccepts, Goto, Inv, TypeOK, CheckOK, Begun, BuiltAt
  <2>2. Genuine(proof[v]) /\ FreshSomewhere(proof[v].payload, began[v])
    BY DEF ChainAccepts, Inv, CheckOK, Waiting
  <2> QED BY <2>1, <2>2 DEF ChainAccepts, CheckOK, Meaning, FreshSomewhere, Genuine, Fresh
<1>3. ASSUME NEW x \in Checks, x # v PROVE CheckOK(x)'
  BY <1>3, OtherChecks DEF ChainAccepts, Goto, Inv, TypeOK
<1> QED BY <1>1, <1>2, <1>3 DEF Inv

\* Its no keeps it.
LEMMA ChainRejectsInv ==
  ASSUME Inv, NEW v \in Checks, ChainRejects(v)
  PROVE  Inv'
<1>1. TypeOK'
  BY DEF ChainRejects, Goto, Inv, TypeOK
<1>2. CheckOK(v)'
  <2>1. Begun(v)' /\ Waiting(v)' /\ pc'[v] = "rejected"
    BY DEF ChainRejects, Goto, Inv, TypeOK, CheckOK, Begun, BuiltAt, Waiting, FreshSomewhere,
       Fresh, Bound, Recovers, Genuine
  <2>2. RpcEnded(v)'
    BY DEF ChainRejects, Inv, TypeOK, CheckOK, RpcEnded, Genuine
  <2> QED BY <2>1, <2>2 DEF CheckOK
<1>3. ASSUME NEW x \in Checks, x # v PROVE CheckOK(x)'
  BY <1>3, OtherChecks DEF ChainRejects, Goto, Inv, TypeOK
<1> QED BY <1>1, <1>2, <1>3 DEF Inv

\* A request that fails is recorded for its own check.
LEMMA RpcFailsInv ==
  ASSUME Inv, NEW v \in Checks, NEW err \in RpcErrors, RpcFails(v, err)
  PROVE  Inv'
<1>1. rpcFailure' = [rpcFailure EXCEPT ![v] = err]
  BY DEF RpcFails, Recorded, Inv, TypeOK, CheckOK
<1>2. TypeOK'
  BY <1>1 DEF RpcFails, Goto, Inv, TypeOK
<1>3. CheckOK(v)'
  <2>1. Begun(v)' /\ Waiting(v)' /\ pc'[v] = "rejected"
    BY DEF RpcFails, Goto, Inv, TypeOK, CheckOK, Begun, BuiltAt, Waiting, FreshSomewhere,
       Fresh, Bound, Recovers, Genuine
  <2>2. RpcEnded(v)'
    BY <1>1 DEF RpcFails, Inv, TypeOK, RpcEnded
  <2> QED BY <2>1, <2>2 DEF CheckOK
<1>4. ASSUME NEW x \in Checks, x # v PROVE CheckOK(x)'
  BY <1>1, <1>4, OtherChecks DEF RpcFails, Goto, Inv, TypeOK
<1> QED BY <1>2, <1>3, <1>4 DEF Inv

\* The verdict keeps it.
LEMMA DecideInv ==
  ASSUME Inv, NEW v \in Checks, Decide(v)
  PROVE  Inv'
<1> DEFINE outcome == IF Unavailable(rpcFailure[v]) THEN "unavailable" ELSE "false"
<1>1. TypeOK'
  BY DEF Decide, Goto, Inv, TypeOK
<1>2. CheckOK(v)'
  <2>1. Begun(v)' /\ pc'[v] = "done" /\ verdict'[v] = outcome
    BY DEF Decide, Goto, Inv, TypeOK, CheckOK, Begun, BuiltAt
  <2>2. RpcEnded(v) /\ ~Recovers(proof[v])
    BY DEF Decide, Inv, CheckOK, Waiting
  <2>3. /\ outcome = "unavailable" => Unavailable(rpc[v])
        /\ outcome = "false" => ~Genuine(proof[v]) \/ rpc[v] = "error"
    BY <2>2 DEF RpcEnded, Unavailable, RpcErrors
  <2>4. proof' = proof /\ rpc' = rpc
    BY DEF Decide
  <2>5. Meaning(v)'
    BY <2>1, <2>2, <2>3, <2>4 DEF Meaning, Recovers, Genuine, Unavailable
  <2> QED BY <2>1, <2>5 DEF CheckOK
<1>3. ASSUME NEW x \in Checks, x # v PROVE CheckOK(x)'
  BY <1>3, OtherChecks DEF Decide, Goto, Inv, TypeOK
<1> QED BY <1>1, <1>2, <1>3 DEF Inv

\* Every step keeps it.
LEMMA NextInv == Inv /\ [Next]_vars => Inv'
<1> SUFFICES ASSUME Inv, [Next]_vars PROVE Inv'
  OBVIOUS
<1>1. CASE Tick \/ UNCHANGED vars
  <2>1. TypeOK'
    BY <1>1, ClockAssumption DEF Tick, vars, Inv, TypeOK
  <2>2. ASSUME NEW v \in Checks PROVE CheckOK(v)'
    BY <1>1, OtherChecks DEF Tick, vars, Inv
  <2> QED BY <2>1, <2>2 DEF Inv
<1>2. ASSUME NEW v \in Checks, Viem(v) \/ Decide(v) PROVE Inv'
  BY <1>2, ChainAcceptsInv, ChainRejectsInv, RpcFailsInv, DecideInv DEF Viem
<1> QED BY <1>1, <1>2, CheckInv DEF Next

\* Inv is an invariant of the verifier.
LEMMA Invariance == Spec => []Inv
<1> QED BY InitInv, NextInv, PTL DEF Spec

-----------------------------------------------------------------------------
\* The variables of the verifier keep their types; no raw error is a verdict.
THEOREM TypeCorrect == Spec => []TypeOK
<1>1. Inv => TypeOK
  BY DEF Inv
<1> QED BY <1>1, Invariance, PTL

\* A challenge that is stale somewhere is older than the skew allows for.
LEMMA StaleIsOld ==
  ASSUME TypeOK, NEW p, NEW t \in Nat, BuiltAt(p, t), StaleSomewhere(p, t)
  PROVE  t - p.built > TTL - Skew
<1>1. PICK r \in Replicas : p.from = p.built + ahead[r] - TTL /\ p.until = p.built + ahead[r] + TTL
  BY DEF BuiltAt
<1>2. PICK x \in Replicas : ~Fresh(p, t + ahead[x])
  BY DEF StaleSomewhere
<1>3. ahead[r] \in 0 .. Skew /\ ahead[x] \in 0 .. Skew /\ p.built \in Nat /\ p.built <= t
  BY DEF TypeOK, BuiltAt
<1>4. p.from # NoDate /\ p.until # NoDate
  BY <1>1, <1>3, ClockAssumption, NoneAssumption
<1>5. ~(t + ahead[x] <= p.until) \/ ~(p.from <= t + ahead[x])
  BY <1>2, <1>4 DEF Fresh
<1> QED BY <1>1, <1>3, <1>5, ClockAssumption

\* One that is fresh somewhere is not older than it allows for.
LEMMA FreshIsYoung ==
  ASSUME TypeOK, NEW p, NEW t \in Nat, BuiltAt(p, t), FreshSomewhere(p, t)
  PROVE  t - p.built <= TTL + Skew
<1>1. PICK r \in Replicas : p.from = p.built + ahead[r] - TTL /\ p.until = p.built + ahead[r] + TTL
  BY DEF BuiltAt
<1>2. PICK x \in Replicas : t + ahead[x] <= p.until
  BY DEF FreshSomewhere, Fresh
<1>3. ahead[r] \in 0 .. Skew /\ ahead[x] \in 0 .. Skew /\ p.built \in Nat
  BY DEF TypeOK, BuiltAt
<1> QED BY <1>1, <1>2, <1>3, ClockAssumption

\* A wallet's own signature of a young challenge is not called invalid, unless the
\* node answered with an error, whatever other checks run into.
THEOREM GoodProofsAreNotInvalidHolds == Spec => []GoodProofsAreNotInvalid
<1>1. ASSUME Inv, NEW v \in Checks, Decided(v, "false"), Genuine(proof[v]), Bound(proof[v]),
             proof[v].payload.built # NoTime
      PROVE  began[v] - proof[v].payload.built > TTL - Skew \/ rpc[v] = "error"
  <2>1. Begun(v) /\ Meaning(v) /\ verdict[v] = "false"
    BY <1>1 DEF Inv, CheckOK, Decided
  <2>2. CASE StaleSomewhere(proof[v].payload, began[v])
    BY <1>1, <2>1, <2>2, StaleIsOld DEF Inv, Begun
  <2> QED BY <1>1, <2>1, <2>2 DEF Meaning
<1>2. Inv => GoodProofsAreNotInvalid
  BY <1>1 DEF GoodProofsAreNotInvalid
<1> QED BY <1>2, Invariance, PTL

\* No challenge is accepted after its lifetime and the skew of the clocks.
THEOREM ChallengesExpireHolds == Spec => []ChallengesExpire
<1>1. ASSUME Inv, NEW v \in Checks, Decided(v, "true")
      PROVE  /\ Genuine(proof[v])
             /\ proof[v].payload.built # NoTime => began[v] - proof[v].payload.built <= TTL + Skew
  <2>1. Begun(v) /\ Meaning(v) /\ verdict[v] = "true"
    BY <1>1 DEF Inv, CheckOK, Decided
  <2> QED BY <1>1, <2>1, FreshIsYoung DEF Inv, Begun, Meaning
<1>2. Inv => ChallengesExpire
  BY <1>1 DEF ChallengesExpire
<1> QED BY <1>2, Invariance, PTL

\* A check is called unavailable for a failure of its own, and never for an
\* ordinary wallet.
THEOREM UnavailableHasACauseHolds == Spec => []UnavailableHasACause
<1>1. Inv => UnavailableHasACause
  BY DEF Inv, CheckOK, Meaning, UnavailableHasACause, Decided
<1> QED BY <1>1, Invariance, PTL
=============================================================================
