------------------------------- MODULE Verifier -------------------------------
(***************************************************************************)
(* Proofs of wallet control (src/src/subscription-verify.ts): a challenge  *)
(* is built by one replica and kept nowhere, a wallet signs it, and        *)
(* verifyProof checks it on any replica, by that replica's clock.  The     *)
(* signature of an ordinary wallet is recovered offline; any other is put  *)
(* to the chain through viem, whose "no" may also mean that the RPC did    *)
(* not answer.                                                             *)
(*                                                                         *)
(* Checks run at the same time over one transport.  Each is cut where it   *)
(* awaits: viem's call, and the way from a request that failed in the      *)
(* transport to the verdict.  viem gives up at the first request that      *)
(* fails; its retries are within the transport.                            *)
(***************************************************************************)
EXTENDS Integers

CONSTANTS Wallets,
          Contracts,    \* those of them that are smart accounts
          Channels,     \* pairs of an app and an endpoint
          Hosts, Replicas,
          Checks,       \* bound: the proofs that are ever presented
          TTL,          \* CHALLENGE_TTL_MS
          Skew,         \* how far the replicas' clocks may be apart
          MaxTime,      \* bound: how long time goes on
          Nobody,       \* signer of what is not the user's signature of this message
          NoDate,       \* what does not parse as a date
          NoTime, NoProof

ASSUME ContractsAssumption == Contracts \subseteq Wallets
ASSUME ClockAssumption == TTL \in Nat /\ Skew \in Nat /\ MaxTime \in Nat
ASSUME NoneAssumption == Nobody \notin Wallets /\ NoDate \notin Int /\ NoTime \notin Int

VARIABLES
    now,        \* true time
    ahead,      \* how far each replica's clock is ahead of it
    proof,      \* what each check was given
    pc,         \* where it waits
    rpcFailure, \* the first error its transport recorded
    verdict,    \* its outcome
    began,      \* history: the true time of its freshness check
    rpc         \* history: what its own RPC requests came to

vars == <<now, ahead, proof, pc, rpcFailure, verdict, began, rpc>>

Dates == Int \cup {NoDate}

\* What verifyProof reads of a payload; `built` is history: the true time the
\* server built it, NoTime for one somebody made up.
Payloads == [address : Wallets, channel : Channels, host : Hosts,
             from : Dates, until : Dates, built : Int \cup {NoTime}]

\* A payload with its signature, and the subscription it is presented for.
Proofs == [user : Wallets, channel : Channels, host : Hosts,
           payload : Payloads, signer : Wallets \cup {Nobody}]

RpcErrors == {"http", "timeout", "limit", "error"}

Local(r) == now + ahead[r]

\* All clocks within Skew of each other.
Init ==
    /\ now = 0
    /\ ahead \in [Replicas -> 0 .. Skew]
    /\ proof = [v \in Checks |-> NoProof]
    /\ pc = [v \in Checks |-> "idle"]
    /\ rpcFailure = [v \in Checks |-> "none"]
    /\ verdict = [v \in Checks |-> "none"]
    /\ began = [v \in Checks |-> NoTime]
    /\ rpc = [v \in Checks |-> "none"]

Tick ==
    /\ now < MaxTime
    /\ now' = now + 1
    /\ UNCHANGED <<ahead, proof, pc, rpcFailure, verdict, began, rpc>>

-----------------------------------------------------------------------------
(* What is presented *)

\* Mutant of Challenge: valid from the moment it was built.
ChallengeFromNow(w, c, h, r, t) ==
    [address |-> w, channel |-> c, host |-> h, built |-> t,
     from |-> t + ahead[r], until |-> t + ahead[r] + TTL]

\* buildChallenge on replica r at the true time t.
Challenge(w, c, h, r, t) ==
    [address |-> w, channel |-> c, host |-> h, built |-> t,
     from |-> t + ahead[r] - TTL, until |-> t + ahead[r] + TTL]

\* A payload of the caller's own: without end, or with what is no date.
MadeUp(w, c, h) ==
    {[address |-> w, channel |-> c, host |-> h, built |-> NoTime,
      from |-> dates[1], until |-> dates[2]] :
        dates \in {<<0, MaxTime + Skew>>, <<0, NoDate>>, <<NoDate, MaxTime + Skew>>}}

Presentable ==
    UNION {MadeUp(w, c, h) \cup {Challenge(w, c, h, r, t) : r \in Replicas, t \in 0 .. now} :
              w \in Wallets, c \in Channels, h \in Hosts}

\* The signature is over the message createLoginMessage makes of the payload,
\* which holds every field of it.
Genuine(q) == q.signer = q.user

\* recoversToAddress
Recovers(q) == Genuine(q) /\ q.user \notin Contracts

-----------------------------------------------------------------------------
(* verifyProof *)

\* Steps 1 to 3.
Bound(q) ==
    /\ q.payload.channel = q.channel
    /\ q.payload.address = q.user
    /\ q.payload.host = q.host

\* Mutant of Fresh: only the start of the window is looked at.
FreshEver(p, time) == p.from # NoDate /\ p.from <= time

\* Step 4: both ends belong to the window.
Fresh(p, time) ==
    /\ p.until # NoDate /\ time <= p.until
    /\ p.from # NoDate /\ p.from <= time

Goto(v, label, outcome) ==
    /\ pc' = [pc EXCEPT ![v] = label]
    /\ verdict' = [verdict EXCEPT ![v] = outcome]

\* verifyProof up to viem's call.
Check(v, r, q) ==
    LET sound == Bound(q) /\ Fresh(q.payload, Local(r)) IN
    /\ pc[v] = "idle"
    /\ proof' = [proof EXCEPT ![v] = q]
    /\ began' = [began EXCEPT ![v] = now]
    /\ \/ ~sound /\ Goto(v, "done", "false")
       \/ sound /\ Recovers(q) /\ Goto(v, "done", "true")
       \/ sound /\ ~Recovers(q) /\ Goto(v, "viem", "none")
    /\ UNCHANGED <<now, ahead, rpcFailure, rpc>>

\* The contract accepts, or for an account that has none, its key.
ChainAccepts(v) ==
    /\ pc[v] = "viem" /\ Genuine(proof[v])
    /\ Goto(v, "done", "true")
    /\ rpc' = [rpc EXCEPT ![v] = "answered"]
    /\ UNCHANGED <<now, ahead, proof, rpcFailure, began>>

\* viem says no, or throws, without a failed request: the contract rejects, or
\* the signature cannot be decoded.
ChainRejects(v) ==
    /\ pc[v] = "viem" /\ ~Genuine(proof[v])
    /\ Goto(v, "rejected", "none")
    /\ rpc' = [rpc EXCEPT ![v] = "answered"]
    /\ UNCHANGED <<now, ahead, proof, rpcFailure, began>>

\* Mutant of Recorded: one variable for all checks.
RecordedForAll(v, err) ==
    [w \in Checks |-> IF rpcFailure[w] = "none" THEN err ELSE rpcFailure[w]]

\* watchTransport: rpcFailure ??= err
Recorded(v, err) == [rpcFailure EXCEPT ![v] = IF @ = "none" THEN err ELSE @]

\* A request fails: unreachable or throttled, timed out, over a rate limit, or
\* answered with an error of the node's own, a revert as a rule.
RpcFails(v, err) ==
    /\ pc[v] = "viem"
    /\ rpcFailure' = Recorded(v, err)
    /\ rpc' = [rpc EXCEPT ![v] = err]
    /\ Goto(v, "rejected", "none")
    /\ UNCHANGED <<now, ahead, proof, began>>

\* isRpcUnavailable
Unavailable(err) == err \in {"http", "timeout", "limit"}

\* What viem's "no" is worth.
Decide(v) ==
    /\ pc[v] = "rejected"
    /\ Goto(v, "done", IF Unavailable(rpcFailure[v]) THEN "unavailable" ELSE "false")
    /\ UNCHANGED <<now, ahead, proof, rpcFailure, began, rpc>>

-----------------------------------------------------------------------------
Viem(v) ==
    \/ ChainAccepts(v) \/ ChainRejects(v)
    \/ \E err \in RpcErrors : RpcFails(v, err)

Next ==
    \/ Tick
    \/ \E v \in Checks, r \in Replicas, p \in Presentable,
          w \in Wallets, c \in Channels, h \in Hosts : \E s \in {w, Nobody} :
          Check(v, r, [user |-> w, channel |-> c, host |-> h, payload |-> p, signer |-> s])
    \/ \E v \in Checks : Viem(v) \/ Decide(v)

Spec == Init /\ [][Next]_vars

-----------------------------------------------------------------------------
TypeOK ==
    /\ now \in 0 .. MaxTime
    /\ ahead \in [Replicas -> 0 .. Skew]
    /\ proof \in [Checks -> Proofs \cup {NoProof}]
    /\ pc \in [Checks -> {"idle", "viem", "rejected", "done"}]
    /\ rpcFailure \in [Checks -> RpcErrors \cup {"none"}]
    /\ verdict \in [Checks -> {"none", "true", "false", "unavailable"}]
    /\ began \in [Checks -> Int \cup {NoTime}]
    /\ rpc \in [Checks -> RpcErrors \cup {"none", "answered"}]

Decided(v, outcome) == pc[v] = "done" /\ verdict[v] = outcome

\* A challenge of the server is good on every replica for TTL less the skew of
\* the clocks: within that time the wallet's own signature is called invalid only
\* when the node itself answered with an error, never because a check at the same
\* time or the RPC failed (subscription-verify.ts:156-190, 213-248).
GoodProofsAreNotInvalid ==
    \A v \in Checks :
        LET q == proof[v] IN
        Decided(v, "false") /\ Genuine(q) /\ Bound(q) /\ q.payload.built # NoTime =>
            \/ began[v] - q.payload.built > TTL - Skew
            \/ rpc[v] = "error"

\* A challenge of the server is accepted for TTL and the skew of the clocks at
\* most, and only with the signature of the wallet it names.
ChallengesExpire ==
    \A v \in Checks :
        LET q == proof[v] IN
        Decided(v, "true") =>
            /\ Genuine(q)
            /\ q.payload.built # NoTime => began[v] - q.payload.built <= TTL + Skew

\* "Unavailable" is said of a check whose own request got no answer, and never to
\* an ordinary wallet, which needs no RPC (subscription-verify.ts:139-142).
UnavailableHasACause ==
    \A v \in Checks :
        Decided(v, "unavailable") => Unavailable(rpc[v]) /\ ~Recovers(proof[v])
=============================================================================
