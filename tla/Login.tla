--------------------------------- MODULE Login ---------------------------------
(***************************************************************************)
(* Wallet sign-in of the dashboard (src/src/auth-service.ts, jwt.ts,       *)
(* siwe.ts and routes/auth.ts) and the requests that carry its token:      *)
(* GET /auth/me and everything behind requireAdmin (src/src/auth.ts).      *)
(*                                                                         *)
(* The server keeps nothing of a sign-in: a payload is built by one        *)
(* replica, signed by a wallet, and exchanged for a token on any replica;  *)
(* the token is good on every one, by that one's clock.  What the server   *)
(* does keep is the table of administrators, read for every request after  *)
(* the token was checked, so it may change between the two.                *)
(*                                                                         *)
(* Time is in ticks.  Payloads end on a tick, tokens on a whole second.    *)
(***************************************************************************)
EXTENDS Integers

CONSTANTS Wallets,
          Bootstrap,    \* ADMIN_WALLETS
          Domains, AuthDomain,
          Replicas,
          Requests,     \* bound: the requests that ever arrive
          PayloadTTL,   \* PAYLOAD_TTL_MS
          TokenTTL,     \* JWT_TTL_SECONDS
          Second,       \* ticks in a second
          Skew,         \* how far the replicas' clocks may be apart
          MaxTime,      \* bound: how long time goes on
          Nobody,       \* signer of what is not the wallet's signature of this message
          NoDate,       \* a date that is missing or does not parse
          NoTime, NoRequest, NoToken

ASSUME WalletsAssumption == Bootstrap \subseteq Wallets /\ Nobody \notin Wallets
ASSUME DomainAssumption == AuthDomain \in Domains
ASSUME ClockAssumption ==
    /\ PayloadTTL \in Nat /\ TokenTTL \in Nat /\ Skew \in Nat /\ MaxTime \in Nat
    /\ Second \in Nat \ {0}
ASSUME NoneAssumption == NoDate \notin Int /\ NoTime \notin Int /\ NoRequest \notin Requests

VARIABLES
    now,        \* true time
    ahead,      \* how far each replica's clock is ahead of it
    admins,     \* the admins table
    pc,         \* where each request waits
    req,        \* what it carries
    token,      \* the token a login made, which its answer may hand out
    answer,     \* its response
    at,         \* history: the true time of its check of signature or token
    entitled    \* history: its wallet was an administrator since then

vars == <<now, ahead, admins, pc, req, token, answer, at, entitled>>

Dates == Int \cup {NoDate}

\* `built` is history: the true time the server built it, NoTime for one
\* somebody made up.
Payloads == [address : Wallets, domain : Domains, from : Dates, until : Dates,
             built : Int \cup {NoTime}]

Tokens == [sub : Wallets, exp : Int]

\* POST /auth/login with a signed payload; a request with the token that another
\* request was answered with, or with none of the server's.
Logins == [kind : {"login"}, payload : Payloads, signer : Wallets \cup {Nobody}]
Calls == [kind : {"call"}, login : Requests \cup {NoRequest}]

Answers == {"none", "success", "stranger", "unauthorised", "error"}

ASSUME NoRecordAssumption == NoRequest \notin Logins \cup Calls /\ NoToken \notin Tokens

Local(r) == now + ahead[r]

IsAdmin(w) == w \in Bootstrap \cup admins

Init ==
    /\ now = 0
    /\ ahead \in [Replicas -> 0 .. Skew]
    /\ admins \in SUBSET Wallets
    /\ pc = [v \in Requests |-> "waiting"]
    /\ req = [v \in Requests |-> NoRequest]
    /\ token = [v \in Requests |-> NoToken]
    /\ answer = [v \in Requests |-> "none"]
    /\ at = [v \in Requests |-> NoTime]
    /\ entitled = [v \in Requests |-> FALSE]

Tick ==
    /\ now < MaxTime
    /\ now' = now + 1
    /\ UNCHANGED <<ahead, admins, pc, req, token, answer, at, entitled>>

-----------------------------------------------------------------------------
(* Payloads *)

\* generatePayload on replica r at the true time t.
Payload(w, r, t) ==
    [address |-> w, domain |-> AuthDomain, built |-> t,
     from |-> t + ahead[r] - PayloadTTL, until |-> t + ahead[r] + PayloadTTL]

\* A payload of the caller's own: without dates, or for another site.
MadeUp(w) ==
    {[address |-> w, domain |-> d, built |-> NoTime, from |-> NoDate, until |-> NoDate] :
        d \in Domains}

Presentable ==
    UNION {MadeUp(w) \cup {Payload(w, r, t) : r \in Replicas, t \in 0 .. now} : w \in Wallets}

\* A date that is missing or does not parse is no bound.
Live(p, time) ==
    /\ p.until # NoDate => time <= p.until
    /\ p.from # NoDate => p.from <= time

\* recoverSiweAddress: the message holds every field of the payload.
Recovers(q) == q.signer = q.payload.address

\* verifyAndIssueJwt up to the token.
Accepted(q, time) == Recovers(q) /\ q.payload.domain = AuthDomain /\ Live(q.payload, time)

-----------------------------------------------------------------------------
(* Tokens *)

\* Mutant of Issued: the lifetime counts from the next second.
IssuedLate(w, time) == [sub |-> w, exp |-> (time \div Second) + 1 + TokenTTL]

\* issueJwt, in whole seconds.
Issued(w, time) == [sub |-> w, exp |-> (time \div Second) + TokenTTL]

\* Mutant of Valid: seconds against ticks.
ValidInTicks(tok, time) == time < tok.exp

\* verifyJwt
Valid(tok, time) == (time \div Second) < tok.exp

-----------------------------------------------------------------------------
(* Requests *)

\* Whose request it is: the wallet of the payload, or of the token.
Caller(v) ==
    IF req[v].kind = "login" THEN req[v].payload.address ELSE token[req[v].login].sub

Respond(v, a) ==
    /\ pc' = [pc EXCEPT ![v] = "done"]
    /\ answer' = [answer EXCEPT ![v] = a]

\* isAdminAddress: a bootstrap administrator needs no query.
Admit(v, w) ==
    /\ \/ w \in Bootstrap /\ Respond(v, "success")
       \/ /\ w \notin Bootstrap
          /\ pc' = [pc EXCEPT ![v] = "isDbAdmin"]
          /\ UNCHANGED answer
    /\ entitled' = [entitled EXCEPT ![v] = IsAdmin(w)]

Reject(v) == Respond(v, "unauthorised") /\ UNCHANGED entitled

Arrive(v, q) ==
    /\ pc[v] = "waiting"
    /\ req' = [req EXCEPT ![v] = q]
    /\ at' = [at EXCEPT ![v] = now]

\* POST /auth/login on replica r.
SignIn(v, r, q) ==
    LET w == q.payload.address IN
    /\ Arrive(v, q)
    /\ \/ /\ Accepted(q, Local(r))
          /\ token' = [token EXCEPT ![v] = Issued(w, Local(r))]
          /\ Admit(v, w)
       \/ ~Accepted(q, Local(r)) /\ Reject(v) /\ UNCHANGED token
    /\ UNCHANGED <<now, ahead, admins>>

HandedOut(l) == token[l] # NoToken /\ answer[l] = "success"

\* GET /auth/me, or a request behind requireAdmin, on replica r.
Call(v, r, q) ==
    LET l == q.login IN
    /\ Arrive(v, q)
    /\ l # NoRequest => HandedOut(l)
    /\ \/ l # NoRequest /\ Valid(token[l], Local(r)) /\ Admit(v, token[l].sub)
       \/ l # NoRequest /\ ~Valid(token[l], Local(r)) /\ Reject(v)
       \/ l = NoRequest /\ Reject(v)
    /\ UNCHANGED <<now, ahead, admins, token>>

\* Mutant of Lookup: who has a token was an administrator when he got it.
LookupAtLogin(v) ==
    /\ pc[v] = "isDbAdmin"
    /\ Respond(v, IF req[v].kind = "call" \/ Caller(v) \in admins THEN "success" ELSE "stranger")
    /\ UNCHANGED <<now, ahead, admins, req, token, at, entitled>>

\* isDbAdmin: 403, or isAdmin: false of /auth/me, for a stranger.
Lookup(v) ==
    /\ pc[v] = "isDbAdmin"
    /\ Respond(v, IF Caller(v) \in admins THEN "success" ELSE "stranger")
    /\ UNCHANGED <<now, ahead, admins, req, token, at, entitled>>

\* The query fails: 500.
LookupFails(v) ==
    /\ pc[v] = "isDbAdmin"
    /\ Respond(v, "error")
    /\ UNCHANGED <<now, ahead, admins, req, token, at, entitled>>

-----------------------------------------------------------------------------
(* The admins table changes under them *)

AddAdmin(w) ==
    /\ w \notin admins
    /\ admins' = admins \cup {w}
    /\ entitled' = [v \in Requests |-> entitled[v] \/ (pc[v] = "isDbAdmin" /\ Caller(v) = w)]
    /\ UNCHANGED <<now, ahead, pc, req, token, answer, at>>

RemoveAdmin(w) ==
    /\ w \in admins
    /\ admins' = admins \ {w}
    /\ UNCHANGED <<now, ahead, pc, req, token, answer, at, entitled>>

-----------------------------------------------------------------------------
Next ==
    \/ Tick
    \/ \E v \in Requests, r \in Replicas :
          \/ \E p \in Presentable : \E s \in {p.address, Nobody} :
                SignIn(v, r, [kind |-> "login", payload |-> p, signer |-> s])
          \/ \E l \in Requests \cup {NoRequest} : Call(v, r, [kind |-> "call", login |-> l])
    \/ \E v \in Requests : Lookup(v) \/ LookupFails(v)
    \/ \E w \in Wallets : AddAdmin(w) \/ RemoveAdmin(w)

Spec == Init /\ [][Next]_vars

-----------------------------------------------------------------------------
TypeOK ==
    /\ now \in 0 .. MaxTime
    /\ ahead \in [Replicas -> 0 .. Skew]
    /\ admins \subseteq Wallets
    /\ pc \in [Requests -> {"waiting", "isDbAdmin", "done"}]
    /\ req \in [Requests -> Logins \cup Calls \cup {NoRequest}]
    /\ token \in [Requests -> Tokens \cup {NoToken}]
    /\ answer \in [Requests -> Answers]
    /\ at \in [Requests -> Int \cup {NoTime}]
    /\ entitled \in [Requests -> BOOLEAN]

\* The login a request goes back to: itself, or the one it has its token from.
LoginOf(v) == IF req[v].kind = "login" THEN v ELSE req[v].login

PastTheToken(v) == answer[v] \in {"success", "stranger", "error"}

\* One signature opens the door for the payload's lifetime, and each token it buys
\* within that time for the token's, give or take the skew of the clocks: no chain
\* of replicas and rounded seconds stretches it (auth-service.ts:60, jwt.ts:38).
SessionsEnd ==
    \A v \in Requests : PastTheToken(v) =>
        /\ LoginOf(v) \in Requests
        /\ LET l == LoginOf(v)
               p == req[l].payload
           IN  /\ l # v => at[v] - at[l] < TokenTTL * Second + Skew
               /\ p.built # NoTime => at[l] - p.built <= PayloadTTL + Skew

\* Within those times less the skew, and less the second a token loses to rounding,
\* nobody is sent away with a 401 who has the wallet's signature or the token.
LiveSessionsLast ==
    \A v \in Requests : answer[v] = "unauthorised" /\ LoginOf(v) \in Requests =>
        LET l == LoginOf(v)
            p == req[l].payload
        IN  IF l # v THEN at[v] - at[l] > (TokenTTL - 1) * Second - Skew
            ELSE Recovers(req[l]) /\ p.domain = AuthDomain /\ p.built # NoTime =>
                    at[l] - p.built > PayloadTTL - Skew

\* A request succeeds only for a wallet that was an administrator while the request
\* ran, however old its token; and its token was bought with the signature of that
\* wallet, for this site, when the wallet was an administrator already
\* (routes/auth.ts:40, auth.ts:109-117).
OnlyAdministratorsEnter ==
    \A v \in Requests : answer[v] = "success" =>
        /\ entitled[v]
        /\ LET l == LoginOf(v) IN
              /\ entitled[l] /\ answer[l] = "success"
              /\ Recovers(req[l]) /\ req[l].payload.domain = AuthDomain
              /\ Caller(v) = req[l].payload.address
=============================================================================
