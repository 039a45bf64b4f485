------------------------------ MODULE LoginProofs ------------------------------
(***************************************************************************)
(* Proofs about wallet sign-in.  The invariant says of every request what  *)
(* it was measured by when it arrived: a login by the window of its        *)
(* payload on some replica's clock, a call by the expiry of a token on     *)
(* some replica's clock, where the token is that of a login which is over. *)
(* Requests that are over do not change any more, so a call may rely on    *)
(* the login it comes from.  The bounds in time follow by arithmetic.      *)
(***************************************************************************)
EXTENDS Login, TLAPS

TokenPassed(v) == pc[v] = "isDbAdmin" \/ PastTheToken(v)

Control(v) ==
    /\ pc[v] = "waiting" =>
          req[v] = NoRequest /\ token[v] = NoToken /\ answer[v] = "none"
    /\ pc[v] # "waiting" => req[v] \in Logins \cup Calls /\ at[v] \in Int
    /\ pc[v] = "isDbAdmin" => answer[v] = "none"

Built(p) ==
    p.built # NoTime => \E r \in Replicas : p = Payload(p.address, r, p.built)

LoginOK(v) ==
    req[v] \in Logins =>
        /\ Built(req[v].payload)
        /\ req[v].payload.built # NoTime => req[v].payload.built <= at[v]
        /\ TokenPassed(v) => token[v] # NoToken
        /\ token[v] # NoToken =>
              \E r \in Replicas :
                  /\ Accepted(req[v], at[v] + ahead[r])
                  /\ token[v] = Issued(req[v].payload.address, at[v] + ahead[r])
        /\ answer[v] = "unauthorised" =>
              \E r \in Replicas : ~Accepted(req[v], at[v] + ahead[r])

CallOK(v) ==
    req[v] \in Calls =>
        /\ token[v] = NoToken
        /\ req[v].login # NoRequest =>
              /\ HandedOut(req[v].login)
              /\ req[req[v].login] \in Logins
              /\ pc[req[v].login] = "done"
        /\ TokenPassed(v) =>
              /\ req[v].login # NoRequest
              /\ \E r \in Replicas : Valid(token[req[v].login], at[v] + ahead[r])
        /\ answer[v] = "unauthorised" /\ req[v].login # NoRequest =>
              \E r \in Replicas : ~Valid(token[req[v].login], at[v] + ahead[r])

EntitledOK(v) ==
    /\ answer[v] = "success" => entitled[v]
    /\ pc[v] = "isDbAdmin" /\ Caller(v) \in admins => entitled[v]

ReqOK(v) == Control(v) /\ LoginOK(v) /\ CallOK(v) /\ EntitledOK(v)

Inv == TypeOK /\ \A v \in Requests : ReqOK(v)

-----------------------------------------------------------------------------
\* A login is no call, and NoRequest is neither.
LEMMA Kinds ==
    /\ \A q \in Logins : q \notin Calls /\ q.kind = "login" /\ q # NoRequest
    /\ \A q \in Calls : q \notin Logins /\ q.kind = "call" /\ q # NoRequest
  BY NoRecordAssumption DEF Logins, Calls

\* Whole seconds of a time.
LEMMA SecondsFacts ==
    ASSUME NEW x \in Int
    PROVE  /\ x \div Second \in Int
           /\ Second * (x \div Second) <= x
           /\ x < Second * (x \div Second) + Second
  BY ClockAssumption, SMTT(30)

\* A token is a token, and none is NoToken.
LEMMA IssuedFacts ==
    ASSUME NEW w \in Wallets, NEW x \in Int
    PROVE  Issued(w, x) \in Tokens /\ Issued(w, x) # NoToken /\ Issued(w, x).sub = w
<1>1. (x \div Second) + TokenTTL \in Int
  BY SecondsFacts, ClockAssumption
<1> QED
  BY <1>1, NoRecordAssumption DEF Issued, Tokens

\* What may be presented is a payload, and one of the server's was built.
LEMMA PresentableFacts ==
    ASSUME TypeOK, NEW p \in Presentable
    PROVE  p \in Payloads /\ Built(p) /\ (p.built # NoTime => p.built <= now)
<1>1. now \in Int /\ MaxTime \in Int /\ PayloadTTL \in Int /\ \A r \in Replicas : ahead[r] \in Int
  BY ClockAssumption DEF TypeOK
<1>2. PICK w \in Wallets :
        p \in MadeUp(w) \cup {Payload(w, r, t) : r \in Replicas, t \in 0 .. now}
  BY DEF Presentable
<1>3. CASE p \in MadeUp(w)
  BY <1>3 DEF MadeUp, Payloads, Dates, Built
<1>4. CASE p \in {Payload(w, r, t) : r \in Replicas, t \in 0 .. now}
  <2>1. PICK r \in Replicas, t \in 0 .. now : p = Payload(w, r, t)
    BY <1>4
  <2>2. p.address = w /\ p.built = t
    BY <2>1 DEF Payload
  <2>3. p \in Payloads
    BY <2>1, <1>1, DomainAssumption DEF Payload, Payloads, Dates
  <2> QED
    BY <2>1, <2>2, <2>3 DEF Built
<1> QED
  BY <1>2, <1>3, <1>4

LEMMA InitInv == Init => Inv
  BY ClockAssumption, NoRecordAssumption
  DEF Init, Inv, TypeOK, Answers, ReqOK, Control, LoginOK, CallOK, EntitledOK, TokenPassed, PastTheToken

-----------------------------------------------------------------------------
\* A step of one request, not yet over, leaves the others as good as they were.
LEMMA OtherRequests ==
    ASSUME Inv, NEW u \in Requests, pc[u] # "done", ahead' = ahead, admins' = admins,
           NEW v \in Requests, v # u,
           \A w \in Requests \ {u} :
               /\ pc'[w] = pc[w] /\ req'[w] = req[w] /\ token'[w] = token[w]
               /\ answer'[w] = answer[w] /\ at'[w] = at[w] /\ entitled'[w] = entitled[w]
    PROVE  ReqOK(v)'
<1>1. /\ pc'[v] = pc[v] /\ req'[v] = req[v] /\ token'[v] = token[v]
      /\ answer'[v] = answer[v] /\ at'[v] = at[v] /\ entitled'[v] = entitled[v]
  OBVIOUS
<1>2. ReqOK(v)
  BY DEF Inv
<1>3. Control(v)'
  BY <1>1, <1>2 DEF ReqOK, Control
<1>4. LoginOK(v)'
  BY <1>1, <1>2 DEF ReqOK, LoginOK, TokenPassed, PastTheToken, Built, Payload
<1>5. ASSUME req[v] \in Calls, req[v].login # NoRequest
      PROVE  /\ req[v].login \in Requests \ {u}
             /\ token'[req[v].login] = token[req[v].login]
             /\ answer'[req[v].login] = answer[req[v].login]
             /\ req'[req[v].login] = req[req[v].login]
             /\ pc'[req[v].login] = pc[req[v].login]
  <2>1. req[v].login \in Requests
    BY <1>5 DEF Calls
  <2>2. pc[req[v].login] = "done"
    BY <1>2, <1>5 DEF ReqOK, CallOK
  <2> QED
    BY <2>1, <2>2
<1>6. CallOK(v)'
  BY <1>1, <1>2, <1>5 DEF ReqOK, CallOK, TokenPassed, PastTheToken, HandedOut, Valid
<1>7. CASE req[v] = NoRequest \/ req[v] \notin Logins \cup Calls
  <2>1. pc[v] # "isDbAdmin"
    BY <1>2, <1>7, Kinds DEF ReqOK, Control
  <2> QED
    BY <1>1, <1>2, <1>3, <1>4, <1>6, <2>1 DEF ReqOK, EntitledOK
<1>8. CASE req[v] \in Logins
  <2>1. Caller(v)' = Caller(v)
    BY <1>1, <1>8, Kinds DEF Caller
  <2> QED
    BY <1>1, <1>2, <1>3, <1>4, <1>6, <2>1 DEF ReqOK, EntitledOK
<1>9. CASE req[v] \in Calls
  <2>1. CASE pc[v] # "isDbAdmin"
    BY <1>1, <1>2, <1>3, <1>4, <1>6, <2>1 DEF ReqOK, EntitledOK
  <2>2. CASE pc[v] = "isDbAdmin"
    <3>1. req[v].login # NoRequest
      BY <1>2, <1>9, <2>2 DEF ReqOK, CallOK, TokenPassed
    <3>2. Caller(v)' = Caller(v)
      BY <1>1, <1>5, <1>9, <3>1, Kinds DEF Caller
    <3> QED
      BY <1>1, <1>2, <1>3, <1>4, <1>6, <3>2 DEF ReqOK, EntitledOK
  <2> QED
    BY <2>1, <2>2
<1> QED
  BY <1>7, <1>8, <1>9

-----------------------------------------------------------------------------
\* A login that arrives is measured by the window of its payload.
LEMMA SignInInv ==
    ASSUME Inv, NEW v \in Requests, NEW r \in Replicas, NEW p \in Presentable,
           NEW s \in {p.address, Nobody},
           SignIn(v, r, [kind |-> "login", payload |-> p, signer |-> s])
    PROVE  Inv'
<1> DEFINE q == [kind |-> "login", payload |-> p, signer |-> s]
<1>1. /\ p \in Payloads /\ Built(p) /\ p.address \in Wallets
      /\ p.built # NoTime => p.built <= now
  BY PresentableFacts DEF Inv, Payloads
<1>2. q \in Logins /\ q.payload = p /\ q.kind = "login" /\ q \notin Calls
  BY <1>1, Kinds DEF Logins
<1> HIDE DEF q
<1>3. /\ pc[v] = "waiting" /\ req' = [req EXCEPT ![v] = q] /\ at' = [at EXCEPT ![v] = now]
      /\ UNCHANGED <<now, ahead, admins>>
  BY DEF SignIn, Arrive, q
<1>4. now \in Int /\ ahead[r] \in Int
  BY ClockAssumption DEF Inv, TypeOK
<1>5. answer[v] = "none" /\ token[v] = NoToken /\ req[v] = NoRequest
  BY <1>3 DEF Inv, ReqOK, Control
<1>6. CASE Accepted(q, Local(r))
  <2>1. /\ token' = [token EXCEPT ![v] = Issued(p.address, Local(r))]
        /\ Admit(v, p.address)
    BY <1>2, <1>6 DEF SignIn, q
  <2>2. Issued(p.address, Local(r)) \in Tokens /\ Issued(p.address, Local(r)) # NoToken
    BY <1>1, <1>4, IssuedFacts DEF Local
  <2>3. PICK label \in {"isDbAdmin", "done"}, a \in {"none", "success"} :
          /\ pc' = [pc EXCEPT ![v] = label] /\ answer' = [answer EXCEPT ![v] = a]
          /\ label = "isDbAdmin" <=> a = "none"
          /\ a = "success" => p.address \in Bootstrap
    BY <2>1, <1>5 DEF Admit, Respond, Inv, TypeOK
  <2>4. entitled' = [entitled EXCEPT ![v] = IsAdmin(p.address)]
    BY <2>1 DEF Admit
  <2>5. TypeOK'
    <3>1. IsAdmin(p.address) \in BOOLEAN
      BY DEF IsAdmin
    <3>2. entitled' \in [Requests -> BOOLEAN]
      BY <2>4, <3>1, Zenon DEF Inv, TypeOK
    <3> QED
      BY <1>2, <1>3, <1>4, <2>1, <2>2, <2>3, <3>2 DEF Inv, TypeOK, Answers
  <2>6. /\ pc'[v] = label /\ answer'[v] = a /\ req'[v] = q /\ at'[v] = now
        /\ token'[v] = Issued(p.address, Local(r))
    BY <1>3, <2>1, <2>3 DEF Inv, TypeOK
  <2>7. Control(v)'
    BY <2>6, <2>3, <1>2, <1>4 DEF Control
  <2>8. LoginOK(v)'
    <3>1. Built(req[v].payload)'
      BY <1>1, <1>2, <1>3, <2>6 DEF Built, Payload
    <3>2. Accepted(req'[v], at'[v] + ahead'[r]) /\ token'[v] = Issued(req'[v].payload.address, at'[v] + ahead'[r])
      BY <1>2, <1>3, <1>6, <2>6 DEF Local
    <3>3. req'[v].payload = p /\ at'[v] = now
      BY <1>2, <2>6
    <3> QED
      BY <1>1, <2>2, <2>3, <2>6, <3>1, <3>2, <3>3 DEF LoginOK
  <2>9. CallOK(v)'
    BY <1>2, <2>6 DEF CallOK
  <2>10. entitled'[v] = IsAdmin(p.address)
    BY <2>4 DEF Inv, TypeOK
  <2>11. Caller(v)' = p.address
    BY <1>2, <2>6 DEF Caller
  <2>12. EntitledOK(v)'
    BY <1>3, <2>3, <2>6, <2>10, <2>11 DEF EntitledOK, IsAdmin
  <2>13. \A w \in Requests \ {v} : ReqOK(w)'
    BY <1>3, <2>1, <2>3, <2>4, OtherRequests DEF Inv, TypeOK
  <2> QED
    BY <2>5, <2>7, <2>8, <2>9, <2>12, <2>13 DEF Inv, ReqOK
<1>7. CASE ~Accepted(q, Local(r))
  <2>1. /\ UNCHANGED <<token, entitled>>
        /\ pc' = [pc EXCEPT ![v] = "done"]
        /\ answer' = [answer EXCEPT ![v] = "unauthorised"]
    BY <1>7 DEF SignIn, q, Reject, Respond
  <2>2. TypeOK'
    BY <1>2, <1>3, <1>4, <2>1 DEF Inv, TypeOK, Answers
  <2>3. /\ pc'[v] = "done" /\ answer'[v] = "unauthorised" /\ req'[v] = q /\ at'[v] = now
        /\ token'[v] = NoToken
    BY <1>3, <1>5, <2>1 DEF Inv, TypeOK
  <2>4. Control(v)'
    BY <2>3, <1>2, <1>4 DEF Control
  <2>5. LoginOK(v)'
    <3>1. Built(req[v].payload)'
      BY <1>1, <1>2, <1>3, <2>3 DEF Built, Payload
    <3>2. ~Accepted(req'[v], at'[v] + ahead'[r])
      BY <1>3, <1>7, <2>3 DEF Local
    <3>3. req'[v].payload = p /\ at'[v] = now
      BY <1>2, <2>3
    <3> QED
      BY <1>1, <2>3, <3>1, <3>2, <3>3 DEF LoginOK, TokenPassed, PastTheToken
  <2>6. CallOK(v)' /\ EntitledOK(v)'
    BY <1>2, <2>3 DEF CallOK, EntitledOK
  <2>7. \A w \in Requests \ {v} : ReqOK(w)'
    BY <1>3, <2>1, OtherRequests DEF Inv, TypeOK
  <2> QED
    BY <2>2, <2>4, <2>5, <2>6, <2>7 DEF Inv, ReqOK
<1> QED
  BY <1>6, <1>7

\* A call that arrives is measured by the expiry of the token it comes with.
LEMMA CallInv ==
    ASSUME Inv, NEW v \in Requests, NEW r \in Replicas, NEW l \in Requests \cup {NoRequest},
           Call(v, r, [kind |-> "call", login |-> l])
    PROVE  Inv'
<1> DEFINE q == [kind |-> "call", login |-> l]
<1>1. q \in Calls /\ q.login = l /\ q.kind = "call" /\ q \notin Logins
  BY Kinds DEF Calls
<1> HIDE DEF q
<1>2. /\ pc[v] = "waiting" /\ req' = [req EXCEPT ![v] = q] /\ at' = [at EXCEPT ![v] = now]
      /\ UNCHANGED <<now, ahead, admins, token>> /\ (l # NoRequest => HandedOut(l))
  BY DEF Call, Arrive, q
<1>3. now \in Int /\ ahead[r] \in Int
  BY ClockAssumption DEF Inv, TypeOK
<1>4. answer[v] = "none" /\ token[v] = NoToken /\ req[v] = NoRequest
  BY <1>2 DEF Inv, ReqOK, Control
<1>5. ASSUME l # NoRequest
      PROVE  /\ l \in Requests \ {v} /\ pc[l] = "done" /\ req[l] \in Logins
             /\ token[l] \in Tokens /\ answer[l] = "success"
  <2>1. l \in Requests \ {v} /\ token[l] # NoToken /\ answer[l] = "success"
    BY <1>2, <1>4, <1>5 DEF HandedOut
  <2>2. ReqOK(l) /\ pc[l] \in {"waiting", "isDbAdmin", "done"} /\ token[l] \in Tokens
    BY <2>1 DEF Inv, TypeOK
  <2>3. pc[l] = "done"
    BY <2>1, <2>2 DEF ReqOK, Control
  <2>4. req[l] \in Logins
    BY <2>1, <2>2, <2>3 DEF ReqOK, Control, CallOK
  <2> QED
    BY <2>1, <2>2, <2>3, <2>4
<1>6. CASE l # NoRequest /\ Valid(token[l], Local(r)) /\ Admit(v, token[l].sub)
  <2>1. PICK label \in {"isDbAdmin", "done"}, a \in {"none", "success"} :
          /\ pc' = [pc EXCEPT ![v] = label] /\ answer' = [answer EXCEPT ![v] = a]
          /\ label = "isDbAdmin" <=> a = "none"
          /\ a = "success" => token[l].sub \in Bootstrap
    BY <1>6, <1>4 DEF Admit, Respond, Inv, TypeOK
  <2>2. entitled' = [entitled EXCEPT ![v] = IsAdmin(token[l].sub)]
    BY <1>6 DEF Admit
  <2>3. TypeOK'
    <3>1. IsAdmin(token[l].sub) \in BOOLEAN
      BY DEF IsAdmin
    <3>2. entitled' \in [Requests -> BOOLEAN]
      BY <2>2, <3>1, Zenon DEF Inv, TypeOK
    <3> QED
      BY <1>1, <1>2, <1>3, <2>1, <3>2 DEF Inv, TypeOK, Answers
  <2>4. /\ pc'[v] = label /\ answer'[v] = a /\ req'[v] = q /\ at'[v] = now
        /\ token'[v] = NoToken
        /\ pc'[l] = "done" /\ answer'[l] = "success" /\ req'[l] = req[l] /\ token'[l] = token[l]
    BY <1>2, <1>4, <1>5, <1>6, <2>1 DEF Inv, TypeOK
  <2>5. Control(v)' /\ LoginOK(v)'
    BY <2>4, <2>1, <1>1, <1>3 DEF Control, LoginOK
  <2>6. CallOK(v)'
    <3>1. HandedOut(l)'
      BY <2>4, <1>2, <1>6 DEF HandedOut
    <3>2. Valid(token'[l], at'[v] + ahead'[r])
      BY <1>2, <1>6, <2>4 DEF Local
    <3> QED
      BY <1>1, <1>5, <1>6, <2>1, <2>4, <3>1, <3>2 DEF CallOK
  <2>7. EntitledOK(v)'
    <3>1. Caller(v)' = token[l].sub
      BY <1>1, <2>4 DEF Caller
    <3>2. entitled'[v] = IsAdmin(token[l].sub)
      BY <2>2 DEF Inv, TypeOK
    <3> QED
      BY <1>2, <2>1, <2>4, <3>1, <3>2 DEF EntitledOK, IsAdmin
  <2>8. \A w \in Requests \ {v} : ReqOK(w)'
    BY <1>2, <2>1, <2>2, OtherRequests DEF Inv, TypeOK
  <2> QED
    BY <2>3, <2>5, <2>6, <2>7, <2>8 DEF Inv, ReqOK
<1>7. CASE Reject(v) /\ (l # NoRequest => ~Valid(token[l], Local(r)))
  <2>1. /\ UNCHANGED entitled
        /\ pc' = [pc EXCEPT ![v] = "done"]
        /\ answer' = [answer EXCEPT ![v] = "unauthorised"]
    BY <1>7 DEF Reject, Respond
  <2>2. TypeOK'
    BY <1>1, <1>2, <1>3, <2>1 DEF Inv, TypeOK, Answers
  <2>3. /\ pc'[v] = "done" /\ answer'[v] = "unauthorised" /\ req'[v] = q /\ at'[v] = now
        /\ token'[v] = NoToken
    BY <1>2, <1>4, <2>1 DEF Inv, TypeOK
  <2>4. Control(v)' /\ LoginOK(v)' /\ EntitledOK(v)'
    BY <2>3, <1>1, <1>3 DEF Control, LoginOK, EntitledOK
  <2>5. CallOK(v)'
    <3>1. ASSUME l # NoRequest
          PROVE  /\ HandedOut(l)' /\ req'[l] \in Logins /\ pc'[l] = "done"
                 /\ ~Valid(token'[l], at'[v] + ahead'[r])
      BY <1>2, <1>5, <1>7, <2>1, <2>3, <3>1 DEF HandedOut, Local, Inv, TypeOK
    <3> QED
      BY <1>1, <2>3, <3>1 DEF CallOK, TokenPassed, PastTheToken
  <2>6. \A w \in Requests \ {v} : ReqOK(w)'
    BY <1>2, <2>1, OtherRequests DEF Inv, TypeOK
  <2> QED
    BY <2>2, <2>4, <2>5, <2>6 DEF Inv, ReqOK
<1> QED
  BY <1>1, <1>6, <1>7 DEF Call, q

\* What the lookup answers.
LEMMA LookupInv ==
    ASSUME Inv, NEW v \in Requests, Lookup(v) \/ LookupFails(v)
    PROVE  Inv'
<1>1. PICK a \in {"success", "stranger", "error"} :
        /\ pc' = [pc EXCEPT ![v] = "done"] /\ answer' = [answer EXCEPT ![v] = a]
        /\ a = "success" => Caller(v) \in admins
  BY DEF Lookup, LookupFails, Respond
<1>2. pc[v] = "isDbAdmin" /\ UNCHANGED <<now, ahead, admins, req, token, at, entitled>>
  BY DEF Lookup, LookupFails
<1>3. TypeOK'
  BY <1>1, <1>2 DEF Inv, TypeOK, Answers
<1>4. pc'[v] = "done" /\ answer'[v] = a
  BY <1>1 DEF Inv, TypeOK
<1>5. ReqOK(v)
  BY DEF Inv
<1>6. Control(v)'
  BY <1>2, <1>4, <1>5 DEF ReqOK, Control
<1>7. LoginOK(v)'
  BY <1>2, <1>4, <1>5 DEF ReqOK, LoginOK, TokenPassed, PastTheToken, Built, Payload
<1>8. CallOK(v)'
  <2>1. SUFFICES ASSUME req[v] \in Calls PROVE CallOK(v)'
    BY <1>2 DEF CallOK
  <2>2. req[v].login # NoRequest /\ req[v].login \in Requests
    BY <1>2, <1>5, <2>1 DEF ReqOK, CallOK, TokenPassed, Calls
  <2>3. HandedOut(req[v].login)' /\ pc'[req[v].login] = "done"
    BY <1>1, <1>2, <1>5, <2>1, <2>2 DEF ReqOK, CallOK, HandedOut, Inv, TypeOK
  <2> QED
    BY <1>2, <1>4, <1>5, <2>1, <2>2, <2>3 DEF ReqOK, CallOK, TokenPassed, PastTheToken, Valid
<1>9. EntitledOK(v)'
  BY <1>1, <1>2, <1>4, <1>5 DEF ReqOK, EntitledOK
<1>10. \A w \in Requests \ {v} : ReqOK(w)'
  BY <1>1, <1>2, OtherRequests DEF Inv, TypeOK
<1> QED
  BY <1>3, <1>6, <1>7, <1>8, <1>9, <1>10 DEF Inv, ReqOK

\* The clock and the table are not the requests' own.
LEMMA EnvironmentInv ==
    ASSUME Inv, Tick \/ \E w \in Wallets : AddAdmin(w) \/ RemoveAdmin(w)
    PROVE  Inv'
<1>1. UNCHANGED <<ahead, pc, req, token, answer, at>> /\ admins' \subseteq Wallets
      /\ now' \in 0 .. MaxTime
  BY ClockAssumption DEF Tick, AddAdmin, RemoveAdmin, Inv, TypeOK
<1>2. PICK added \in SUBSET Wallets :
        /\ admins' \subseteq admins \cup added
        /\ entitled' = [v \in Requests |-> entitled[v] \/ (pc[v] = "isDbAdmin" /\ Caller(v) \in added)]
  <2>1. CASE UNCHANGED <<admins, entitled>>
    <3>1. entitled = [v \in Requests |-> entitled[v] \/ (pc[v] = "isDbAdmin" /\ Caller(v) \in {})]
      BY Zenon DEF Inv, TypeOK
    <3> {} \in SUBSET Wallets
      OBVIOUS
    <3> WITNESS {} \in SUBSET Wallets
    <3> QED
      BY <2>1, <3>1
  <2>2. ASSUME NEW w \in Wallets, AddAdmin(w)
        PROVE  \E added \in SUBSET Wallets :
                 /\ admins' \subseteq admins \cup added
                 /\ entitled' = [v \in Requests |->
                                   entitled[v] \/ (pc[v] = "isDbAdmin" /\ Caller(v) \in added)]
    <3>1. admins' = admins \cup {w}
          /\ entitled' = [v \in Requests |-> entitled[v] \/ (pc[v] = "isDbAdmin" /\ Caller(v) = w)]
      BY <2>2 DEF AddAdmin
    <3>2. entitled' = [v \in Requests |-> entitled[v] \/ (pc[v] = "isDbAdmin" /\ Caller(v) \in {w})]
      BY <3>1, Zenon
    <3> {w} \in SUBSET Wallets
      OBVIOUS
    <3> WITNESS {w} \in SUBSET Wallets
    <3> QED
      BY <3>1, <3>2
  <2>3. ASSUME NEW w \in Wallets, RemoveAdmin(w)
        PROVE  \E added \in SUBSET Wallets :
                 /\ admins' \subseteq admins \cup added
                 /\ entitled' = [v \in Requests |->
                                   entitled[v] \/ (pc[v] = "isDbAdmin" /\ Caller(v) \in added)]
    <3>1. admins' \subseteq admins /\ entitled' = entitled
      BY <2>3 DEF RemoveAdmin
    <3>2. entitled = [v \in Requests |-> entitled[v] \/ (pc[v] = "isDbAdmin" /\ Caller(v) \in {})]
      BY Zenon DEF Inv, TypeOK
    <3> {} \in SUBSET Wallets
      OBVIOUS
    <3> WITNESS {} \in SUBSET Wallets
    <3> QED
      BY <3>1, <3>2
  <2> QED
    BY <2>1, <2>2, <2>3 DEF Tick
<1>3. entitled' \in [Requests -> BOOLEAN]
  <2>1. \A v \in Requests : (entitled[v] \/ (pc[v] = "isDbAdmin" /\ Caller(v) \in added)) \in BOOLEAN
    OBVIOUS
  <2> QED
    BY <1>2, <2>1, Zenon
<1>4. TypeOK'
  BY <1>1, <1>3 DEF Inv, TypeOK
<1>5. ASSUME NEW v \in Requests
      PROVE  ReqOK(v)'
  <2>1. ReqOK(v)
    BY DEF Inv
  <2>2. Control(v)' /\ LoginOK(v)'
    BY <1>1, <2>1 DEF ReqOK, Control, LoginOK, TokenPassed, PastTheToken, Built, Payload
  <2>3. CallOK(v)'
    BY <1>1, <2>1 DEF ReqOK, CallOK, TokenPassed, PastTheToken, HandedOut, Valid
  <2>4. entitled'[v] <=> entitled[v] \/ (pc[v] = "isDbAdmin" /\ Caller(v) \in added)
    BY <1>2, Zenon
  <2>5. Caller(v)' = Caller(v)
    BY <1>1 DEF Caller
  <2>6. EntitledOK(v)'
    BY <1>1, <1>2, <2>1, <2>4, <2>5 DEF ReqOK, EntitledOK
  <2> QED
    BY <2>2, <2>3, <2>6 DEF ReqOK
<1> QED
  BY <1>4, <1>5 DEF Inv

LEMMA NextInv == Inv /\ [Next]_vars => Inv'
<1> SUFFICES ASSUME Inv, [Next]_vars PROVE Inv'
  OBVIOUS
<1>1. CASE UNCHANGED vars
  BY <1>1 DEF vars, Inv, TypeOK, ReqOK, Control, LoginOK, CallOK, EntitledOK, TokenPassed,
     PastTheToken, HandedOut, Valid, Caller, Built, Payload
<1>2. CASE Tick \/ \E w \in Wallets : AddAdmin(w) \/ RemoveAdmin(w)
  BY <1>2, EnvironmentInv
<1>3. CASE \E v \in Requests, r \in Replicas, p \in Presentable : \E s \in {p.address, Nobody} :
             SignIn(v, r, [kind |-> "login", payload |-> p, signer |-> s])
  BY <1>3, SignInInv
<1>4. CASE \E v \in Requests, r \in Replicas, l \in Requests \cup {NoRequest} :
             Call(v, r, [kind |-> "call", login |-> l])
  BY <1>4, CallInv
<1>5. CASE \E v \in Requests : Lookup(v) \/ LookupFails(v)
  BY <1>5, LookupInv
<1> QED
  BY <1>1, <1>2, <1>3, <1>4, <1>5 DEF Next

\* The inductive invariant.
THEOREM Invariance == Spec => []Inv
<1>1. Init => Inv
  BY InitInv
<1>2. Inv /\ [Next]_vars => Inv'
  BY NextInv
<1> QED
  BY <1>1, <1>2, PTL DEF Spec

-----------------------------------------------------------------------------
\* Every variable of sign-in keeps its type, for any wallets, requests and lifetimes.
THEOREM TypeCorrect == Spec => []TypeOK
<1>1. Inv => TypeOK
  BY DEF Inv
<1> QED
  BY <1>1, Invariance, PTL

\* The login a request comes from, when there is one.
LEMMA LoginOfFacts ==
    ASSUME Inv, NEW v \in Requests, answer[v] # "none", LoginOf(v) \in Requests
    PROVE  /\ req[LoginOf(v)] \in Logins /\ pc[LoginOf(v)] # "waiting"
           /\ LoginOK(LoginOf(v))
           /\ LoginOf(v) = v <=> req[v] \in Logins
           /\ req[v] \in Calls =>
                 /\ req[v].login = LoginOf(v) /\ HandedOut(LoginOf(v)) /\ LoginOf(v) # NoRequest
<1>1. ReqOK(v) /\ pc[v] # "waiting" /\ req[v] \in Logins \cup Calls
  BY DEF Inv, ReqOK, Control, TypeOK
<1>2. CASE req[v] \in Logins
  BY <1>1, <1>2, Kinds DEF LoginOf, ReqOK
<1>3. CASE req[v] \in Calls
  <2>1. LoginOf(v) = req[v].login /\ req[v] \notin Logins
    BY <1>3, Kinds DEF LoginOf
  <2>2. LoginOf(v) # NoRequest
    BY NoneAssumption
  <2>3. req[LoginOf(v)] \in Logins /\ pc[LoginOf(v)] = "done" /\ HandedOut(LoginOf(v))
    BY <1>1, <1>3, <2>1, <2>2 DEF ReqOK, CallOK
  <2>4. LoginOK(LoginOf(v))
    BY DEF Inv, ReqOK
  <2> QED
    BY <1>3, <2>1, <2>2, <2>3, <2>4
<1> QED
  BY <1>1, <1>2, <1>3

\* How the times of the checks bound the time that passed between them.
LEMMA TokenTimes ==
    ASSUME NEW x \in Int, NEW y \in Int, NEW dx \in 0 .. Skew, NEW dy \in 0 .. Skew,
           NEW w \in Wallets
    PROVE  /\ Valid(Issued(w, y + dy), x + dx) => x - y < TokenTTL * Second + Skew
           /\ ~Valid(Issued(w, y + dy), x + dx) => x - y > (TokenTTL - 1) * Second - Skew
<1> DEFINE i == (x + dx) \div Second
           j == (y + dy) \div Second
<1>1. x + dx \in Int /\ y + dy \in Int /\ Skew \in Nat /\ TokenTTL \in Nat /\ Second \in Nat \ {0}
  BY ClockAssumption
<1>2. /\ i \in Int /\ Second * i <= x + dx /\ x + dx < Second * i + Second
      /\ j \in Int /\ Second * j <= y + dy /\ y + dy < Second * j + Second
  BY <1>1, SecondsFacts
<1>3. Valid(Issued(w, y + dy), x + dx) <=> i < j + TokenTTL
  BY DEF Valid, Issued
<1> HIDE DEF i, j
<1>4. Second * (j + TokenTTL) = Second * j + TokenTTL * Second
      /\ (TokenTTL - 1) * Second = TokenTTL * Second - Second
      /\ Second * (j + TokenTTL - 1) = Second * j + TokenTTL * Second - Second
      /\ TokenTTL * Second \in Int /\ Second * j \in Int /\ Second * i \in Int
  BY <1>1, <1>2, SMTT(30)
<1>5. CASE i < j + TokenTTL
  <2>1. i <= j + TokenTTL - 1
    BY <1>1, <1>2, <1>5
  <2>2. Second * i <= Second * (j + TokenTTL - 1)
    BY <1>1, <1>2, <2>1, SMTT(30)
  <2>3. x - y < TokenTTL * Second + Skew
    BY <1>1, <1>2, <1>4, <2>2
  <2> QED
    BY <1>3, <1>5, <2>3
<1>6. CASE ~(i < j + TokenTTL)
  <2>1. Second * (j + TokenTTL) <= Second * i
    BY <1>1, <1>2, <1>6, SMTT(30)
  <2>2. x - y > (TokenTTL - 1) * Second - Skew
    BY <1>1, <1>2, <1>4, <2>1
  <2> QED
    BY <1>3, <1>6, <2>2
<1> QED
  BY <1>5, <1>6

\* The same for the window of a payload that was built by a replica.
LEMMA PayloadTimes ==
    ASSUME TypeOK, NEW p \in Payloads, Built(p), p.built # NoTime, NEW r \in Replicas, NEW t \in Int
    PROVE  /\ Live(p, t + ahead[r]) => t - p.built <= PayloadTTL + Skew
           /\ ~Live(p, t + ahead[r]) => t - p.built > PayloadTTL - Skew \/ t < p.built
<1>1. p.built \in Int
  BY DEF Payloads
<1>2. PICK s \in Replicas : p = Payload(p.address, s, p.built)
  BY DEF Built
<1>3. /\ p.from = p.built + ahead[s] - PayloadTTL
      /\ p.until = p.built + ahead[s] + PayloadTTL
  BY <1>2 DEF Payload
<1>4. /\ ahead[s] \in 0 .. Skew /\ ahead[r] \in 0 .. Skew
      /\ Skew \in Nat /\ PayloadTTL \in Nat
  BY ClockAssumption DEF TypeOK
<1>5. p.from # NoDate /\ p.until # NoDate
  BY <1>1, <1>3, <1>4, NoneAssumption
<1> QED
  BY <1>1, <1>3, <1>4, <1>5 DEF Live

\* Signatures and tokens are good for their lifetimes and the skew at most.
THEOREM SessionsEndHolds == Spec => []SessionsEnd
<1>1. Inv => SessionsEnd
  <2>1. SUFFICES ASSUME Inv, NEW v \in Requests, PastTheToken(v)
                 PROVE  /\ LoginOf(v) \in Requests
                        /\ LoginOf(v) # v =>
                              at[v] - at[LoginOf(v)] < TokenTTL * Second + Skew
                        /\ req[LoginOf(v)].payload.built # NoTime =>
                              at[LoginOf(v)] - req[LoginOf(v)].payload.built <= PayloadTTL + Skew
    BY DEF SessionsEnd
  <2>2. ReqOK(v) /\ pc[v] # "waiting" /\ req[v] \in Logins \cup Calls /\ answer[v] # "none"
        /\ at[v] \in Int /\ TypeOK
    BY <2>1 DEF Inv, ReqOK, Control, TypeOK, PastTheToken
  <2>3. LoginOf(v) \in Requests
    <3>1. CASE req[v] \in Logins
      BY <3>1, Kinds DEF LoginOf
    <3>2. CASE req[v] \in Calls
      BY <2>1, <2>2, <3>2, Kinds DEF LoginOf, ReqOK, CallOK, TokenPassed, Calls
    <3> QED
      BY <2>2, <3>1, <3>2
  <2> DEFINE l == LoginOf(v)
  <2>4. l \in Requests /\ req[l] \in Logins /\ LoginOK(l) /\ pc[l] # "waiting" /\ at[l] \in Int
        /\ (l = v <=> req[v] \in Logins)
        /\ (req[v] \in Calls => req[v].login = l /\ HandedOut(l) /\ l # NoRequest)
    <3>1. at[l] \in Int \/ pc[l] = "waiting"
      BY <2>1, <2>3 DEF Inv, ReqOK, Control
    <3> QED
      BY <2>1, <2>2, <2>3, <3>1, LoginOfFacts
  <2> HIDE DEF l
  <2>5. token[l] # NoToken
    <3>1. CASE l = v
      BY <2>1, <2>4, <3>1 DEF LoginOK, TokenPassed
    <3>2. CASE req[v] \in Calls
      BY <2>4, <3>2 DEF HandedOut
    <3> QED
      BY <2>2, <2>4, <3>1, <3>2
  <2>6. PICK r \in Replicas : /\ Accepted(req[l], at[l] + ahead[r])
                              /\ token[l] = Issued(req[l].payload.address, at[l] + ahead[r])
    BY <2>4, <2>5 DEF LoginOK
  <2>7. req[l].payload \in Payloads /\ req[l].payload.address \in Wallets
        /\ \A s \in Replicas : ahead[s] \in 0 .. Skew
    BY <2>2, <2>4 DEF Logins, Payloads, TypeOK
  <2>8. l # v => at[v] - at[l] < TokenTTL * Second + Skew
    <3>1. SUFFICES ASSUME l # v PROVE at[v] - at[l] < TokenTTL * Second + Skew
      OBVIOUS
    <3>2. PICK s \in Replicas : Valid(token[l], at[v] + ahead[s])
      BY <2>1, <2>2, <2>4, <3>1 DEF ReqOK, CallOK, TokenPassed
    <3> QED
      BY <2>2, <2>4, <2>6, <2>7, <3>2, TokenTimes
  <2>9. req[l].payload.built # NoTime => at[l] - req[l].payload.built <= PayloadTTL + Skew
    BY <2>2, <2>4, <2>6, <2>7, PayloadTimes DEF LoginOK, Accepted
  <2> QED
    BY <2>3, <2>8, <2>9 DEF l
<1> QED
  BY <1>1, Invariance, PTL

\* A live signature, and a live token, are never answered with a 401.
THEOREM LiveSessionsLastHolds == Spec => []LiveSessionsLast
<1>1. Inv => LiveSessionsLast
  <2>1. SUFFICES ASSUME Inv, NEW v \in Requests, answer[v] = "unauthorised",
                        LoginOf(v) \in Requests
                 PROVE  /\ LoginOf(v) # v =>
                              at[v] - at[LoginOf(v)] > (TokenTTL - 1) * Second - Skew
                        /\ LoginOf(v) = v =>
                              (Recovers(req[v]) /\ req[v].payload.domain = AuthDomain
                                 /\ req[v].payload.built # NoTime =>
                                  at[v] - req[v].payload.built > PayloadTTL - Skew)
    BY DEF LiveSessionsLast
  <2>2. ReqOK(v) /\ pc[v] # "waiting" /\ req[v] \in Logins \cup Calls /\ at[v] \in Int /\ TypeOK
    BY <2>1 DEF Inv, ReqOK, Control, TypeOK
  <2> DEFINE l == LoginOf(v)
  <2>3. l \in Requests /\ req[l] \in Logins /\ LoginOK(l) /\ at[l] \in Int
        /\ (l = v <=> req[v] \in Logins)
        /\ (req[v] \in Calls => req[v].login = l /\ HandedOut(l) /\ l # NoRequest)
    <3>1. at[l] \in Int \/ pc[l] = "waiting"
      BY <2>1 DEF Inv, ReqOK, Control
    <3> QED
      BY <2>1, <2>2, <3>1, LoginOfFacts
  <2> HIDE DEF l
  <2>4. req[l].payload \in Payloads /\ req[l].payload.address \in Wallets
        /\ \A s \in Replicas : ahead[s] \in 0 .. Skew
    BY <2>2, <2>3 DEF Logins, Payloads, TypeOK
  <2>5. ASSUME l # v
        PROVE  at[v] - at[l] > (TokenTTL - 1) * Second - Skew
    <3>1. PICK s \in Replicas : ~Valid(token[l], at[v] + ahead[s])
      BY <2>1, <2>2, <2>3, <2>5 DEF ReqOK, CallOK
    <3>2. PICK r \in Replicas : token[l] = Issued(req[l].payload.address, at[l] + ahead[r])
      BY <2>2, <2>3, <2>5 DEF HandedOut, LoginOK
    <3> QED
      BY <2>2, <2>3, <2>4, <3>1, <3>2, TokenTimes
  <2>6. ASSUME l = v, Recovers(req[v]), req[v].payload.domain = AuthDomain,
               req[v].payload.built # NoTime
        PROVE  at[v] - req[v].payload.built > PayloadTTL - Skew
    <3>1. PICK r \in Replicas : ~Accepted(req[v], at[v] + ahead[r])
      BY <2>1, <2>3, <2>6 DEF LoginOK
    <3>2. ~Live(req[v].payload, at[v] + ahead[r])
      BY <2>6, <3>1 DEF Accepted
    <3>3. req[v].payload.built <= at[v] /\ Built(req[v].payload) /\ req[v].payload.built \in Int
      BY <2>3, <2>4, <2>6 DEF LoginOK, Payloads
    <3> QED
      BY <2>2, <2>3, <2>4, <2>6, <3>2, <3>3, PayloadTimes
  <2> QED
    BY <2>5, <2>6 DEF l
<1> QED
  BY <1>1, Invariance, PTL

\* Nobody succeeds who was no administrator while his request ran, or whose wallet
\* did not sign for this site.
THEOREM OnlyAdministratorsEnterHolds == Spec => []OnlyAdministratorsEnter
<1>1. Inv => OnlyAdministratorsEnter
  <2>1. SUFFICES ASSUME Inv, NEW v \in Requests, answer[v] = "success"
                 PROVE  /\ entitled[v] /\ entitled[LoginOf(v)] /\ answer[LoginOf(v)] = "success"
                        /\ Recovers(req[LoginOf(v)])
                        /\ req[LoginOf(v)].payload.domain = AuthDomain
                        /\ Caller(v) = req[LoginOf(v)].payload.address
    BY DEF OnlyAdministratorsEnter
  <2>2. ReqOK(v) /\ req[v] \in Logins \cup Calls /\ TypeOK
    BY <2>1 DEF Inv, ReqOK, Control, TypeOK
  <2>3. CASE req[v] \in Logins
    <3>1. LoginOf(v) = v /\ Caller(v) = req[v].payload.address
      BY <2>3, Kinds DEF LoginOf, Caller
    <3>2. \E r \in Replicas : Accepted(req[v], at[v] + ahead[r])
      BY <2>1, <2>2, <2>3 DEF ReqOK, LoginOK, TokenPassed, PastTheToken
    <3> QED
      BY <2>1, <2>2, <3>1, <3>2 DEF ReqOK, EntitledOK, Accepted
  <2>4. CASE req[v] \in Calls
    <3>1. req[v].login \in Requests /\ HandedOut(req[v].login) /\ req[req[v].login] \in Logins
      BY <2>1, <2>2, <2>4 DEF ReqOK, CallOK, TokenPassed, PastTheToken, Calls
    <3>2. LoginOf(v) = req[v].login /\ Caller(v) = token[req[v].login].sub
      BY <2>4, Kinds DEF LoginOf, Caller
    <3>3. ReqOK(req[v].login)
      BY <2>1, <3>1 DEF Inv
    <3>4. PICK r \in Replicas :
             /\ Accepted(req[req[v].login], at[req[v].login] + ahead[r])
             /\ token[req[v].login] = Issued(req[req[v].login].payload.address, at[req[v].login] + ahead[r])
      BY <3>1, <3>3 DEF ReqOK, LoginOK, HandedOut
    <3>5. token[req[v].login].sub = req[req[v].login].payload.address
      BY <3>4 DEF Issued
    <3> QED
      BY <2>1, <2>2, <3>1, <3>2, <3>3, <3>4, <3>5 DEF ReqOK, EntitledOK, HandedOut, Accepted
  <2> QED
    BY <2>2, <2>3, <2>4
<1> QED
  BY <1>1, Invariance, PTL
=============================================================================
