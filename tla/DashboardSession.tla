--------------------------- MODULE DashboardSession ---------------------------
(***************************************************************************)
(* The session of the admin dashboard: the token in the browser's storage, *)
(* which all tabs share, and in each tab the connected wallet, the gate    *)
(* before the pages, and the requests under way (src/dashboard/src/api.ts, *)
(* auth.ts, App.tsx), against a server that takes the wallet off the list  *)
(* of administrators, lets tokens expire, and may fail.                    *)
(*                                                                         *)
(* A request carries the token that is stored when it is sent; its answer  *)
(* arrives later, when another token may be stored, another tab may have   *)
(* cleared it, or the wallet may be gone.  Connecting and disconnecting    *)
(* wallets is thirdweb's part, modelled from how App.tsx uses it; connect, *)
(* account and wallet change together.  There is one wallet.               *)
(*                                                                         *)
(* Left out: what the pages and the banner show, the answers that change   *)
(* nothing but that, and getLoginPayload's own failure, which is a sign-in *)
(* that was not begun.  The specification's own formulas have Session in   *)
(* their names, so that AdminPlaneProofs can extend this module as well.   *)
(***************************************************************************)
EXTENDS Integers, FiniteSets

CONSTANTS Tabs,
          MaxLogins,        \* bound: tokens ever issued
          MaxCalls,         \* bound: a tab's requests under way
          MaxEvents         \* bound: changes of the list, expiries, failures and reloads

ASSUME BoundsAssumption == MaxLogins \in Nat \ {0} /\ MaxCalls \in Nat /\ MaxEvents \in Nat

NoToken == 0
Tokens == 1 .. MaxLogins

VARIABLES
    token,      \* localStorage
    admin,      \* server: is the wallet on the list?
    issued,     \* server: how many tokens it gave out
    expired,    \* server: those it takes no more
    connected,  \* account and wallet of each tab
    authed,
    calls,      \* requests under way: tab, kind ("me" is GET /auth/me, "login" POST
                \* /auth/login, "api" any request of api.ts), token, and as result
                \* "pending", "ok", "refused" or "failed"
    cleared,    \* history: the tab that emptied the storage last, until a request
                \* of it fails
    events      \* how many of the bounded events happened

sessionVars == <<token, admin, issued, expired, connected, authed, calls, cleared, events>>
server == <<admin, issued, expired, events>>

Shown(t) == authed[t] /\ connected[t]
Of(t) == {c \in calls : c.tab = t}

\* Fresh tabs: their first effect asks for the stored token, if there is one.  Token 1
\* was given out before, and may be gone.
SessionInit ==
    /\ token \in {NoToken, 1}
    /\ admin \in BOOLEAN
    /\ issued = 1
    /\ expired = {}
    /\ connected = [t \in Tabs |-> FALSE]
    /\ authed = [t \in Tabs |-> FALSE]
    /\ calls = {[tab |-> t, kind |-> "me", token |-> token, result |-> "pending"] :
                   t \in IF token = NoToken THEN {} ELSE Tabs}
    /\ cleared = {}
    /\ events = 0

-----------------------------------------------------------------------------
(* One turn of a tab *)

Request(t, kind, tok) == [tab |-> t, kind |-> kind, token |-> tok, result |-> "pending"]

\* The tab's state becomes this.  Effects and newly shown pages send their requests
\* with what is stored by then: the effect on [account] asks who is signed in when
\* the wallet came or went, and a page that appears loads its list.  Without a token
\* isLoggedIn says no; without a wallet nobody is authed.
Turn(t, stored, isConnected, isAuthed, rest) ==
    LET changed == isConnected # connected[t]
        appears == isConnected /\ isAuthed /\ ~Shown(t)
    IN
    /\ token' = stored
    /\ connected' = [connected EXCEPT ![t] = isConnected]
    /\ authed' = [authed EXCEPT ![t] = isAuthed /\ (changed => isConnected /\ stored # NoToken)]
    /\ calls' = rest
         \cup {Request(t, "me", stored) : x \in IF changed /\ stored # NoToken THEN {1} ELSE {}}
         \cup {Request(t, "api", stored) : x \in IF appears THEN {1} ELSE {}}
    /\ cleared' = IF stored = NoToken /\ token # NoToken THEN {t}
                  ELSE IF \E c \in calls \ rest : c.result = "failed" THEN cleared \ {t}
                  ELSE cleared

\* Bound: the requests a tab has under way.
Room(t) == Cardinality(Of(t)) < MaxCalls

\* The wallet connects: by itself after a reload, or by the user's click.
Connect(t) ==
    /\ ~connected[t] /\ Room(t)
    /\ Turn(t, token, TRUE, authed[t], calls)
    /\ UNCHANGED server

\* The user disconnects the wallet: doLogout empties the storage.
Logout(t) ==
    /\ connected[t]
    /\ Turn(t, NoToken, FALSE, authed[t], calls)
    /\ UNCHANGED server

\* getLoginPayload (push-admin-login-start), the signature, and doLogin.
SignIn(t) ==
    /\ connected[t] /\ ~authed[t] /\ Room(t)
    /\ ~\E c \in Of(t) : c.kind = "login"
    /\ calls' = calls \cup {Request(t, "login", NoToken)}
    /\ UNCHANGED <<token, server, connected, authed, cleared>>

\* Something on a page is clicked.
Act(t) ==
    /\ Shown(t) /\ Room(t)
    /\ calls' = calls \cup {Request(t, "api", token)}
    /\ UNCHANGED <<token, server, connected, authed, cleared>>

\* The tab is closed and opened again: nothing hears the answers of its requests.
Reload(t) ==
    /\ events < MaxEvents
    /\ events' = events + 1
    /\ connected' = [connected EXCEPT ![t] = FALSE]
    /\ authed' = [authed EXCEPT ![t] = FALSE]
    /\ calls' = (calls \ Of(t))
         \cup {Request(t, "me", token) : x \in IF token = NoToken THEN {} ELSE {1}}
    /\ UNCHANGED <<token, admin, issued, expired, cleared>>

-----------------------------------------------------------------------------
(* The server *)

\* requireAdmin looks at the list, /auth/me at the token only, and a login is refused
\* for its wallet.
Verdict(c) ==
    CASE c.kind = "api" -> IF c.token # NoToken /\ c.token \notin expired /\ admin THEN "ok" ELSE "refused"
      [] c.kind = "me" -> IF c.token \notin expired THEN "ok" ELSE "refused"
      [] c.kind = "login" -> IF admin THEN "ok" ELSE "refused"

\* The server decides; a login that is let in gets its token, and the list a page asked
\* for changes only what that page shows.
Decide(c) ==
    /\ c.result = "pending"
    /\ \/ c.kind = "login" /\ admin /\ issued < MaxLogins
          /\ issued' = issued + 1
          /\ calls' = (calls \ {c}) \cup {[c EXCEPT !.result = "ok", !.token = issued + 1]}
       \/ c.kind = "api" /\ Verdict(c) = "ok"
          /\ calls' = calls \ {c} /\ UNCHANGED issued
       \/ (c.kind = "me" \/ Verdict(c) = "refused")
          /\ calls' = (calls \ {c}) \cup {[c EXCEPT !.result = Verdict(c)]}
          /\ UNCHANGED issued
    /\ UNCHANGED <<token, admin, expired, connected, authed, cleared, events>>

\* It answers 5xx, or the network loses the request or its answer.  isLoggedIn takes the
\* first for a no; the others know no difference.
Fail(c) ==
    /\ c.result = "pending" /\ events < MaxEvents
    /\ events' = events + 1
    /\ \/ calls' = (calls \ {c}) \cup {[c EXCEPT !.result = "failed"]}
       \/ c.kind = "me" /\ calls' = (calls \ {c}) \cup {[c EXCEPT !.result = "refused"]}
    /\ UNCHANGED <<token, admin, issued, expired, connected, authed, cleared>>

\* Administrators take the wallet off the list and put it back.
ChangeList ==
    /\ events < MaxEvents
    /\ events' = events + 1
    /\ admin' = ~admin
    /\ UNCHANGED <<token, issued, expired, connected, authed, calls, cleared>>

Expire(tok) ==
    /\ events < MaxEvents /\ tok <= issued /\ tok \notin expired
    /\ events' = events + 1
    /\ expired' = expired \cup {tok}
    /\ UNCHANGED <<token, admin, issued, connected, authed, calls, cleared>>

-----------------------------------------------------------------------------
(* Answers *)

\* Mutants of HearApi: the token stays; the shell is not told.
HearApiKeepingToken(c) ==
    LET t == c.tab IN
    /\ c.kind = "api" /\ c.result # "pending"
    /\ IF c.result = "refused" THEN Turn(t, token, FALSE, FALSE, calls \ {c})
                               ELSE Turn(t, token, connected[t], authed[t], calls \ {c})
    /\ UNCHANGED server

HearApiQuietly(c) ==
    LET t == c.tab IN
    /\ c.kind = "api" /\ c.result # "pending"
    /\ Turn(t, IF c.result = "refused" THEN NoToken ELSE token, connected[t], authed[t], calls \ {c})
    /\ UNCHANGED server

\* req: 401 and 403 clear whatever token is stored, close the gate and disconnect.
HearApi(c) ==
    LET t == c.tab IN
    /\ c.kind = "api" /\ c.result # "pending"
    /\ IF c.result = "refused" THEN Turn(t, NoToken, FALSE, FALSE, calls \ {c})
                               ELSE Turn(t, token, connected[t], authed[t], calls \ {c})
    /\ UNCHANGED server

\* isLoggedIn().then(setAuthed), whatever happened since; a lost request rejects, and
\* nobody catches it.
HearMe(c) ==
    LET t == c.tab IN
    /\ c.kind = "me" /\ c.result # "pending"
    /\ Turn(t, token, connected[t], IF c.result = "failed" THEN authed[t] ELSE c.result = "ok", calls \ {c})
    /\ UNCHANGED server

\* doLogin: the token is stored and the gate opens; a 403 closes it and disconnects; any
\* other error is thirdweb's to show.
HearLogin(c) ==
    LET t == c.tab
        rest == calls \ {c}
    IN
    /\ c.kind = "login" /\ c.result # "pending"
    /\ CASE c.result = "ok" -> Turn(t, c.token, connected[t], TRUE, rest)
         [] c.result = "refused" -> Turn(t, token, FALSE, FALSE, rest)
         [] OTHER -> Turn(t, token, connected[t], authed[t], rest)
    /\ UNCHANGED server

Hear(c) == HearApi(c) \/ HearMe(c) \/ HearLogin(c)

SessionNext ==
    \/ \E t \in Tabs : Connect(t) \/ Logout(t) \/ SignIn(t) \/ Act(t) \/ Reload(t)
    \/ \E c \in calls : Decide(c) \/ Fail(c) \/ Hear(c)
    \/ ChangeList \/ \E tok \in Tokens : Expire(tok)

SessionSpec == SessionInit /\ [][SessionNext]_sessionVars

\* The server goes on answering the requests of each kind, and the event loop of a tab
\* starves no answer.
FairSessionSpec ==
    /\ SessionSpec
    /\ \A t \in Tabs, kind \in {"me", "login", "api"} :
          /\ WF_sessionVars(\E c \in Of(t) : c.kind = kind /\ Decide(c))
          /\ WF_sessionVars(\E c \in Of(t) : c.kind = kind /\ Hear(c))

-----------------------------------------------------------------------------
\* A wallet that is taken off the list for good is locked out of every tab that goes
\* on asking, and stays out: also of a tab whose gate an answer of /auth/me, which
\* knows nothing of the list, opens again.
RemovedAdministratorsLeave ==
    (<>[]~admin /\ \A t \in Tabs : []<>(~Shown(t) \/ \E c \in Of(t) : c.kind = "api"))
        => <>[](\A t \in Tabs : ~Shown(t))

\* A tab that goes on showing its pages without a token, and with no request under way,
\* lost the token to another tab, or the server did not answer it: what it did to the
\* token itself closes its own gate, in whatever order the answers come.
OwnRefusalsCloseTheGate ==
    \A t \in Tabs : Shown(t) /\ token = NoToken /\ Of(t) = {} => t \notin cleared
=============================================================================
