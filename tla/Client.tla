------------------------------- MODULE Client -------------------------------
(***************************************************************************)
(* The browser SDK: PushClient.subscribe and unsubscribe                   *)
(* (src/client/src/index.ts) as the usePush hook (src/client/src/react.ts) *)
(* calls them, in several tabs of one browser, over the network to POST    *)
(* and DELETE /subscriptions.                                              *)
(*                                                                         *)
(* Three places hold what should be one fact: the browser its only push    *)
(* subscription, the server its row, and each tab's hook a flag.  A call   *)
(* is cut at its awaits, so calls of one tab or of two interleave, and a   *)
(* request may reach the server after its caller gave up, or never.        *)
(*                                                                         *)
(* A channel is the number of its endpoint; the browser makes them fresh.  *)
(* The server's handlers are single steps here: Subscriptions has theirs.  *)
(***************************************************************************)
EXTENDS Naturals

CONSTANTS Users,
          MaxTabs,        \* bound: the tabs, numbered as they are used first
          MaxCalls,       \* bound: the calls, numbered as they begin
          Asks,           \* the users and whether they sign, of a subscribe()
          ServerKeys,     \* the VAPID public keys the server may be configured with
          FirstKey,       \* the one it starts with
          ForeignKey,     \* the key of another service, such as a leftover Firebase
          MaxEndpoint,    \* bound: the channels the browser ever makes
          MaxEvents,      \* bound: the events of the environment
          NoRow, NoKey, NoAsk

ASSUME ClientAssumption ==
    /\ ForeignKey \notin ServerKeys /\ NoKey \notin ServerKeys \cup {ForeignKey}
    /\ FirstKey \in ServerKeys
    /\ Asks \subseteq [user : Users, signs : BOOLEAN]
    /\ NoRow \notin [user : Users, verified : BOOLEAN, disabled : BOOLEAN]
    /\ MaxTabs \in Nat /\ MaxCalls \in Nat /\ MaxEndpoint \in Nat /\ MaxEvents \in Nat

VARIABLES
    permission,   \* Notification.permission
    registered,   \* whether the service worker is registered
    sub,          \* the browser's subscription: its endpoint, or None
    last,         \* the last endpoint made
    madeUnder,    \* the applicationServerKey each endpoint was made with
    row,          \* the server's row of each endpoint
    strict,       \* whether the app requires signatures; its changes are Subscriptions'
    serverKey,    \* the server's VAPID public key
    cached,       \* vapidPublicKey of each tab's PushClient
    mounted,      \* whether the hook of each tab has read the subscription
    subscribed,   \* what the hook of each tab shows
    loading,
    pc,           \* where each call waits, and how it ended
    args,         \* what each call was made with
    key,          \* its local applicationServerKey
    got,          \* its local subscription
    req,          \* its request to the server, which may outlive it
    events,       \* the environment's events so far
    alone         \* history: the call since whose begin nothing else moved

browser == <<permission, registered, sub, last, madeUnder>>
server == <<row, strict, serverKey>>
hooks == <<mounted, subscribed, loading>>
locals == <<args, key, got>>
vars == <<browser, server, cached, hooks, pc, locals, req, events, alone>>

None == 0
Tabs == 1..MaxTabs
Calls == 1..MaxCalls
Endpoints == 1..MaxEndpoint
Keys == ServerKeys \cup {ForeignKey}
Rows == [user : Users, verified : BOOLEAN, disabled : BOOLEAN]
Args == [tab : Tabs, op : {"subscribe"}, ask : Asks]
            \cup [tab : Tabs, op : {"unsubscribe"}, ask : {NoAsk}]
Done == {"resolved", "denied", "threw", "gone"}
Waiting == {"asking", "key", "keyAnswer", "lookup", "drop", "create", "signing", "answer"}

Tab(c) == args[c].tab
Subscribing(c) == args[c].op = "subscribe"
InFlight(c) == pc[c] \in Waiting

\* Where only the user can let a call go on: at the browser's prompt or the wallet's.
Prompts == {"asking", "signing"}

\* A browser with or without a channel of the other service, at first use.
Init ==
    /\ permission \in {"default", "granted", "denied"}
    /\ registered \in BOOLEAN
    /\ \/ sub = None /\ last = 0 /\ madeUnder = [e \in Endpoints |-> NoKey]
       \/ /\ permission = "granted" /\ registered /\ 1 \in Endpoints
          /\ sub = 1 /\ last = 1
          /\ madeUnder = [e \in Endpoints |-> IF e = 1 THEN ForeignKey ELSE NoKey]
    /\ row = [e \in Endpoints |-> NoRow]
    /\ strict \in BOOLEAN
    /\ serverKey = FirstKey
    /\ cached = [t \in Tabs |-> NoKey]
    /\ mounted = [t \in Tabs |-> FALSE]
    /\ subscribed = [t \in Tabs |-> FALSE]
    /\ loading = [t \in Tabs |-> FALSE]
    /\ pc = [c \in Calls |-> "idle"]
    /\ args = [c \in Calls |-> NoAsk]
    /\ key = [c \in Calls |-> NoKey]
    /\ got = [c \in Calls |-> None]
    /\ req = [c \in Calls |-> "none"]
    /\ events = 0
    /\ alone = None

-----------------------------------------------------------------------------
(* The hook around a call *)

Goto(c, label) == pc' = [pc EXCEPT ![c] = label]
Moves(c) == alone' = IF alone = c THEN c ELSE None
Overlapped(c) == \E d \in Calls \ {c} : InFlight(d) \/ req[d] = "sent"

\* setLoading(true) and the synchronous part of the call.
Begin(c, a, label) ==
    /\ pc[c] = "idle" /\ \A d \in 1..(c - 1) : pc[d] # "idle"
    /\ \A t \in 1..(a.tab - 1) : \E d \in 1..(c - 1) : Tab(d) = t
    /\ args' = [args EXCEPT ![c] = a]
    /\ Goto(c, label)
    /\ loading' = [loading EXCEPT ![a.tab] = label \in Waiting]
    /\ alone' = IF Overlapped(c) THEN None ELSE c
    /\ UNCHANGED <<browser, server, cached, mounted, subscribed, key, got, req, events>>

\* Ask only when the permission is undecided.
AfterPermission(p) ==
    CASE p = "default" -> "asking" [] p = "granted" -> "key" [] p = "denied" -> "denied"

Subscribe(c, t, ask) ==
    Begin(c, [tab |-> t, op |-> "subscribe", ask |-> ask], AfterPermission(permission))

Unsubscribe(c, t) == Begin(c, [tab |-> t, op |-> "unsubscribe", ask |-> NoAsk], "lookup")

\* The call resolved: the hook shows what it was for.
Resolve(c) ==
    /\ Goto(c, "resolved")
    /\ subscribed' = [subscribed EXCEPT ![Tab(c)] = Subscribing(c)]
    /\ loading' = [loading EXCEPT ![Tab(c)] = FALSE]

\* Mutant of Throw: the error skips the cleanup.
ThrowWithoutFinally(c, label) == Goto(c, label) /\ UNCHANGED <<subscribed, loading>>

\* The call threw: finally still runs.
Throw(c, label) ==
    /\ Goto(c, label)
    /\ loading' = [loading EXCEPT ![Tab(c)] = FALSE]
    /\ UNCHANGED subscribed

\* Goes on to the next await.
Continue(c, label) == Goto(c, label) /\ UNCHANGED <<subscribed, loading>>

\* The effect on mount, once a worker is ready.  Its getSubscription was asked for
\* before that of any call of the tab, and the browser answers in order.
Mounted(t) ==
    /\ ~mounted[t] /\ registered
    /\ mounted' = [mounted EXCEPT ![t] = TRUE]
    /\ subscribed' = [subscribed EXCEPT ![t] = sub # None]
    /\ UNCHANGED <<browser, server, cached, loading, pc, locals, req, events, alone>>

-----------------------------------------------------------------------------
(* PushClient *)

\* The user answers the prompt, closes it, or answered another tab's before; WebKit
\* answers "denied" without looking when no user activation is left.
Answer(c) ==
    /\ pc[c] = "asking"
    /\ permission' \in (IF permission = "default" THEN {"default", "granted", "denied"}
                                                 ELSE {permission})
    /\ \/ permission' = "granted" /\ Continue(c, "key")
       \/ permission' # "granted" /\ Throw(c, "denied")
       \/ permission' = permission /\ Throw(c, "denied")
    /\ Moves(c)
    /\ UNCHANGED <<registered, sub, last, madeUnder, server, cached, mounted, locals, req, events>>

\* The worker is registered and ready, then getVapidPublicKey: the key at hand, or a
\* request that the server has answered.
GetKey(c) ==
    /\ pc[c] = "key"
    /\ registered' = TRUE
    /\ LET known == cached[Tab(c)] IN
       IF known # NoKey
       THEN key' = [key EXCEPT ![c] = known] /\ Continue(c, "lookup")
       ELSE key' = [key EXCEPT ![c] = serverKey] /\ Continue(c, "keyAnswer")
    /\ Moves(c)
    /\ UNCHANGED <<permission, sub, last, madeUnder, server, cached, mounted, args, got, req, events>>

\* The answer arrives and is kept for the life of the PushClient.
KeepKey(c) ==
    /\ pc[c] = "keyAnswer"
    /\ cached' = [cached EXCEPT ![Tab(c)] = key[c]]
    /\ Continue(c, "lookup")
    /\ Moves(c)
    /\ UNCHANGED <<browser, server, mounted, locals, req, events>>

\* Mutant of KeysMatch: any subscription will do.
AnyKeyMatches(e, k) == TRUE

KeysMatch(e, k) == madeUnder[e] = k

\* sync: with signMessage a proof comes before the request.
ToServer(c) == IF Subscribing(c) /\ args[c].ask.signs THEN "signing" ELSE "answer"

\* Mutant of AfterLookup: the channel goes before the server is asked.
DropBeforeDelete(c, found) ==
    IF found = None THEN IF Subscribing(c) THEN "create" ELSE "resolved"
    ELSE IF Subscribing(c) /\ KeysMatch(found, key[c]) THEN ToServer(c) ELSE "drop"

\* What follows getSubscription.
AfterLookup(c, found) ==
    IF Subscribing(c)
    THEN IF found = None THEN "create" ELSE IF KeysMatch(found, key[c]) THEN ToServer(c) ELSE "drop"
    ELSE IF found = None THEN "resolved" ELSE "answer"

\* The request is under way: sync's POST or unsubscribe's DELETE.
Send(c) == req' = [req EXCEPT ![c] = "sent"]

SendIf(c, sends) == IF sends THEN Send(c) ELSE UNCHANGED req

\* pushManager.getSubscription, for unsubscribe() once a worker is ready, which may be
\* never; unsubscribe() without a subscription resolves false.
Lookup(c) ==
    /\ pc[c] = "lookup" /\ registered /\ mounted[Tab(c)]
    /\ got' = [got EXCEPT ![c] = sub]
    /\ IF AfterLookup(c, sub) = "resolved" THEN Resolve(c) ELSE Continue(c, AfterLookup(c, sub))
    /\ SendIf(c, AfterLookup(c, sub) = "answer")
    /\ Moves(c)
    /\ UNCHANGED <<browser, server, cached, mounted, args, key, events>>

\* subscription.unsubscribe(): a no-op on a subscription that is gone.
Drop(c) ==
    /\ pc[c] = "drop"
    /\ sub' = IF sub = got[c] THEN None ELSE sub
    /\ IF Subscribing(c) THEN Continue(c, "create") ELSE Resolve(c)
    /\ Moves(c)
    /\ UNCHANGED <<permission, registered, last, madeUnder, server, cached, mounted, locals, req, events>>

Make(k) ==
    /\ last < MaxEndpoint
    /\ last' = last + 1
    /\ sub' = last'
    /\ madeUnder' = [madeUnder EXCEPT ![last'] = k]

\* pushManager.subscribe: the existing subscription when the key is its own, a fresh
\* one when there is none; with another key, or without permission, it rejects.
Create(c) ==
    /\ pc[c] = "create" /\ permission = "granted"
    /\ \/ sub = None /\ Make(key[c])
       \/ sub # None /\ madeUnder[sub] = key[c] /\ UNCHANGED <<sub, last, madeUnder>>
    /\ got' = [got EXCEPT ![c] = sub']
    /\ Continue(c, ToServer(c)) /\ SendIf(c, ToServer(c) = "answer")
    /\ Moves(c)
    /\ UNCHANGED <<permission, registered, server, cached, mounted, args, key, events>>

\* requestProof: the user signs the challenge with the wallet; or does not, or there is
\* no challenge to be had.  The prompt may stay open for as long as the user likes.
Sign(c) ==
    /\ pc[c] = "signing"
    /\ \/ Continue(c, "answer") /\ Send(c)
       \/ Throw(c, "threw") /\ UNCHANGED req
    /\ Moves(c)
    /\ UNCHANGED <<browser, server, cached, mounted, locals, events>>

\* Mutant of Receive: an error is tried again, for as long as it takes.
RetryForever(c) ==
    /\ pc[c] = "answer"
    /\ \/ req[c] = "ok" /\ Subscribing(c) /\ Resolve(c) /\ UNCHANGED req
       \/ req[c] = "ok" /\ ~Subscribing(c) /\ Continue(c, "drop") /\ UNCHANGED req
       \/ req[c] = "error" /\ Continue(c, "answer") /\ Send(c)
    /\ Moves(c)
    /\ UNCHANGED <<browser, server, cached, mounted, locals, events>>

\* The response arrives: 2xx ends the POST, and lets unsubscribe drop its channel.
Receive(c) ==
    /\ pc[c] = "answer"
    /\ \/ req[c] = "ok" /\ Subscribing(c) /\ Resolve(c)
       \/ req[c] = "ok" /\ ~Subscribing(c) /\ Continue(c, "drop")
       \/ req[c] = "error" /\ Throw(c, "threw")
    /\ req' = [req EXCEPT ![c] = "none"]
    /\ Moves(c)
    /\ UNCHANGED <<browser, server, cached, mounted, locals, events>>

\* A step of the browser or the network rejects: the worker does not register, the key
\* is not to be had, the push service is unreachable, the response is lost, or the
\* request with it.  Only the worker's readiness never rejects.
Rejects(c) ==
    /\ InFlight(c) /\ pc[c] \notin Prompts
    /\ pc[c] = "lookup" => registered
    /\ Throw(c, "threw")
    /\ \/ req[c] = "sent" /\ UNCHANGED req
       \/ req' = [req EXCEPT ![c] = "none"]
    /\ Moves(c)
    /\ UNCHANGED <<browser, server, cached, mounted, locals, events>>

-----------------------------------------------------------------------------
(* The server *)

\* POST /subscriptions lets it pass: no signature wanted, one that verifies, or a
\* refresh of a proven row.
Admitted(a, old) ==
    \/ ~strict \/ a.ask.signs
    \/ old # NoRow /\ old.user = a.ask.user /\ old.verified

\* Mutant of Written: ON CONFLICT DO NOTHING.
WrittenOnce(a, old) ==
    IF a.op = "unsubscribe" THEN NoRow
    ELSE IF old # NoRow THEN old
    ELSE [user |-> a.ask.user, verified |-> strict /\ a.ask.signs, disabled |-> FALSE]

\* What the request makes of the row: an upsert that keeps verified_at and enables the
\* row, or nothing.
Written(a, old) ==
    IF a.op = "unsubscribe" THEN NoRow
    ELSE [user |-> a.ask.user,
          verified |-> (strict /\ a.ask.signs) \/ (old # NoRow /\ old.verified),
          disabled |-> FALSE]

\* The answer goes to the call, if it still waits.
Answered(c, answer) ==
    req' = [req EXCEPT ![c] = IF pc[c] = "answer" THEN answer ELSE "none"]

\* A request takes effect, and its answer says so or is a 500 all the same; or it is
\* refused, or fails, without effect.
Handled(c) ==
    LET e == got[c] IN
    /\ req[c] = "sent"
    /\ \/ /\ Subscribing(c) => Admitted(args[c], row[e])
          /\ row' = [row EXCEPT ![e] = Written(args[c], @)]
          /\ \E answer \in {"ok", "error"} : Answered(c, answer)
       \/ Answered(c, "error") /\ UNCHANGED row
    /\ Moves(c)
    /\ UNCHANGED <<browser, strict, serverKey, cached, hooks, pc, locals, events>>

\* What the push service answers 404 or 410 to.
Gone(e) == e # sub

\* Mutant of Active: only proven channels are sent to.
ActiveIfVerified(r) == ~r.disabled /\ r.verified

\* findActive: what a send is sent to.
Active(r) == ~r.disabled

\* A push to a row whose channel is gone prunes it.
Prune(e) ==
    /\ row[e] # NoRow /\ Active(row[e]) /\ Gone(e)
    /\ row' = [row EXCEPT ![e] = NoRow]
    /\ UNCHANGED <<browser, strict, serverKey, cached, hooks, pc, locals, req, events, alone>>

-----------------------------------------------------------------------------
(* The environment *)

Event == events < MaxEvents /\ events' = events + 1 /\ alone' = None

\* The browser ends the subscription.
BrowserDrops ==
    /\ Event /\ sub # None /\ sub' = None
    /\ UNCHANGED <<permission, registered, last, madeUnder, server, cached, hooks, pc, locals, req>>

\* The user changes the permission in the settings; without it there is no channel.
SetPermission(p) ==
    /\ Event /\ permission # p /\ permission' = p
    /\ sub' = IF p = "granted" THEN sub ELSE None
    /\ UNCHANGED <<registered, last, madeUnder, server, cached, hooks, pc, locals, req>>

\* Another library on the same registration makes a channel for its own service.
ForeignSubscribes ==
    /\ Event /\ permission = "granted" /\ registered /\ sub = None /\ Make(ForeignKey)
    /\ UNCHANGED <<permission, registered, server, cached, hooks, pc, locals, req>>

\* The server comes back with another pair of VAPID keys.
Rotate(k) ==
    /\ Event /\ serverKey # k /\ serverKey' = k
    /\ UNCHANGED <<browser, row, strict, cached, hooks, pc, locals, req>>

\* The push service refuses, or does not answer, the last of MAX_FAILURES pushes to a row.
Disable(e) ==
    /\ Event /\ row[e] # NoRow /\ Active(row[e])
    /\ row' = [row EXCEPT ![e].disabled = TRUE]
    /\ UNCHANGED <<browser, strict, serverKey, cached, hooks, pc, locals, req>>

\* A tab is closed, its calls with it, and opened again.
Reload(t) ==
    /\ Event
    /\ pc' = [c \in Calls |-> IF InFlight(c) /\ Tab(c) = t THEN "gone" ELSE pc[c]]
    /\ cached' = [cached EXCEPT ![t] = NoKey]
    /\ mounted' = [mounted EXCEPT ![t] = FALSE]
    /\ subscribed' = [subscribed EXCEPT ![t] = FALSE]
    /\ loading' = [loading EXCEPT ![t] = FALSE]
    /\ UNCHANGED <<browser, server, locals, req>>

-----------------------------------------------------------------------------
Step(c) ==
    \/ GetKey(c) \/ KeepKey(c) \/ Lookup(c) \/ Drop(c)
    \/ Create(c) \/ Receive(c) \/ Rejects(c)

Environment ==
    \/ BrowserDrops \/ ForeignSubscribes
    \/ \E p \in {"default", "granted", "denied"} : SetPermission(p)
    \/ \E k \in ServerKeys : Rotate(k)
    \/ \E e \in Endpoints : Disable(e)
    \/ \E t \in Tabs : Reload(t)

Next ==
    \/ \E c \in Calls, t \in Tabs :
          \/ \E ask \in Asks : Subscribe(c, t, ask)
          \/ Unsubscribe(c, t)
    \/ \E t \in Tabs : Mounted(t)
    \/ \E c \in Calls : Answer(c) \/ Sign(c) \/ Step(c) \/ Handled(c)
    \/ \E e \in Endpoints : Prune(e)
    \/ Environment

Spec == Init /\ [][Next]_vars

\* Promises of the browser and of fetch settle, and the app goes on sending, so that
\* every row it may send to is tried.  Users at a prompt, tabs and late requests are free.
FairSpec ==
    /\ Spec
    /\ \A t \in Tabs : WF_vars(Mounted(t))
    /\ \A c \in Calls : WF_vars(Step(c))
    /\ \A e \in Endpoints : WF_vars(Prune(e))

-----------------------------------------------------------------------------
TypeOK ==
    /\ permission \in {"default", "granted", "denied"}
    /\ registered \in BOOLEAN
    /\ last \in 0..MaxEndpoint /\ sub \in 0..last
    /\ madeUnder \in [Endpoints -> Keys \cup {NoKey}]
    /\ row \in [Endpoints -> Rows \cup {NoRow}]
    /\ strict \in BOOLEAN /\ serverKey \in ServerKeys
    /\ cached \in [Tabs -> ServerKeys \cup {NoKey}]
    /\ mounted \in [Tabs -> BOOLEAN]
    /\ subscribed \in [Tabs -> BOOLEAN]
    /\ loading \in [Tabs -> BOOLEAN]
    /\ pc \in [Calls -> {"idle"} \cup Waiting \cup Done]
    /\ args \in [Calls -> Args \cup {NoAsk}]
    /\ key \in [Calls -> ServerKeys \cup {NoKey}]
    /\ got \in [Calls -> 0..last]
    /\ req \in [Calls -> {"none", "sent", "ok", "error"}]
    /\ events \in 0..MaxEvents
    /\ alone \in Calls \cup {None}

\* Whatever went wrong before - a sync that failed after the browser had subscribed,
\* a leftover of another service, a key that changed, a lost answer - a subscribe()
\* that resolves with nothing moving beside it leaves browser, server and hook of
\* one mind, on a channel of the key its client holds, which the server sends to again
\* if it had given it up (index.ts:137-155).
SubscribeHeals ==
    \A c \in Calls : (alone = c /\ pc[c] = "resolved" /\ Subscribing(c)) =>
        /\ sub # None /\ madeUnder[sub] = cached[Tab(c)]
        /\ row[sub] # NoRow /\ row[sub].user = args[c].ask.user /\ ~row[sub].disabled
        /\ subscribed[Tab(c)]

\* An unsubscribe() that resolves with nothing beside it has ended its channel on
\* both sides; one that throws has kept the browser's, so that it can be tried again
\* (index.ts:213-217).
UnsubscribeEnds ==
    \A c \in Calls : (alone = c /\ args[c] # NoAsk /\ ~Subscribing(c)) =>
        /\ pc[c] = "resolved" => /\ sub = None /\ ~subscribed[Tab(c)]
                                 /\ got[c] # None => row[got[c]] = NoRow
        /\ pc[c] = "threw" /\ got[c] # None => sub = got[c]

\* No overlap of calls, tabs and late requests gives the server a channel that was made
\* for another service and can never be pushed to (index.ts:137-140).
OnlyOwnChannels ==
    \A e \in Endpoints : row[e] # NoRow => madeUnder[e] \in ServerKeys

\* A hook that shows a call in progress has one, however its calls overlap and end
\* (react.ts:73-85, react.ts:89-99).
SpinnerHasACall ==
    \A t \in Tabs : loading[t] => \E c \in Calls : InFlight(c) /\ Tab(c) = t

\* Calls settle, all of them, unless the user leaves a prompt of the browser or the
\* wallet open - and an unsubscribe() only when there is a worker to become ready, for it
\* waits for one and registers none (index.ts:203).
CallsSettle ==
    []<>(\A c \in Calls : InFlight(c) => pc[c] \in Prompts \/ ~registered)

\* "A failed delete self-heals via 410-pruning" (index.ts:215): whatever calls, drops and
\* late requests leave behind, in the end the server sends to no channel but the
\* browser's own.  A row that refusals disabled is sent to no more, so a dead one stays.
EndsWithLiveRows ==
    <>[](\A e \in Endpoints : row[e] # NoRow /\ ~row[e].disabled => e = sub)
=============================================================================
