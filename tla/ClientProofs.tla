----------------------------- MODULE ClientProofs -----------------------------
(***************************************************************************)
(* The browser SDK keeps its promises for any number of users, tabs,       *)
(* calls, keys and channels, and any number of events of the environment.  *)
(***************************************************************************)
EXTENDS Client, TLAPS

-----------------------------------------------------------------------------
(* Types *)

Permissions == {"default", "granted", "denied"}
Places == {"idle"} \cup Waiting \cup Done

\* A call that begins goes to a place where it waits, or is denied at once.
LEMMA BeginType ==
    ASSUME TypeOK, NEW c \in Calls, NEW a \in Args, NEW label \in Waiting \cup {"denied"},
           Begin(c, a, label)
    PROVE  TypeOK'
<1>1. /\ UNCHANGED <<permission, registered, sub, last, madeUnder, row, strict, serverKey,
                     cached, mounted, subscribed, key, got, req, events>>
      /\ args' = [args EXCEPT ![c] = a] /\ pc' = [pc EXCEPT ![c] = label]
      /\ alone' \in {None, c}
  BY DEF Begin, Goto, browser, server
<1>2. loading' \in [Tabs -> BOOLEAN]
  <2>1. (label \in Waiting) \in BOOLEAN
    OBVIOUS
  <2>2. loading' = [loading EXCEPT ![a.tab] = (label \in Waiting)] /\ loading \in [Tabs -> BOOLEAN]
    BY DEF Begin, TypeOK
  <2> QED BY <2>1, <2>2
<1>3. args' \in [Calls -> Args \cup {NoAsk}]
  BY <1>1 DEF TypeOK
<1>4. pc' \in [Calls -> {"idle"} \cup Waiting \cup Done]
  BY <1>1 DEF TypeOK, Done
<1>5. alone' \in Calls \cup {None}
  BY <1>1
<1> QED BY <1>1, <1>2, <1>3, <1>4, <1>5 DEF TypeOK

\* Where a call has no request under way.
Silent == {"idle", "asking", "key", "keyAnswer", "lookup", "drop", "create", "signing", "resolved"}

\* The arguments of a call that has begun are those of an operation.
Begun ==
    \A c \in Calls : /\ pc[c] # "idle" => args[c] \in Args
                     /\ pc[c] \in Silent => req[c] = "none"

\* The tab of a call that has begun is one of the tabs.
LEMMA TabIsTab ==
    ASSUME Begun, NEW c \in Calls, pc[c] # "idle"
    PROVE  Tab(c) \in Tabs /\ Subscribing(c) \in BOOLEAN
BY DEF Begun, Args, Tab, Subscribing

\* How the hook goes on keeps the types of what it shows.
LEMMA HookType ==
    ASSUME TypeOK, Begun, NEW c \in Calls, pc[c] # "idle", NEW label \in Waiting \cup Done,
           Resolve(c) \/ Throw(c, label) \/ Continue(c, label)
    PROVE  /\ pc' \in [Calls -> {"idle"} \cup Waiting \cup Done]
           /\ subscribed' \in [Tabs -> BOOLEAN]
           /\ loading' \in [Tabs -> BOOLEAN]
<1> USE DEF TypeOK
<1>1. Tab(c) \in Tabs /\ Subscribing(c) \in BOOLEAN
  BY TabIsTab
<1>2. CASE Resolve(c)
  <2>1. /\ pc' = [pc EXCEPT ![c] = "resolved"]
        /\ subscribed' = [subscribed EXCEPT ![Tab(c)] = Subscribing(c)]
        /\ loading' = [loading EXCEPT ![Tab(c)] = FALSE]
    BY <1>2 DEF Resolve, Goto
  <2>2. pc' \in [Calls -> {"idle"} \cup Waiting \cup Done]
    BY <2>1 DEF Done
  <2>3. subscribed' \in [Tabs -> BOOLEAN]
    BY <1>1, <2>1
  <2>4. loading' \in [Tabs -> BOOLEAN]
    BY <1>1, <2>1
  <2> QED BY <2>2, <2>3, <2>4
<1>3. CASE Throw(c, label)
  BY <1>1, <1>3 DEF Throw, Goto
<1>4. CASE Continue(c, label)
  BY <1>1, <1>4 DEF Continue, Goto
<1> QED BY <1>2, <1>3, <1>4

\* A step of a call tells afterwards whether nothing else moved.
LEMMA MovesType ==
    ASSUME TypeOK, NEW c \in Calls, Moves(c)
    PROVE  alone' \in Calls \cup {None}
BY DEF Moves, TypeOK

\* The steps of PushClient keep the types.
LEMMA StepType ==
    ASSUME TypeOK, Begun, NEW c \in Calls, Answer(c) \/ Sign(c) \/ Step(c)
    PROVE  TypeOK'
<1> USE DEF TypeOK
<1>1. CASE Answer(c)
  <2>1. permission' \in Permissions
    BY <1>1 DEF Answer, Permissions
  <2>2. Continue(c, "key") \/ Throw(c, "denied")
    BY <1>1 DEF Answer
  <2>3. /\ pc[c] # "idle" /\ Moves(c)
        /\ UNCHANGED <<registered, sub, last, madeUnder, row, strict, serverKey, cached, mounted,
                       args, key, got, req, events>>
    BY <1>1 DEF Answer, server, locals
  <2>4. "key" \in Waiting /\ "denied" \in Done
    BY DEF Waiting, Done
  <2> QED BY <2>1, <2>2, <2>3, <2>4, HookType, MovesType DEF Permissions
<1>2. CASE GetKey(c)
  <2>1. /\ pc[c] # "idle" /\ Moves(c) /\ registered' = TRUE
        /\ Continue(c, "lookup") \/ Continue(c, "keyAnswer")
        /\ UNCHANGED <<permission, sub, last, madeUnder, row, strict, serverKey, cached, mounted,
                       args, got, req, events>>
    BY <1>2 DEF GetKey, server
  <2>2. key' \in [Calls -> ServerKeys \cup {NoKey}]
    <3>1. args[c] \in Args /\ Tab(c) \in Tabs
      BY <2>1, TabIsTab DEF Begun
    <3>2. cached[Tab(c)] \in ServerKeys \cup {NoKey} /\ serverKey \in ServerKeys
      BY <3>1
    <3>3. key' = [key EXCEPT ![c] = cached[Tab(c)]] \/ key' = [key EXCEPT ![c] = serverKey]
      BY <1>2 DEF GetKey
    <3> QED BY <3>2, <3>3
  <2>3. "lookup" \in Waiting /\ "keyAnswer" \in Waiting
    BY DEF Waiting
  <2> QED BY <2>1, <2>2, <2>3, HookType, MovesType
<1>3. CASE KeepKey(c)
  <2>1. /\ pc[c] # "idle" /\ Moves(c) /\ Continue(c, "lookup")
        /\ cached' = [cached EXCEPT ![Tab(c)] = key[c]]
        /\ UNCHANGED <<permission, registered, sub, last, madeUnder, row, strict, serverKey,
                       mounted, args, key, got, req, events>>
    BY <1>3 DEF KeepKey, browser, server, locals
  <2>2. cached' \in [Tabs -> ServerKeys \cup {NoKey}]
    BY <2>1
  <2>3. "lookup" \in Waiting
    BY DEF Waiting
  <2> QED BY <2>1, <2>2, <2>3, HookType, MovesType
<1>4. CASE Lookup(c)
  <2>1. /\ pc[c] # "idle" /\ Moves(c)
        /\ got' = [got EXCEPT ![c] = sub]
        /\ UNCHANGED <<permission, registered, sub, last, madeUnder, row, strict, serverKey,
                       cached, mounted, args, key, events>>
    BY <1>4 DEF Lookup, browser, server
  <2>2. got' \in [Calls -> 0 .. last]
    BY <2>1
  <2>3. req' \in [Calls -> {"none", "sent", "ok", "error"}]
    BY <1>4 DEF Lookup, SendIf, Send
  <2>4. AfterLookup(c, sub) \in {"create", "signing", "answer", "drop", "resolved"}
    BY DEF AfterLookup, ToServer
  <2>5. Resolve(c) \/ (AfterLookup(c, sub) # "resolved" /\ Continue(c, AfterLookup(c, sub)))
    BY <1>4 DEF Lookup
  <2>6. {"create", "signing", "answer", "drop"} \subseteq Waiting /\ "resolved" \in Done
    BY DEF Waiting, Done
  <2>7. AfterLookup(c, sub) \in Waiting \cup Done
    BY <2>4, <2>6
  <2> HIDE DEF TypeOK
  <2>8. /\ pc' \in [Calls -> {"idle"} \cup Waiting \cup Done]
        /\ subscribed' \in [Tabs -> BOOLEAN]
        /\ loading' \in [Tabs -> BOOLEAN]
    BY <2>1, <2>5, <2>7, HookType
  <2>9. alone' \in Calls \cup {None}
    BY <2>1, MovesType
  <2>10. got' \in [Calls -> 0 .. last']
    BY <2>1, <2>2
  <2> QED BY <2>1, <2>3, <2>8, <2>9, <2>10 DEF TypeOK
<1>5. CASE Drop(c)
  <2>1. /\ pc[c] # "idle" /\ Moves(c)
        /\ Continue(c, "create") \/ Resolve(c)
        /\ sub' \in 0 .. last
        /\ UNCHANGED <<permission, registered, last, madeUnder, row, strict, serverKey,
                       cached, mounted, args, key, got, req, events>>
    BY <1>5, ClientAssumption DEF Drop, server, locals, None
  <2>2. "create" \in Waiting
    BY DEF Waiting
  <2> QED BY <2>1, <2>2, HookType, MovesType
<1>6. CASE Create(c)
  <2>1. /\ pc[c] # "idle" /\ Moves(c) /\ Continue(c, ToServer(c))
        /\ got' = [got EXCEPT ![c] = sub']
        /\ UNCHANGED <<permission, registered, row, strict, serverKey, cached, mounted, args,
                       key, events>>
    BY <1>6 DEF Create, server
  <2>2. /\ last' \in 0 .. MaxEndpoint /\ sub' \in 0 .. last' /\ last <= last'
        /\ madeUnder' \in [Endpoints -> Keys \cup {NoKey}]
    <3>1. CASE UNCHANGED <<sub, last, madeUnder>>
      BY <3>1, ClientAssumption
    <3>2. CASE Make(key[c])
      <4>1. /\ last < MaxEndpoint /\ last' = last + 1 /\ sub' = last'
            /\ madeUnder' = [madeUnder EXCEPT ![last'] = key[c]]
        BY <3>2 DEF Make
      <4>2. key[c] \in Keys \cup {NoKey}
        BY DEF Keys
      <4>3. madeUnder' \in [Endpoints -> Keys \cup {NoKey}]
        BY <4>1, <4>2
      <4> QED BY <4>1, <4>3, ClientAssumption
    <3> QED BY <1>6, <3>1, <3>2 DEF Create
  <2>3. got' \in [Calls -> 0 .. last']
    BY <2>1, <2>2, ClientAssumption
  <2>4. ToServer(c) \in Waiting
    BY DEF ToServer, Waiting
  <2>5. req' \in [Calls -> {"none", "sent", "ok", "error"}]
    BY <1>6 DEF Create, SendIf, Send
  <2> HIDE DEF TypeOK
  <2>6. /\ pc' \in [Calls -> {"idle"} \cup Waiting \cup Done]
        /\ subscribed' \in [Tabs -> BOOLEAN]
        /\ loading' \in [Tabs -> BOOLEAN]
    BY <2>1, <2>4, HookType
  <2>7. alone' \in Calls \cup {None}
    BY <2>1, MovesType
  <2> QED BY <2>1, <2>2, <2>3, <2>5, <2>6, <2>7 DEF TypeOK
<1>7. CASE Receive(c)
  <2>1. /\ pc[c] # "idle" /\ Moves(c)
        /\ Resolve(c) \/ Continue(c, "drop") \/ Throw(c, "threw")
        /\ req' = [req EXCEPT ![c] = "none"]
        /\ UNCHANGED <<permission, registered, sub, last, madeUnder, row, strict, serverKey,
                       cached, mounted, args, key, got, events>>
    BY <1>7 DEF Receive, browser, server, locals
  <2>2. "drop" \in Waiting /\ "threw" \in Done
    BY DEF Waiting, Done
  <2> QED BY <2>1, <2>2, HookType, MovesType
<1>8. CASE Rejects(c)
  <2>1. /\ pc[c] # "idle" /\ Moves(c) /\ Throw(c, "threw")
        /\ req' = req \/ req' = [req EXCEPT ![c] = "none"]
        /\ UNCHANGED <<permission, registered, sub, last, madeUnder, row, strict, serverKey,
                       cached, mounted, args, key, got, events>>
    BY <1>8 DEF Rejects, InFlight, Waiting, browser, server, locals
  <2>2. "threw" \in Done
    BY DEF Done
  <2> QED BY <2>1, <2>2, HookType, MovesType
<1>9. CASE Sign(c)
  <2>1. /\ pc[c] # "idle" /\ Moves(c)
        /\ Continue(c, "answer") \/ Throw(c, "threw")
        /\ UNCHANGED <<permission, registered, sub, last, madeUnder, row, strict, serverKey,
                       cached, mounted, args, key, got, events>>
    BY <1>9 DEF Sign, browser, server, locals
  <2>2. req' \in [Calls -> {"none", "sent", "ok", "error"}]
    BY <1>9 DEF Sign, Send
  <2>3. "answer" \in Waiting /\ "threw" \in Done
    BY DEF Waiting, Done
  <2> QED BY <2>1, <2>2, <2>3, HookType, MovesType
<1> QED BY <1>1, <1>2, <1>3, <1>4, <1>5, <1>6, <1>7, <1>8, <1>9 DEF Step

\* The row a request writes is one.
LEMMA WrittenType ==
    ASSUME TypeOK, Begun, NEW c \in Calls, pc[c] # "idle", NEW old \in Rows \cup {NoRow}
    PROVE  Written(args[c], old) \in Rows \cup {NoRow}
<1>1. args[c] \in Args
  BY DEF Begun
<1>2. CASE args[c].op = "unsubscribe"
  BY <1>2 DEF Written
<1>3. CASE args[c].op # "unsubscribe"
  <2>1. args[c] \in [tab : Tabs, op : {"subscribe"}, ask : Asks]
    BY <1>1, <1>3 DEF Args
  <2>2. args[c].ask.user \in Users /\ args[c].ask.signs \in BOOLEAN
    BY <2>1, ClientAssumption
  <2>3. ((strict /\ args[c].ask.signs) \/ (old # NoRow /\ old.verified)) \in BOOLEAN
    OBVIOUS
  <2> QED BY <1>3, <2>2, <2>3 DEF Written, Rows
<1> QED BY <1>2, <1>3

\* So do the server, the hook's effect and the environment.
LEMMA AroundType ==
    ASSUME TypeOK, Begun,
           \/ \E c \in Calls : Handled(c)
           \/ \E e \in Endpoints : Prune(e)
           \/ \E t \in Tabs : Mounted(t)
           \/ Environment
    PROVE  TypeOK'
<1>1. ASSUME NEW c \in Calls, Handled(c) PROVE TypeOK'
  <2>1. pc[c] # "idle" /\ Moves(c)
        /\ UNCHANGED <<permission, registered, sub, last, madeUnder, strict, serverKey, cached,
                       mounted, subscribed, loading, pc, args, key, got, events>>
    BY <1>1 DEF Handled, Begun, Silent, browser, hooks, locals
  <2>2. row' \in [Endpoints -> Rows \cup {NoRow}]
    <3>1. CASE UNCHANGED row
      BY <3>1 DEF TypeOK
    <3>2. CASE row' = [row EXCEPT ![got[c]] = Written(args[c], @)]
      <4>1. CASE got[c] \in Endpoints
        <5>1. row[got[c]] \in Rows \cup {NoRow}
          BY <4>1 DEF TypeOK
        <5>2. Written(args[c], row[got[c]]) \in Rows \cup {NoRow}
          BY <2>1, <5>1, WrittenType
        <5>3. row \in [Endpoints -> Rows \cup {NoRow}]
          BY DEF TypeOK
        <5> QED BY <3>2, <4>1, <5>2, <5>3
      <4>2. CASE got[c] \notin Endpoints
        <5>1. row \in [Endpoints -> Rows \cup {NoRow}]
          BY DEF TypeOK
        <5>2. row' = row
          BY <3>2, <4>2, <5>1
        <5> QED BY <5>1, <5>2
      <4> QED BY <4>1, <4>2
    <3> QED BY <1>1, <3>1, <3>2 DEF Handled
  <2>3. req' \in [Calls -> {"none", "sent", "ok", "error"}]
    BY <1>1 DEF Handled, Answered, TypeOK
  <2> QED BY <2>1, <2>2, <2>3, MovesType DEF TypeOK
<1>2. ASSUME NEW e \in Endpoints, Prune(e) PROVE TypeOK'
  BY <1>2 DEF Prune, TypeOK, browser, hooks, locals
<1>3. ASSUME NEW t \in Tabs, Mounted(t) PROVE TypeOK'
  <2>1. (sub # None) \in BOOLEAN
    OBVIOUS
  <2>2. /\ mounted' = [mounted EXCEPT ![t] = TRUE]
        /\ subscribed' = [subscribed EXCEPT ![t] = (sub # None)]
        /\ UNCHANGED <<permission, registered, sub, last, madeUnder, row, strict, serverKey,
                       cached, loading, pc, args, key, got, req, events, alone>>
    BY <1>3 DEF Mounted, browser, server, locals
  <2>3. mounted' \in [Tabs -> BOOLEAN] /\ subscribed' \in [Tabs -> BOOLEAN]
    BY <2>1, <2>2 DEF TypeOK
  <2> QED BY <2>2, <2>3 DEF TypeOK
<1>4. ASSUME Event PROVE events' \in 0 .. MaxEvents /\ alone' \in Calls \cup {None}
  BY <1>4, ClientAssumption DEF Event, TypeOK
<1>5. CASE BrowserDrops
  <2>1. sub' \in 0 .. last'
    BY <1>5, ClientAssumption DEF BrowserDrops, TypeOK, None
  <2> QED BY <1>4, <1>5, <2>1 DEF BrowserDrops, Event, TypeOK, server, hooks, locals
<1>6. ASSUME NEW p \in Permissions, SetPermission(p) PROVE TypeOK'
  <2>1. sub' \in 0 .. last'
    BY <1>6, ClientAssumption DEF SetPermission, TypeOK, None
  <2>2. permission' \in Permissions
    BY <1>6 DEF SetPermission
  <2> QED BY <1>4, <1>6, <2>1, <2>2 DEF SetPermission, Event, TypeOK, Permissions, server, hooks, locals
<1>7. CASE ForeignSubscribes
  <2>1. /\ last < MaxEndpoint /\ last' = last + 1 /\ sub' = last'
        /\ madeUnder' = [madeUnder EXCEPT ![last'] = ForeignKey] /\ Event
        /\ UNCHANGED <<permission, registered, row, strict, serverKey, cached,
                       mounted, subscribed, loading, pc, args, key, got, req>>
    BY <1>7 DEF ForeignSubscribes, Make, server, hooks, locals
  <2>2. madeUnder' \in [Endpoints -> Keys \cup {NoKey}]
    BY <2>1 DEF TypeOK, Keys
  <2>3. got' \in [Calls -> 0 .. last'] /\ last' \in 0 .. MaxEndpoint /\ sub' \in 0 .. last'
    BY <2>1, ClientAssumption DEF TypeOK
  <2> QED BY <1>4, <2>1, <2>2, <2>3 DEF TypeOK
<1>8. ASSUME NEW k \in ServerKeys, Rotate(k) PROVE TypeOK'
  BY <1>4, <1>8 DEF Rotate, Event, TypeOK, browser, hooks, locals
<1>9. ASSUME NEW t \in Tabs, Reload(t) PROVE TypeOK'
  <2>1. pc' \in [Calls -> {"idle"} \cup Waiting \cup Done]
    BY <1>9 DEF Reload, TypeOK, Done
  <2>2. /\ cached' \in [Tabs -> ServerKeys \cup {NoKey}]
        /\ mounted' \in [Tabs -> BOOLEAN] /\ subscribed' \in [Tabs -> BOOLEAN]
        /\ loading' \in [Tabs -> BOOLEAN]
    BY <1>9 DEF Reload, TypeOK
  <2> QED BY <1>4, <1>9, <2>1, <2>2 DEF Reload, Event, TypeOK, browser, server, locals
<1>10. ASSUME NEW e \in Endpoints, Disable(e) PROVE TypeOK'
  <2>1. row \in [Endpoints -> Rows \cup {NoRow}] /\ row[e] \in Rows
    BY <1>10 DEF Disable, TypeOK
  <2>2. [row[e] EXCEPT !.disabled = TRUE] \in Rows
    BY <2>1 DEF Rows
  <2>3. row' = [row EXCEPT ![e] = [row[e] EXCEPT !.disabled = TRUE]]
    BY <1>10 DEF Disable
  <2>4. row' \in [Endpoints -> Rows \cup {NoRow}]
    BY <2>1, <2>2, <2>3
  <2> QED BY <1>4, <1>10, <2>4 DEF Disable, Event, TypeOK, browser, hooks, locals
<1> QED BY <1>1, <1>2, <1>3, <1>5, <1>6, <1>7, <1>8, <1>9, <1>10 DEF Environment, Permissions

\* The initial states have their types.
LEMMA InitType == Init => TypeOK /\ Begun
<1> SUFFICES ASSUME Init PROVE TypeOK /\ Begun
  OBVIOUS
<1>1. last \in 0 .. MaxEndpoint /\ sub \in 0 .. last
  BY ClientAssumption DEF Init, None, Endpoints
<1>2. madeUnder \in [Endpoints -> Keys \cup {NoKey}]
  BY DEF Init, Keys
<1>3. permission \in {"default", "granted", "denied"} /\ registered \in BOOLEAN /\ strict \in BOOLEAN
  BY DEF Init
<1>4. /\ mounted \in [Tabs -> BOOLEAN] /\ subscribed \in [Tabs -> BOOLEAN]
      /\ loading \in [Tabs -> BOOLEAN]
  BY DEF Init
<1>5. got \in [Calls -> 0 .. last]
  BY <1>1, ClientAssumption DEF Init, None
<1>6. events \in 0 .. MaxEvents /\ serverKey \in ServerKeys
  BY ClientAssumption DEF Init
<1> QED BY <1>1, <1>2, <1>3, <1>4, <1>5, <1>6 DEF Init, TypeOK, Begun, Silent

-----------------------------------------------------------------------------
(* A call's request is sent after it began *)

LEMMA BegunNext ==
    ASSUME TypeOK, Begun, Next
    PROVE  Begun'
<1>1. ASSUME NEW c \in Calls, NEW a \in Args, NEW label, label # "idle", Begin(c, a, label)
      PROVE  Begun'
  BY <1>1 DEF Begin, Goto, Begun, Silent, TypeOK
<1>2. ASSUME NEW c \in Calls, NEW t \in Tabs, NEW ask \in Asks, Subscribe(c, t, ask)
      PROVE  Begun'
  <2>1. AfterPermission(permission) # "idle"
    BY DEF AfterPermission, TypeOK
  <2>2. [tab |-> t, op |-> "subscribe", ask |-> ask] \in Args
    BY DEF Args
  <2> QED BY <1>1, <1>2, <2>1, <2>2 DEF Subscribe
<1>3. ASSUME NEW c \in Calls, NEW t \in Tabs, Unsubscribe(c, t)
      PROVE  Begun'
  <2>1. [tab |-> t, op |-> "unsubscribe", ask |-> NoAsk] \in Args
    BY DEF Args
  <2> QED BY <1>1, <1>3, <2>1 DEF Unsubscribe
<1>4. ASSUME NEW c \in Calls, Answer(c) \/ Sign(c) \/ Step(c)
      PROVE  Begun'
  <2>1. pc[c] # "idle" /\ UNCHANGED args
    BY <1>4 DEF Answer, Sign, Step, GetKey, KeepKey, Lookup, Drop, Create, Receive, Rejects, InFlight,
                Waiting, locals
  <2>2. \A d \in Calls : d # c => pc'[d] = pc[d] /\ req'[d] = req[d]
    BY <1>4 DEF Answer, Sign, Step, GetKey, KeepKey, Lookup, Drop, Create, Receive, Rejects, Resolve,
                Throw, Continue, Goto, Send, SendIf, TypeOK
  <2>3. pc'[c] # "idle" /\ (pc'[c] \in Silent =>
                                (pc[c] \in Silent /\ req'[c] = req[c]) \/ req'[c] = "none")
    BY <1>4 DEF Answer, Sign, Step, GetKey, KeepKey, Lookup, Drop, Create, Receive, Rejects, Resolve,
                Throw, Continue, Goto, Send, SendIf, AfterLookup, ToServer, Silent, TypeOK
  <2> QED BY <2>1, <2>2, <2>3 DEF Begun
<1>5. ASSUME NEW c \in Calls, Handled(c) PROVE Begun'
  BY <1>5 DEF Handled, Answered, Begun, Silent, TypeOK, locals
<1>6. ASSUME NEW t \in Tabs, Reload(t) PROVE Begun'
  BY <1>6 DEF Reload, Begun, InFlight, Waiting, Silent, TypeOK, locals
<1>7. CASE UNCHANGED <<pc, args, req>>
  BY <1>7 DEF Begun
<1> QED
  <2>1. ASSUME NEW e \in Endpoints, Prune(e) PROVE UNCHANGED <<pc, args, req>>
    BY <2>1 DEF Prune, locals
  <2>2. ASSUME NEW t \in Tabs, Mounted(t) PROVE UNCHANGED <<pc, args, req>>
    BY <2>2 DEF Mounted, locals
  <2>3. CASE BrowserDrops \/ ForeignSubscribes
    BY <1>7, <2>3 DEF BrowserDrops, ForeignSubscribes, locals
  <2>4. ASSUME NEW p, SetPermission(p) PROVE UNCHANGED <<pc, args, req>>
    BY <2>4 DEF SetPermission, locals
  <2>5. ASSUME NEW k, Rotate(k) PROVE UNCHANGED <<pc, args, req>>
    BY <2>5 DEF Rotate, locals
  <2>6. ASSUME NEW e \in Endpoints, Disable(e) PROVE UNCHANGED <<pc, args, req>>
    BY <2>6 DEF Disable, locals
  <2> QED BY <1>2, <1>3, <1>4, <1>5, <1>6, <1>7, <2>1, <2>2, <2>3, <2>4, <2>5, <2>6
          DEF Next, Environment

\* The types hold after every step.
LEMMA NextType ==
    ASSUME TypeOK, Begun, Next
    PROVE  TypeOK'
<1>1. ASSUME NEW c \in Calls, NEW t \in Tabs, NEW ask \in Asks, Subscribe(c, t, ask)
      PROVE  TypeOK'
  <2>1. AfterPermission(permission) \in Waiting \cup {"denied"}
    BY DEF AfterPermission, TypeOK, Waiting
  <2>2. [tab |-> t, op |-> "subscribe", ask |-> ask] \in Args
    BY DEF Args
  <2> QED BY <1>1, <2>1, <2>2, BeginType DEF Subscribe
<1>2. ASSUME NEW c \in Calls, NEW t \in Tabs, Unsubscribe(c, t)
      PROVE  TypeOK'
  <2>1. [tab |-> t, op |-> "unsubscribe", ask |-> NoAsk] \in Args /\ "lookup" \in Waiting
    BY DEF Args, Waiting
  <2> QED BY <1>2, <2>1, BeginType DEF Unsubscribe
<1> QED BY <1>1, <1>2, StepType, AroundType DEF Next

-----------------------------------------------------------------------------
(* Only own channels reach the server *)

\* Where a subscribe() holds the server's key.
Keyed == {"keyAnswer", "lookup", "drop", "create", "signing", "answer"}

OwnKeys == \A c \in Calls : pc[c] \in Keyed /\ Subscribing(c) => key[c] \in ServerKeys

\* A registration under way, or at the wallet's prompt, is for a channel that was made
\* with one of the server's keys; a row is for a channel that was made.
ToBeSent(c) == req[c] = "sent" \/ pc[c] = "signing"

OwnRequests ==
    \A c \in Calls : ToBeSent(c) /\ Subscribing(c) =>
        got[c] \in 1 .. last /\ madeUnder[got[c]] \in ServerKeys

RowsAreMade == \A e \in Endpoints : row[e] # NoRow => e <= last

Own ==
    /\ TypeOK /\ Begun
    /\ \A t \in Tabs : cached[t] = NoKey \/ cached[t] \in ServerKeys
    /\ OwnKeys /\ OwnRequests /\ RowsAreMade /\ OnlyOwnChannels

\* A step that hands out no key, sends nothing and writes no row keeps them, also when
\* it makes a channel.
LEMMA QuietOwn ==
    ASSUME Own, TypeOK', Begun', UNCHANGED <<row, args>>,
           \A c \in Calls : pc'[c] \in Keyed => pc[c] \in Keyed /\ key'[c] = key[c],
           \A c \in Calls : ToBeSent(c)' => ToBeSent(c) /\ got'[c] = got[c],
           last <= last', \A e \in 1 .. last : madeUnder'[e] = madeUnder[e]
    PROVE  Own'
<1> USE DEF Own
<1>1. \A c \in Calls : Subscribing(c)' = Subscribing(c)
  BY DEF Subscribing
<1>2. OwnKeys'
  BY <1>1 DEF OwnKeys
<1>3. last \in Nat /\ last' \in Nat
  BY ClientAssumption DEF TypeOK
<1>4. OwnRequests'
  <2> SUFFICES ASSUME NEW c \in Calls, ToBeSent(c)', Subscribing(c)'
               PROVE  got'[c] \in 1 .. last' /\ madeUnder'[got'[c]] \in ServerKeys
    BY DEF OwnRequests
  <2>1. ToBeSent(c) /\ got'[c] = got[c] /\ Subscribing(c)
    BY <1>1
  <2>2. got[c] \in 1 .. last /\ madeUnder[got[c]] \in ServerKeys
    BY <2>1 DEF OwnRequests
  <2> QED BY <2>1, <2>2, <1>3
<1>5. RowsAreMade'
  BY <1>3, ClientAssumption DEF RowsAreMade, Endpoints
<1>6. OnlyOwnChannels'
  <2> SUFFICES ASSUME NEW e \in Endpoints, row[e] # NoRow
               PROVE  madeUnder'[e] \in ServerKeys
    BY DEF OnlyOwnChannels
  <2>1. e <= last /\ madeUnder[e] \in ServerKeys
    BY DEF RowsAreMade, OnlyOwnChannels
  <2>2. e \in 1 .. last
    BY <1>3, <2>1 DEF Endpoints
  <2> QED BY <2>1, <2>2
<1>7. \A t \in Tabs : cached'[t] = NoKey \/ cached'[t] \in ServerKeys
  BY DEF TypeOK
<1> QED BY <1>2, <1>4, <1>5, <1>6, <1>7

\* The browser makes its channels fresh.
LEMMA MakeKeeps ==
    ASSUME TypeOK, NEW k, Make(k)
    PROVE  last <= last' /\ \A e \in 1 .. last : madeUnder'[e] = madeUnder[e]
<1>1. last \in Nat /\ last' = last + 1 /\ madeUnder' = [madeUnder EXCEPT ![last'] = k]
  BY ClientAssumption DEF Make, TypeOK
<1>2. \A e \in 1 .. last : e # last' /\ e \in Endpoints
  BY <1>1, ClientAssumption DEF Make, Endpoints, TypeOK
<1> QED BY <1>1, <1>2 DEF TypeOK

\* The steps of a call.
LEMMA StepOwn ==
    ASSUME Own, TypeOK', Begun', NEW c \in Calls, Answer(c) \/ Sign(c) \/ Step(c)
    PROVE  Own'
<1> USE DEF Own
<1>0. /\ UNCHANGED <<row, args>>
      /\ \A d \in Calls : d # c => pc'[d] = pc[d] /\ key'[d] = key[d] /\ got'[d] = got[d] /\ req'[d] = req[d]
  BY DEF Answer, Sign, Step, GetKey, KeepKey, Lookup, Drop, Create, Receive, Rejects, Resolve,
         Throw, Continue, Goto, Send, SendIf, TypeOK, locals, server
<1>1. ASSUME UNCHANGED <<last, madeUnder>>,
             pc'[c] \in Keyed => pc[c] \in Keyed /\ key'[c] = key[c],
             ToBeSent(c)' => ToBeSent(c) /\ got'[c] = got[c]
      PROVE  Own'
  <2>1. \A d \in Calls : ToBeSent(d)' => ToBeSent(d) /\ got'[d] = got[d]
    BY <1>0, <1>1 DEF ToBeSent
  <2> QED BY <1>0, <1>1, <2>1, QuietOwn, ClientAssumption DEF TypeOK
<1>2. CASE Answer(c)
  BY <1>1, <1>2 DEF Answer, Continue, Throw, Goto, Keyed, ToBeSent, TypeOK, locals
<1>3. CASE GetKey(c)
  <2>1. /\ pc[c] = "key" /\ UNCHANGED <<last, madeUnder, got, req, cached>>
    BY <1>3 DEF GetKey
  <2>2. key'[c] \in ServerKeys
    <3>1. Tab(c) \in Tabs
      BY <2>1, TabIsTab
    <3>2. \/ cached[Tab(c)] # NoKey /\ key' = [key EXCEPT ![c] = cached[Tab(c)]]
          \/ key' = [key EXCEPT ![c] = serverKey]
      BY <1>3 DEF GetKey
    <3> QED BY <3>1, <3>2 DEF TypeOK
  <2>3. OwnKeys'
    BY <1>0, <2>2 DEF OwnKeys, Keyed, Subscribing
  <2>4. OwnRequests'
    <3>1. pc'[c] # "signing"
      BY <1>3 DEF GetKey, Continue, Goto, TypeOK
    <3> QED BY <1>0, <2>1, <3>1 DEF OwnRequests, ToBeSent, Subscribing
  <2> QED BY <1>0, <2>1, <2>3, <2>4 DEF RowsAreMade, OnlyOwnChannels
<1>4. CASE KeepKey(c)
  BY <1>1, <1>4 DEF KeepKey, Continue, Goto, Keyed, ToBeSent, TypeOK, locals, browser
<1>5. CASE Lookup(c)
  <2>1. /\ pc[c] = "lookup" /\ got' = [got EXCEPT ![c] = sub] /\ UNCHANGED <<last, madeUnder, key, cached>>
        /\ SendIf(c, AfterLookup(c, sub) = "answer") /\ pc'[c] = AfterLookup(c, sub)
    BY <1>5 DEF Lookup, Resolve, Continue, Goto, TypeOK, browser
  <2>2. Subscribing(c) \in BOOLEAN
    BY <2>1, TabIsTab
  <2>3. OwnKeys'
    BY <1>0, <2>1 DEF OwnKeys, Keyed, Subscribing
  <2>4. ToBeSent(c)' /\ Subscribing(c) => sub \in 1 .. last /\ madeUnder[sub] \in ServerKeys
    <3> SUFFICES ASSUME ToBeSent(c)', Subscribing(c)
                 PROVE  sub \in 1 .. last /\ madeUnder[sub] \in ServerKeys
      OBVIOUS
    <3>1. key[c] \in ServerKeys /\ req[c] = "none"
      BY <2>1 DEF OwnKeys, Keyed, Begun, Silent
    <3>2. AfterLookup(c, sub) \in {"signing", "answer"}
      BY <2>1, <3>1 DEF ToBeSent, SendIf
    <3>3. sub # None /\ madeUnder[sub] = key[c]
      BY <3>2 DEF AfterLookup, KeysMatch
    <3> QED BY <3>1, <3>3, ClientAssumption DEF TypeOK, None
  <2>5. OwnRequests'
    <3> SUFFICES ASSUME NEW d \in Calls, ToBeSent(d)', Subscribing(d)'
                 PROVE  got'[d] \in 1 .. last' /\ madeUnder'[got'[d]] \in ServerKeys
      BY DEF OwnRequests
    <3>1. Subscribing(d)
      BY <1>0 DEF Subscribing
    <3>2. CASE d = c
      BY <2>1, <2>4, <3>1, <3>2 DEF TypeOK
    <3>3. CASE d # c
      BY <1>0, <2>1, <3>1, <3>3 DEF OwnRequests, ToBeSent
    <3> QED BY <3>2, <3>3
  <2> QED BY <1>0, <2>1, <2>3, <2>5 DEF RowsAreMade, OnlyOwnChannels
<1>6. CASE Drop(c)
  BY <1>1, <1>6 DEF Drop, Continue, Resolve, Goto, Keyed, ToBeSent, TypeOK, locals
<1>7. CASE Receive(c)
  BY <1>1, <1>7 DEF Receive, Continue, Resolve, Throw, Goto, Keyed, ToBeSent, TypeOK, locals, browser
<1>8. CASE Rejects(c)
  BY <1>1, <1>8 DEF Rejects, Throw, Goto, Keyed, ToBeSent, TypeOK, locals, browser
<1>9. CASE Create(c)
  <2>1. /\ pc[c] = "create" /\ got' = [got EXCEPT ![c] = sub'] /\ UNCHANGED <<key, cached>>
        /\ \/ sub = None /\ Make(key[c])
           \/ sub # None /\ madeUnder[sub] = key[c] /\ UNCHANGED <<sub, last, madeUnder>>
    BY <1>9 DEF Create
  <2>2. last <= last' /\ \A e \in 1 .. last : madeUnder'[e] = madeUnder[e]
    BY <2>1, MakeKeeps, ClientAssumption DEF TypeOK
  <2>3. sub' \in 1 .. last' /\ madeUnder'[sub'] = key[c]
    BY <2>1, ClientAssumption DEF Make, TypeOK, Endpoints, None
  <2>4. OwnKeys'
    BY <1>0, <2>1 DEF OwnKeys, Keyed, Subscribing
  <2>5. OwnRequests'
    <3> SUFFICES ASSUME NEW d \in Calls, ToBeSent(d)', Subscribing(d)'
                 PROVE  got'[d] \in 1 .. last' /\ madeUnder'[got'[d]] \in ServerKeys
      BY DEF OwnRequests
    <3>1. Subscribing(d)
      BY <1>0 DEF Subscribing
    <3>2. CASE d = c
      BY <2>1, <2>3, <3>1, <3>2 DEF OwnKeys, Keyed, TypeOK
    <3>3. CASE d # c
      <4>1. got'[d] = got[d] /\ got[d] \in 1 .. last /\ madeUnder[got[d]] \in ServerKeys
        BY <1>0, <3>1, <3>3 DEF OwnRequests, ToBeSent
      <4>2. last \in Nat /\ last' \in Nat
        BY ClientAssumption DEF TypeOK
      <4> QED BY <2>2, <4>1, <4>2
    <3> QED BY <3>2, <3>3
  <2>6. last \in Nat /\ last' \in Nat
    BY ClientAssumption DEF TypeOK
  <2>7. RowsAreMade'
    BY <1>0, <2>2, <2>6, ClientAssumption DEF RowsAreMade, Endpoints
  <2>8. OnlyOwnChannels'
    <3> SUFFICES ASSUME NEW e \in Endpoints, row[e] # NoRow
                 PROVE  madeUnder'[e] \in ServerKeys
      BY <1>0 DEF OnlyOwnChannels
    <3>1. e \in 1 .. last /\ madeUnder[e] \in ServerKeys
      BY <2>6 DEF RowsAreMade, OnlyOwnChannels, Endpoints
    <3> QED BY <2>2, <3>1
  <2> QED BY <2>1, <2>4, <2>5, <2>7, <2>8
<1>10. CASE Sign(c)
  <2>1. /\ pc[c] = "signing" /\ pc'[c] \in {"answer", "threw"} /\ req'[c] \in {"sent", req[c]}
        /\ UNCHANGED <<last, madeUnder, key, got>>
    BY <1>10 DEF Sign, Continue, Throw, Goto, Send, TypeOK, browser, locals
  <2> QED BY <1>1, <2>1 DEF Keyed, ToBeSent
<1> QED BY <1>2, <1>3, <1>4, <1>5, <1>6, <1>7, <1>8, <1>9, <1>10 DEF Step

\* The server writes rows for channels that were sent to it; the rest writes none.
LEMMA AroundOwn ==
    ASSUME Own, TypeOK', Begun',
           \/ \E c \in Calls : Handled(c)
           \/ \E e \in Endpoints : Prune(e)
           \/ \E t \in Tabs : Mounted(t)
           \/ Environment
    PROVE  Own'
<1> USE DEF Own
<1>1. ASSUME NEW c \in Calls, Handled(c) PROVE Own'
  <2>1. /\ req[c] = "sent" /\ UNCHANGED <<last, madeUnder, pc, args, key, got, cached>>
        /\ \A d \in Calls : req'[d] = "sent" => req[d] = "sent"
    BY <1>1 DEF Handled, Answered, TypeOK, browser, locals
  <2>2. OwnKeys' /\ OwnRequests'
    BY <2>1 DEF OwnKeys, OwnRequests, ToBeSent, Subscribing
  <2>3. pc[c] # "idle" /\ args[c] \in Args
    BY <2>1 DEF Begun, Silent
  <2>4. \A e \in Endpoints : row'[e] # NoRow =>
            row[e] # NoRow \/ (e = got[c] /\ Subscribing(c))
    <3>1. CASE Subscribing(c)
      BY <1>1, <3>1 DEF Handled, TypeOK
    <3>2. CASE ~Subscribing(c)
      <4>1. args[c].op = "unsubscribe"
        BY <2>3, <3>2 DEF Args, Subscribing
      <4> QED BY <1>1, <4>1 DEF Handled, Written, TypeOK
    <3> QED BY <3>1, <3>2
  <2>5. Subscribing(c) => got[c] \in 1 .. last /\ madeUnder[got[c]] \in ServerKeys
    BY <2>1 DEF OwnRequests, ToBeSent
  <2>6. RowsAreMade'
    BY <2>1, <2>4, <2>5, ClientAssumption DEF RowsAreMade, TypeOK
  <2>7. OnlyOwnChannels'
    BY <2>1, <2>4, <2>5 DEF OnlyOwnChannels
  <2> QED BY <2>1, <2>2, <2>6, <2>7
<1>2. ASSUME NEW e \in Endpoints, Prune(e) PROVE Own'
  <2>1. /\ UNCHANGED <<last, madeUnder, pc, args, key, got, cached, req>>
        /\ \A f \in Endpoints : row'[f] # NoRow => row[f] # NoRow
    BY <1>2 DEF Prune, TypeOK, browser, locals
  <2> QED BY <2>1 DEF OwnKeys, OwnRequests, ToBeSent, RowsAreMade, OnlyOwnChannels, Subscribing
<1>3. ASSUME UNCHANGED <<row, args, last, madeUnder, pc, key, req, got>> PROVE Own'
  BY <1>3, QuietOwn, ClientAssumption DEF ToBeSent, TypeOK
<1>4. ASSUME NEW t \in Tabs, Mounted(t) PROVE Own'
  BY <1>3, <1>4 DEF Mounted, browser, server, locals
<1>5. CASE BrowserDrops
  BY <1>3, <1>5 DEF BrowserDrops, server, locals
<1>6. ASSUME NEW p, SetPermission(p) PROVE Own'
  BY <1>3, <1>6 DEF SetPermission, server, locals
<1>7. CASE ForeignSubscribes
  <2>1. Make(ForeignKey) /\ UNCHANGED <<row, args, pc, key, got, req>>
    BY <1>7 DEF ForeignSubscribes, server, locals
  <2> QED BY <2>1, QuietOwn, MakeKeeps DEF ToBeSent
<1>8. ASSUME NEW k, Rotate(k) PROVE Own'
  BY <1>3, <1>8 DEF Rotate, browser, locals
<1>9. ASSUME NEW t \in Tabs, Reload(t) PROVE Own'
  <2>1. \A c \in Calls : /\ pc'[c] \in Keyed => pc[c] \in Keyed
                         /\ pc'[c] = "signing" => pc[c] = "signing"
    BY <1>9 DEF Reload, Keyed
  <2> QED BY <1>9, <2>1, QuietOwn, ClientAssumption DEF Reload, ToBeSent, TypeOK, browser, server, locals
<1>10. ASSUME NEW e \in Endpoints, Disable(e) PROVE Own'
  <2>1. /\ UNCHANGED <<last, madeUnder, pc, args, key, got, cached, req>>
        /\ \A f \in Endpoints : row'[f] # NoRow => row[f] # NoRow
    BY <1>10 DEF Disable, TypeOK, browser, locals
  <2> QED BY <2>1 DEF OwnKeys, OwnRequests, ToBeSent, RowsAreMade, OnlyOwnChannels, Subscribing
<1> QED BY <1>1, <1>2, <1>4, <1>5, <1>6, <1>7, <1>8, <1>9, <1>10 DEF Environment

\* A call that begins holds no key and has sent nothing.
LEMMA BeginOwn ==
    ASSUME Own, TypeOK', Begun', NEW c \in Calls, NEW t \in Tabs,
           (\E ask \in Asks : Subscribe(c, t, ask)) \/ Unsubscribe(c, t)
    PROVE  Own'
<1> USE DEF Own
<1>1. /\ UNCHANGED <<row, last, madeUnder, key, got, req, cached>> /\ pc[c] = "idle"
      /\ \A d \in Calls : d # c => pc'[d] = pc[d] /\ args'[d] = args[d]
  BY DEF Subscribe, Unsubscribe, Begin, Goto, TypeOK, browser, server
<1>2. pc'[c] \in Keyed => ~Subscribing(c)'
  BY DEF Subscribe, Unsubscribe, AfterPermission, Begin, Goto, Keyed, Subscribing, TypeOK
<1>3. OwnKeys'
  BY <1>1, <1>2 DEF OwnKeys, Subscribing
<1>4. req[c] = "none"
  BY <1>1 DEF Begun, Silent
<1>6. pc'[c] # "signing"
  BY DEF Subscribe, Unsubscribe, AfterPermission, Begin, Goto, TypeOK
<1>5. OwnRequests'
  BY <1>1, <1>4, <1>6 DEF OwnRequests, ToBeSent, Subscribing
<1> QED BY <1>1, <1>3, <1>5 DEF RowsAreMade, OnlyOwnChannels

\* The initial states have no call under way and no row.
LEMMA InitOwn == Init => Own
<1> SUFFICES ASSUME Init PROVE Own
  OBVIOUS
<1>1. TypeOK /\ Begun
  BY InitType
<1> QED BY <1>1 DEF Init, Own, OwnKeys, OwnRequests, ToBeSent, RowsAreMade, OnlyOwnChannels, Keyed

\* Every step keeps the channels apart.
LEMMA NextOwn == Own /\ [Next]_vars => Own'
<1>1. ASSUME Own, Next PROVE Own'
  <2>1. TypeOK' /\ Begun'
    BY <1>1, NextType, BegunNext DEF Own
  <2> QED BY <1>1, <2>1, BeginOwn, StepOwn, AroundOwn DEF Next
<1>2. ASSUME Own, UNCHANGED vars PROVE Own'
  BY <1>2 DEF vars, browser, server, hooks, locals, Own, TypeOK, Begun, OwnKeys, OwnRequests, ToBeSent,
              RowsAreMade, OnlyOwnChannels, Subscribing
<1> QED BY <1>1, <1>2

\* Types, keys and requests, as an invariant of the SDK.
THEOREM Invariance == Spec => []Own
BY InitOwn, NextOwn, PTL DEF Spec

\* Type correctness of the SDK.
THEOREM TypeCorrect == Spec => []TypeOK
<1>1. Own => TypeOK
  BY DEF Own
<1> QED BY <1>1, Invariance, PTL

\* The server holds no channel that was made for another service's key
\* (index.ts:137-140), however calls, tabs and late requests overlap.
THEOREM OnlyOwnChannelsHolds == Spec => []OnlyOwnChannels
<1>1. Own => OnlyOwnChannels
  BY DEF Own
<1> QED BY <1>1, Invariance, PTL

-----------------------------------------------------------------------------
(* The spinner *)

\* Every step keeps a call behind each hook that shows one: the hook forgets them all
\* when one of them ends.
LEMMA NextSpinner ==
    ASSUME TypeOK, Begun, SpinnerHasACall, Next
    PROVE  SpinnerHasACall'
<1>1. ASSUME NEW c \in Calls, NEW a \in Args, NEW label, Begin(c, a, label)
      PROVE  SpinnerHasACall'
  <2>1. /\ pc[c] = "idle" /\ pc' = [pc EXCEPT ![c] = label] /\ args' = [args EXCEPT ![c] = a]
        /\ loading' = [loading EXCEPT ![a.tab] = (label \in Waiting)]
    BY <1>1 DEF Begin, Goto
  <2> SUFFICES ASSUME NEW t \in Tabs, loading'[t]
               PROVE  \E d \in Calls : InFlight(d)' /\ Tab(d)' = t
    BY DEF SpinnerHasACall
  <2>2. CASE t = a.tab
    <3>1. label \in Waiting
      BY <2>1, <2>2 DEF TypeOK
    <3>2. pc'[c] \in Waiting /\ args'[c] = a
      BY <2>1, <3>1 DEF TypeOK
    <3> QED BY <2>2, <3>2 DEF InFlight, Tab
  <2>3. CASE t # a.tab
    <3>1. loading[t]
      BY <2>1, <2>3 DEF TypeOK
    <3>2. PICK d \in Calls : InFlight(d) /\ Tab(d) = t
      BY <3>1 DEF SpinnerHasACall
    <3>3. d # c
      BY <2>1, <3>2 DEF InFlight, Waiting
    <3>4. pc'[d] = pc[d] /\ args'[d] = args[d]
      BY <2>1, <3>3 DEF TypeOK
    <3> QED BY <3>2, <3>4 DEF InFlight, Tab
  <2> QED BY <2>2, <2>3
<1>2. ASSUME NEW c \in Calls, Answer(c) \/ Sign(c) \/ Step(c)
      PROVE  SpinnerHasACall'
  <2>1. pc[c] # "idle" /\ UNCHANGED args
    BY <1>2 DEF Answer, Sign, Step, GetKey, KeepKey, Lookup, Drop, Create, Receive, Rejects, InFlight,
                Waiting, locals
  <2>2. \A d \in Calls : d # c => pc'[d] = pc[d]
    BY <1>2 DEF Answer, Sign, Step, GetKey, KeepKey, Lookup, Drop, Create, Receive, Rejects, Resolve,
                Throw, Continue, Goto, TypeOK
  <2>3. Tab(c) \in Tabs
    BY <2>1, TabIsTab
  <2>4. \/ UNCHANGED loading /\ pc'[c] \in Waiting
        \/ loading' = [loading EXCEPT ![Tab(c)] = FALSE]
    <3>1. ASSUME NEW label \in Waiting, Continue(c, label)
          PROVE  UNCHANGED loading /\ pc'[c] \in Waiting
      BY <3>1 DEF Continue, Goto, TypeOK
    <3>2. {"key", "keyAnswer", "lookup", "drop", "create", "signing", "answer"} \subseteq Waiting
      BY DEF Waiting
    <3>3. ToServer(c) \in Waiting /\ (AfterLookup(c, sub) # "resolved" => AfterLookup(c, sub) \in Waiting)
      BY <3>2 DEF AfterLookup, ToServer
    <3>4. Resolve(c) \/ (\E label : Throw(c, label)) \/ (\E label \in Waiting : Continue(c, label))
      BY <1>2, <3>2, <3>3 DEF Answer, Sign, Step, GetKey, KeepKey, Lookup, Drop, Create, Receive, Rejects
    <3> QED BY <3>1, <3>4 DEF Resolve, Throw
  <2> SUFFICES ASSUME NEW t \in Tabs, loading'[t]
               PROVE  \E d \in Calls : InFlight(d)' /\ Tab(d)' = t
    BY DEF SpinnerHasACall
  <2>5. loading[t]
    BY <2>3, <2>4 DEF TypeOK
  <2>6. PICK d \in Calls : InFlight(d) /\ Tab(d) = t
    BY <2>5 DEF SpinnerHasACall
  <2>7. d = c => pc'[c] \in Waiting
    BY <2>3, <2>4, <2>6 DEF TypeOK
  <2> QED BY <2>1, <2>2, <2>6, <2>7 DEF InFlight, Tab
<1>3. ASSUME NEW r \in Tabs, Reload(r) PROVE SpinnerHasACall'
  <2>1. /\ loading' = [loading EXCEPT ![r] = FALSE] /\ UNCHANGED args
        /\ \A d \in Calls : InFlight(d) /\ Tab(d) # r => pc'[d] = pc[d]
    BY <1>3 DEF Reload, locals
  <2> SUFFICES ASSUME NEW t \in Tabs, loading'[t]
               PROVE  \E d \in Calls : InFlight(d)' /\ Tab(d)' = t
    BY DEF SpinnerHasACall
  <2>2. t # r /\ loading[t]
    BY <2>1 DEF TypeOK
  <2>3. PICK d \in Calls : InFlight(d) /\ Tab(d) = t
    BY <2>2 DEF SpinnerHasACall
  <2> QED BY <2>1, <2>2, <2>3 DEF InFlight, Tab
<1>4. CASE UNCHANGED <<pc, args, loading>>
  BY <1>4 DEF SpinnerHasACall, InFlight, Tab
<1> QED
  <2>1. ASSUME NEW c \in Calls, NEW t \in Tabs, NEW ask \in Asks, Subscribe(c, t, ask)
        PROVE  SpinnerHasACall'
    <3>1. [tab |-> t, op |-> "subscribe", ask |-> ask] \in Args
      BY DEF Args
    <3> QED BY <1>1, <2>1, <3>1 DEF Subscribe
  <2>2. ASSUME NEW c \in Calls, NEW t \in Tabs, Unsubscribe(c, t)
        PROVE  SpinnerHasACall'
    <3>1. [tab |-> t, op |-> "unsubscribe", ask |-> NoAsk] \in Args
      BY DEF Args
    <3> QED BY <1>1, <2>2, <3>1 DEF Unsubscribe
  <2>3. ASSUME NEW c \in Calls, Handled(c) PROVE UNCHANGED <<pc, args, loading>>
    BY <2>3 DEF Handled, hooks, locals
  <2>4. ASSUME NEW e \in Endpoints, Prune(e) PROVE UNCHANGED <<pc, args, loading>>
    BY <2>4 DEF Prune, hooks, locals
  <2>5. ASSUME NEW t \in Tabs, Mounted(t) PROVE UNCHANGED <<pc, args, loading>>
    BY <2>5 DEF Mounted, locals
  <2>6. CASE BrowserDrops \/ ForeignSubscribes
    BY <1>4, <2>6 DEF BrowserDrops, ForeignSubscribes, hooks, locals
  <2>7. ASSUME NEW p, SetPermission(p) PROVE UNCHANGED <<pc, args, loading>>
    BY <2>7 DEF SetPermission, hooks, locals
  <2>8. ASSUME NEW k, Rotate(k) PROVE UNCHANGED <<pc, args, loading>>
    BY <2>8 DEF Rotate, hooks, locals
  <2>9. ASSUME NEW e \in Endpoints, Disable(e) PROVE UNCHANGED <<pc, args, loading>>
    BY <2>9 DEF Disable, hooks, locals
  <2> QED BY <1>2, <1>3, <1>4, <2>1, <2>2, <2>3, <2>4, <2>5, <2>6, <2>7, <2>8, <2>9
          DEF Next, Environment

\* A hook that shows a call in progress has one (react.ts:73-85, react.ts:89-99).
THEOREM SpinnerHasACallHolds == Spec => []SpinnerHasACall
<1>1. Init => SpinnerHasACall
  BY DEF Init, SpinnerHasACall
<1>2. Own /\ SpinnerHasACall /\ [Next]_vars => SpinnerHasACall'
  <2>1. ASSUME Own, SpinnerHasACall, UNCHANGED vars PROVE SpinnerHasACall'
    BY <2>1 DEF vars, hooks, locals, SpinnerHasACall, InFlight, Tab
  <2> QED BY <2>1, NextSpinner DEF Own
<1> QED BY <1>1, <1>2, Invariance, PTL DEF Spec

-----------------------------------------------------------------------------
(* What a call achieves when nothing else moves *)

\* Before its lookup a call holds no subscription.
Early == {"idle", "asking", "key", "keyAnswer", "lookup"}
EmptyHanded == \A c \in Calls : pc[c] \in Early => got[c] = None

RowIsOf(c) == row[sub] # NoRow /\ row[sub].user = args[c].ask.user /\ ~row[sub].disabled

\* How far a subscribe() has brought browser, server and hook together.
SubscribePlan(c) ==
    /\ pc[c] \in {"lookup", "drop", "create", "signing", "answer", "resolved"} => key[c] = cached[Tab(c)]
    /\ pc[c] = "drop" => sub = got[c]
    /\ pc[c] = "create" => sub = None
    /\ pc[c] \in {"signing", "answer", "resolved"} => sub # None /\ madeUnder[sub] = key[c]
    /\ pc[c] \in {"signing", "answer"} => sub = got[c]
    /\ (pc[c] = "answer" /\ req[c] = "ok") \/ pc[c] = "resolved" => RowIsOf(c)
    /\ pc[c] = "resolved" => subscribed[Tab(c)]

\* How far an unsubscribe() has taken the channel away.
UnsubscribePlan(c) ==
    /\ pc[c] \notin {"create", "signing"}
    /\ pc[c] \in {"answer", "drop"} => got[c] # None /\ sub = got[c]
    /\ (pc[c] = "answer" /\ req[c] = "ok") \/ pc[c] = "drop" => row[got[c]] = NoRow
    /\ pc[c] = "resolved" => /\ sub = None /\ ~subscribed[Tab(c)]
                             /\ got[c] # None => row[got[c]] = NoRow
    /\ pc[c] = "threw" /\ got[c] # None => sub = got[c]

\* Beside a call that is alone no other waits or has a request under way.
Quiet(c) == \A d \in Calls \ {c} : ~InFlight(d) /\ req[d] # "sent"

Plan(c) ==
    /\ pc[c] # "idle" /\ Quiet(c)
    /\ Subscribing(c) => SubscribePlan(c)
    /\ ~Subscribing(c) => UnsubscribePlan(c)

Plans == EmptyHanded /\ \A c \in Calls : alone = c => Plan(c)

\* Before its lookup a call holds no subscription, whatever moves.
LEMMA NextEmptyHanded ==
    ASSUME TypeOK, Begun, EmptyHanded, Next
    PROVE  EmptyHanded'
<1>1. ASSUME NEW c \in Calls, NEW a, NEW label, Begin(c, a, label) PROVE EmptyHanded'
  <2>1. pc[c] = "idle" /\ UNCHANGED got /\ \A d \in Calls : d # c => pc'[d] = pc[d]
    BY <1>1 DEF Begin, Goto, TypeOK
  <2> QED BY <2>1 DEF EmptyHanded, Early
<1>2. ASSUME NEW c \in Calls, Answer(c) \/ Sign(c) \/ Step(c) PROVE EmptyHanded'
  <2>1. \A d \in Calls : d # c => pc'[d] = pc[d] /\ got'[d] = got[d]
    BY <1>2 DEF Answer, Sign, Step, GetKey, KeepKey, Lookup, Drop, Create, Receive, Rejects, Resolve,
                Throw, Continue, Goto, TypeOK, locals
  <2>2. pc'[c] \in Early => pc[c] \in Early /\ got'[c] = got[c]
    BY <1>2 DEF Answer, Sign, Step, GetKey, KeepKey, Lookup, Drop, Create, Receive, Rejects, Resolve,
                Throw, Continue, Goto, AfterLookup, ToServer, Early, TypeOK, locals
  <2> QED BY <2>1, <2>2 DEF EmptyHanded
<1>3. ASSUME NEW r \in Tabs, Reload(r) PROVE EmptyHanded'
  BY <1>3 DEF Reload, EmptyHanded, Early, locals
<1>4. CASE UNCHANGED <<pc, got>>
  BY <1>4 DEF EmptyHanded
<1>5. ASSUME NEW c \in Calls, Handled(c) PROVE UNCHANGED <<pc, got>>
  BY <1>5 DEF Handled, locals
<1>6. ASSUME NEW e \in Endpoints, Prune(e) PROVE UNCHANGED <<pc, got>>
  BY <1>6 DEF Prune, locals
<1>7. ASSUME NEW t \in Tabs, Mounted(t) PROVE UNCHANGED <<pc, got>>
  BY <1>7 DEF Mounted, locals
<1>8. CASE BrowserDrops \/ ForeignSubscribes
  BY <1>4, <1>8 DEF BrowserDrops, ForeignSubscribes, locals
<1>9. ASSUME NEW p, SetPermission(p) PROVE UNCHANGED <<pc, got>>
  BY <1>9 DEF SetPermission, locals
<1>10. ASSUME NEW k, Rotate(k) PROVE UNCHANGED <<pc, got>>
  BY <1>10 DEF Rotate, locals
<1>11. ASSUME NEW e \in Endpoints, Disable(e) PROVE UNCHANGED <<pc, got>>
  BY <1>11 DEF Disable, locals
<1> QED BY <1>1, <1>2, <1>3, <1>4, <1>5, <1>6, <1>7, <1>8, <1>9, <1>10, <1>11
        DEF Next, Environment, Subscribe, Unsubscribe

\* A call's own step keeps the others quiet.
LEMMA StepQuiet ==
    ASSUME TypeOK, Begun, NEW c \in Calls, Plan(c), Answer(c) \/ Sign(c) \/ Step(c)
    PROVE  pc'[c] # "idle" /\ Quiet(c)' /\ Subscribing(c)' = Subscribing(c) /\ Tab(c)' = Tab(c)
<1>1. UNCHANGED args /\ \A d \in Calls : d # c => pc'[d] = pc[d] /\ req'[d] = req[d]
  BY DEF Answer, Sign, Step, GetKey, KeepKey, Lookup, Drop, Create, Receive, Rejects, Resolve,
         Throw, Continue, Goto, Send, SendIf, TypeOK, locals
<1>2. pc'[c] # "idle"
  BY DEF Answer, Sign, Step, GetKey, KeepKey, Lookup, Drop, Create, Receive, Rejects, Resolve,
         Throw, Continue, Goto, AfterLookup, ToServer, TypeOK
<1> QED BY <1>1, <1>2 DEF Plan, Quiet, InFlight, Subscribing, Tab

\* A channel's number tells whether there is one.
LEMMA SubIsEndpoint ==
    ASSUME TypeOK, sub # None
    PROVE  sub \in Endpoints
BY ClientAssumption DEF TypeOK, None, Endpoints

\* A subscribe() alone brings the three places together, step by step.
LEMMA StepSubscribe ==
    ASSUME TypeOK, Begun, NEW c \in Calls, SubscribePlan(c), Subscribing(c), Answer(c) \/ Sign(c) \/ Step(c)
    PROVE  SubscribePlan(c)'
<1> USE DEF SubscribePlan, RowIsOf, TypeOK
<1>0. UNCHANGED <<args, row>> /\ Tab(c)' = Tab(c)
  BY DEF Answer, Sign, Step, GetKey, KeepKey, Lookup, Drop, Create, Receive, Rejects, Tab, locals, server
<1>1. CASE Answer(c)
  <2>1. pc'[c] \in {"key", "denied"}
    BY <1>1 DEF Answer, Continue, Throw, Goto
  <2> QED BY <2>1
<1>2. CASE GetKey(c)
  <2>1. pc[c] = "key" /\ UNCHANGED cached
    BY <1>2 DEF GetKey
  <2>2. \/ key'[c] = cached[Tab(c)] /\ pc'[c] = "lookup"
        \/ pc'[c] = "keyAnswer"
    BY <1>2 DEF GetKey, Continue, Goto
  <2> QED BY <1>0, <2>1, <2>2
<1>3. CASE KeepKey(c)
  <2>1. pc[c] = "keyAnswer" /\ UNCHANGED key /\ pc'[c] = "lookup"
    BY <1>3 DEF KeepKey, Continue, Goto, locals
  <2>2. Tab(c) \in Tabs
    BY <2>1, TabIsTab
  <2>3. cached'[Tab(c)] = key[c]
    BY <1>3, <2>2 DEF KeepKey
  <2> QED BY <1>0, <2>1, <2>3
<1>4. CASE Lookup(c)
  <2>1. /\ pc[c] = "lookup" /\ got' = [got EXCEPT ![c] = sub]
        /\ UNCHANGED <<sub, madeUnder, cached, key>>
        /\ SendIf(c, AfterLookup(c, sub) = "answer")
    BY <1>4 DEF Lookup, browser
  <2>2. /\ AfterLookup(c, sub) \in {"create", "signing", "answer", "drop"}
        /\ AfterLookup(c, sub) = "create" => sub = None
        /\ AfterLookup(c, sub) \in {"signing", "answer"} => sub # None /\ madeUnder[sub] = key[c]
    BY DEF AfterLookup, ToServer, KeysMatch
  <2>3. pc' = [pc EXCEPT ![c] = AfterLookup(c, sub)]
    BY <1>4, <2>2 DEF Lookup, Continue, Goto
  <2>4. pc'[c] = AfterLookup(c, sub) /\ got'[c] = sub /\ (pc'[c] = "answer" => req'[c] = "sent")
    BY <2>1, <2>3 DEF SendIf, Send
  <2>5. key[c] = cached[Tab(c)]
    BY <2>1
  <2> HIDE DEF TypeOK
  <2> QED BY <1>0, <2>1, <2>2, <2>4, <2>5
<1>5. CASE Drop(c)
  <2>1. /\ pc[c] = "drop" /\ pc'[c] = "create" /\ sub' = None /\ UNCHANGED <<cached, key>>
    BY <1>5 DEF Drop, Continue, Goto, locals
  <2> QED BY <1>0, <2>1
<1>6. CASE Create(c)
  <2>1. /\ pc[c] = "create" /\ got'[c] = sub'
        /\ pc' = [pc EXCEPT ![c] = ToServer(c)] /\ SendIf(c, ToServer(c) = "answer")
        /\ sub = None /\ Make(key[c]) /\ UNCHANGED <<cached, key>>
    BY <1>6 DEF Create, Continue, Goto
  <2>2. sub' # None /\ madeUnder'[sub'] = key[c]
    BY <2>1, ClientAssumption DEF Make, None, Endpoints
  <2>3. pc'[c] \in {"signing", "answer"} /\ (pc'[c] = "answer" => req'[c] = "sent")
    BY <2>1 DEF ToServer, SendIf, Send
  <2> QED BY <1>0, <2>1, <2>2, <2>3
<1>7. CASE Receive(c)
  <2>1. pc[c] = "answer" /\ UNCHANGED <<sub, madeUnder, cached, key>>
    BY <1>7 DEF Receive, browser, locals
  <2>2. CASE req[c] = "ok" /\ Resolve(c)
    <3>1. Tab(c) \in Tabs
      BY <2>1, TabIsTab
    <3>2. pc'[c] = "resolved" /\ subscribed'[Tab(c)]
      BY <2>2, <3>1 DEF Resolve, Goto
    <3> QED BY <1>0, <2>1, <2>2, <3>2
  <2>3. CASE Throw(c, "threw")
    <3>1. pc'[c] = "threw"
      BY <2>3 DEF Throw, Goto
    <3> QED BY <3>1
  <2> QED BY <1>7, <2>2, <2>3 DEF Receive
<1>8. CASE Rejects(c)
  <2>1. pc'[c] = "threw"
    BY <1>8 DEF Rejects, Throw, Goto
  <2> QED BY <2>1
<1>9. CASE Sign(c)
  <2>1. /\ pc[c] = "signing" /\ UNCHANGED <<sub, madeUnder, cached, key, got>>
        /\ (pc'[c] = "answer" /\ req'[c] = "sent") \/ pc'[c] = "threw"
    BY <1>9 DEF Sign, Continue, Throw, Goto, Send, browser, locals
  <2> QED BY <1>0, <2>1
<1> QED BY <1>1, <1>2, <1>3, <1>4, <1>5, <1>6, <1>7, <1>8, <1>9 DEF Step

\* An unsubscribe() alone takes the channel away, first from the server.
LEMMA StepUnsubscribe ==
    ASSUME TypeOK, Begun, EmptyHanded, NEW c \in Calls, UnsubscribePlan(c), ~Subscribing(c),
           Answer(c) \/ Sign(c) \/ Step(c)
    PROVE  UnsubscribePlan(c)'
<1> USE DEF UnsubscribePlan, TypeOK
<1>0. UNCHANGED <<args, row>> /\ Tab(c)' = Tab(c)
  BY DEF Answer, Sign, Step, GetKey, KeepKey, Lookup, Drop, Create, Receive, Rejects, Tab, locals, server
<1>1. CASE Answer(c) \/ GetKey(c) \/ KeepKey(c)
  <2>1. pc'[c] \in {"key", "denied", "lookup", "keyAnswer"}
    BY <1>1 DEF Answer, GetKey, KeepKey, Continue, Throw, Goto
  <2> QED BY <2>1
<1>2. CASE Lookup(c)
  <2>1. /\ pc[c] = "lookup" /\ got' = [got EXCEPT ![c] = sub] /\ UNCHANGED sub
        /\ AfterLookup(c, sub) = "answer" => req' = [req EXCEPT ![c] = "sent"]
    BY <1>2 DEF Lookup, SendIf, Send, browser
  <2>2. AfterLookup(c, sub) = IF sub = None THEN "resolved" ELSE "answer"
    BY DEF AfterLookup
  <2>3. CASE sub = None
    <3>1. Resolve(c) /\ Tab(c) \in Tabs /\ got'[c] = None
      BY <1>2, <2>1, <2>2, <2>3, TabIsTab DEF Lookup
    <3>2. pc'[c] = "resolved" /\ ~subscribed'[Tab(c)]
      BY <3>1 DEF Resolve, Goto
    <3> QED BY <1>0, <2>1, <2>3, <3>1, <3>2
  <2>4. CASE sub # None
    <3>1. pc'[c] = "answer" /\ got'[c] = sub /\ req'[c] = "sent"
      BY <1>2, <2>1, <2>2, <2>4 DEF Lookup, Continue, Goto
    <3> QED BY <2>1, <2>4, <3>1
  <2> QED BY <2>3, <2>4
<1>3. CASE Drop(c)
  <2>1. pc[c] = "drop" /\ sub' = None /\ Resolve(c) /\ UNCHANGED got /\ Tab(c) \in Tabs
    BY <1>3, TabIsTab DEF Drop, locals
  <2>2. pc'[c] = "resolved" /\ ~subscribed'[Tab(c)]
    BY <2>1 DEF Resolve, Goto
  <2> QED BY <1>0, <2>1, <2>2
<1>4. CASE Create(c) \/ Sign(c)
  BY <1>4 DEF Create, Sign
<1>5. CASE Receive(c)
  <2>1. /\ pc[c] = "answer" /\ UNCHANGED <<sub, got>>
        /\ \/ req[c] = "ok" /\ pc'[c] = "drop"
           \/ pc'[c] = "threw"
    BY <1>5 DEF Receive, Continue, Throw, Goto, browser, locals
  <2> QED BY <1>0, <2>1
<1>6. CASE Rejects(c)
  <2>1. pc'[c] = "threw" /\ UNCHANGED <<sub, got>> /\ InFlight(c)
    BY <1>6 DEF Rejects, Throw, Goto, browser, locals
  <2>2. pc[c] \in Early \/ pc[c] \in {"drop", "answer"}
    BY <2>1 DEF InFlight, Waiting, Early
  <2>3. CASE pc[c] \in Early
    BY <2>1, <2>3 DEF EmptyHanded
  <2>4. CASE pc[c] \in {"drop", "answer"}
    BY <2>1, <2>4
  <2> QED BY <2>2, <2>3, <2>4
<1> QED BY <1>1, <1>2, <1>3, <1>4, <1>5, <1>6 DEF Step

\* The server does what the call that is alone asked of it.
LEMMA HandledPlan ==
    ASSUME TypeOK, Begun, NEW c \in Calls, Plan(c), Handled(c)
    PROVE  Plan(c)'
<1> USE DEF TypeOK
<1>1. /\ UNCHANGED <<sub, last, madeUnder, cached, mounted, subscribed, pc, args, key, got>>
      /\ req[c] = "sent" /\ \A d \in Calls : d # c => req'[d] = req[d]
  BY DEF Handled, Answered, browser, hooks, locals
<1>2. pc'[c] # "idle" /\ Quiet(c)' /\ Subscribing(c)' = Subscribing(c) /\ Tab(c)' = Tab(c)
  BY <1>1 DEF Plan, Quiet, InFlight, Subscribing, Tab
<1>3. pc[c] \notin {"resolved", "drop", "signing"}
  BY <1>1 DEF Begun, Silent
<1>4. pc[c] = "answer" /\ req'[c] = "ok" => row' = [row EXCEPT ![got[c]] = Written(args[c], @)]
  BY DEF Handled, Answered
<1>5. args[c] \in Args
  BY DEF Plan, Begun
<1>6. ASSUME Subscribing(c) PROVE SubscribePlan(c)'
  <2>1. ASSUME pc[c] = "answer", req'[c] = "ok" PROVE RowIsOf(c)'
    <3>1. sub # None /\ sub = got[c]
      BY <1>6, <2>1 DEF Plan, SubscribePlan
    <3>2. sub \in Endpoints
      BY <3>1, SubIsEndpoint
    <3>3. row'[sub] = Written(args[c], row[sub])
      BY <1>4, <2>1, <3>1, <3>2
    <3>4. Written(args[c], row[sub]).user = args[c].ask.user /\ ~Written(args[c], row[sub]).disabled
      BY <1>6 DEF Subscribing, Written
    <3>5. Written(args[c], row[sub]) \in Rows
      <4>1. args[c].ask.user \in Users /\ args[c].ask.signs \in BOOLEAN
        BY <1>5, <1>6, ClientAssumption DEF Args, Subscribing
      <4>2. ((strict /\ args[c].ask.signs) \/ (row[sub] # NoRow /\ row[sub].verified)) \in BOOLEAN
        <5>1. row[sub] \in Rows \cup {NoRow}
          BY <3>2
        <5> QED BY <5>1
      <4> QED BY <1>6, <4>1, <4>2 DEF Subscribing, Written, Rows
    <3>6. row'[sub] # NoRow
      BY <3>3, <3>5, ClientAssumption DEF Rows
    <3> QED BY <1>1, <3>3, <3>4, <3>6 DEF RowIsOf
  <2> QED BY <1>1, <1>2, <1>3, <1>6, <2>1 DEF Plan, SubscribePlan
<1>7. ASSUME ~Subscribing(c) PROVE UnsubscribePlan(c)'
  <2>1. args[c].op = "unsubscribe"
    BY <1>5, <1>7 DEF Args, Subscribing
  <2>2. ASSUME pc[c] = "answer", req'[c] = "ok" PROVE row'[got[c]] = NoRow
    <3>1. sub # None /\ sub = got[c]
      BY <1>7, <2>2 DEF Plan, UnsubscribePlan
    <3>2. sub \in Endpoints
      BY <3>1, SubIsEndpoint
    <3> QED BY <1>4, <2>1, <2>2, <3>1, <3>2 DEF Written
  <2> QED BY <1>1, <1>2, <1>3, <1>7, <2>2 DEF Plan, UnsubscribePlan
<1> QED BY <1>2, <1>6, <1>7 DEF Plan

\* A call that begins alone is at its start.
LEMMA BeginPlan ==
    ASSUME TypeOK, Begun, NEW c \in Calls, NEW t \in Tabs, alone' = c,
           (\E ask \in Asks : Subscribe(c, t, ask)) \/ Unsubscribe(c, t)
    PROVE  Plan(c)'
<1> USE DEF TypeOK
<1>1. c # None
  BY ClientAssumption DEF Calls, None
<1>2. ~Overlapped(c) /\ UNCHANGED req /\ \A d \in Calls : d # c => pc'[d] = pc[d]
  BY <1>1 DEF Subscribe, Unsubscribe, Begin, Goto
<1>3. Quiet(c)'
  BY <1>2 DEF Quiet, Overlapped, InFlight
<1>4. CASE \E ask \in Asks : Subscribe(c, t, ask)
  <2>1. PICK ask \in Asks : Subscribe(c, t, ask)
    BY <1>4
  <2>2. pc'[c] \in {"asking", "key", "denied"} /\ args'[c].op = "subscribe"
    BY <2>1 DEF Subscribe, Begin, Goto, AfterPermission
  <2>3. SubscribePlan(c)'
    BY <2>2 DEF SubscribePlan
  <2> QED BY <1>3, <2>2, <2>3 DEF Plan, Subscribing
<1>5. CASE Unsubscribe(c, t)
  <2>1. pc'[c] = "lookup" /\ args'[c].op = "unsubscribe"
    BY <1>5 DEF Unsubscribe, Begin, Goto
  <2>2. UnsubscribePlan(c)'
    BY <2>1 DEF UnsubscribePlan
  <2> QED BY <1>3, <2>1, <2>2 DEF Plan, Subscribing
<1> QED BY <1>4, <1>5

\* Pruned rows are those of other channels, and the hook's effect shows the browser's.
LEMMA AsidePlan ==
    ASSUME TypeOK, Begun, NEW c \in Calls, Plan(c),
           (\E e \in Endpoints : Prune(e)) \/ (\E t \in Tabs : Mounted(t))
    PROVE  Plan(c)'
<1> USE DEF TypeOK
<1>1. CASE \E e \in Endpoints : Prune(e)
  <2>1. PICK e \in Endpoints : Prune(e)
    BY <1>1
  <2>2. /\ UNCHANGED <<sub, madeUnder, cached, subscribed, pc, args, key, got, req>>
        /\ row' = [row EXCEPT ![e] = NoRow] /\ e # sub
    BY <2>1 DEF Prune, Gone, browser, hooks, locals
  <2>3. row'[sub] = row[sub] /\ (row[got[c]] = NoRow => row'[got[c]] = NoRow)
    BY <2>2
  <2>4. Subscribing(c) => SubscribePlan(c)'
    BY <2>2, <2>3 DEF Plan, SubscribePlan, RowIsOf, Tab
  <2>5. ~Subscribing(c) => UnsubscribePlan(c)'
    BY <2>2, <2>3 DEF Plan, UnsubscribePlan, Tab
  <2> QED BY <2>2, <2>4, <2>5 DEF Plan, Quiet, InFlight, Subscribing
<1>2. CASE \E t \in Tabs : Mounted(t)
  <2>1. PICK t \in Tabs : Mounted(t)
    BY <1>2
  <2>2. /\ UNCHANGED <<sub, madeUnder, row, cached, pc, args, key, got, req>>
        /\ subscribed' = [subscribed EXCEPT ![t] = (sub # None)]
    BY <2>1 DEF Mounted, browser, server, locals
  <2>3. Tab(c) \in Tabs
    BY TabIsTab DEF Plan
  <2>4. subscribed'[Tab(c)] = subscribed[Tab(c)] \/ subscribed'[Tab(c)] = (sub # None)
    BY <2>2, <2>3
  <2>5. Subscribing(c) => SubscribePlan(c)'
    BY <2>2, <2>4 DEF Plan, SubscribePlan, RowIsOf, Tab
  <2>6. ~Subscribing(c) => UnsubscribePlan(c)'
    BY <2>2, <2>4 DEF Plan, UnsubscribePlan, Tab
  <2> QED BY <2>2, <2>5, <2>6 DEF Plan, Quiet, InFlight, Subscribing
<1> QED BY <1>1, <1>2

\* Every step keeps the plans.
LEMMA NextPlans ==
    ASSUME TypeOK, Begun, Plans, Next
    PROVE  Plans'
<1>0. EmptyHanded'
  BY NextEmptyHanded DEF Plans
<1> SUFFICES ASSUME NEW c \in Calls, alone' = c PROVE Plan(c)'
  BY <1>0 DEF Plans
<1>1. c # None
  BY ClientAssumption DEF Calls, None
<1>2. ASSUME NEW d \in Calls, Moves(d) PROVE d = c /\ alone = c
  BY <1>1, <1>2 DEF Moves
<1>3. ASSUME NEW d \in Calls, Answer(d) \/ Sign(d) \/ Step(d) PROVE Plan(c)'
  <2>1. Moves(d)
    BY <1>3 DEF Answer, Sign, Step, GetKey, KeepKey, Lookup, Drop, Create, Receive, Rejects
  <2>2. d = c /\ Plan(c)
    BY <1>2, <2>1 DEF Plans
  <2> QED BY <1>3, <2>2, StepQuiet, StepSubscribe, StepUnsubscribe DEF Plan, Plans
<1>4. ASSUME NEW d \in Calls, Handled(d) PROVE Plan(c)'
  <2>1. Moves(d)
    BY <1>4 DEF Handled
  <2> QED BY <1>2, <1>4, <2>1, HandledPlan DEF Plans
<1>5. ASSUME NEW d \in Calls, NEW t \in Tabs,
             (\E ask \in Asks : Subscribe(d, t, ask)) \/ Unsubscribe(d, t)
      PROVE  Plan(c)'
  <2>1. d = c
    BY <1>1, <1>5 DEF Subscribe, Unsubscribe, Begin
  <2> QED BY <1>5, <2>1, BeginPlan
<1>6. CASE (\E e \in Endpoints : Prune(e)) \/ (\E t \in Tabs : Mounted(t))
  <2>1. alone = c
    BY <1>6 DEF Prune, Mounted
  <2> QED BY <1>6, <2>1, AsidePlan DEF Plans
<1>7. CASE Environment
  <2>1. alone' = None
    BY <1>7 DEF Environment, BrowserDrops, ForeignSubscribes, SetPermission, Rotate, Disable, Reload, Event
  <2> QED BY <1>1, <2>1
<1> QED BY <1>3, <1>4, <1>5, <1>6, <1>7 DEF Next

\* The plans are an invariant of the SDK.
THEOREM PlansHold == Spec => []Plans
<1>1. Init => Plans
  BY ClientAssumption DEF Init, Plans, EmptyHanded, Calls, None
<1>2. Own /\ Plans /\ [Next]_vars => Plans'
  <2>1. ASSUME Own, Plans, UNCHANGED vars PROVE Plans'
    BY <2>1 DEF vars, browser, server, hooks, locals, Plans, EmptyHanded, Plan, Quiet, InFlight,
                SubscribePlan, UnsubscribePlan, RowIsOf, Subscribing, Tab
  <2> QED BY <2>1, NextPlans DEF Own
<1> QED BY <1>1, <1>2, Invariance, PTL DEF Spec

\* A subscribe() with nothing beside it heals whatever went wrong before
\* (index.ts:137-155), for any users, keys, tabs and calls.
THEOREM SubscribeHealsHolds == Spec => []SubscribeHeals
<1>1. Plans => SubscribeHeals
  BY DEF Plans, Plan, SubscribePlan, RowIsOf, SubscribeHeals
<1> QED BY <1>1, PlansHold, PTL

\* An unsubscribe() with nothing beside it ends its channel on both sides or keeps the
\* browser's (index.ts:213-217).
THEOREM UnsubscribeEndsHolds == Spec => []UnsubscribeEnds
<1>1. Plans => UnsubscribeEnds
  BY DEF Plans, Plan, UnsubscribePlan, UnsubscribeEnds
<1> QED BY <1>1, PlansHold, PTL
=============================================================================
