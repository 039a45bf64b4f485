------------------------------ MODULE BootProofs ------------------------------
(***************************************************************************)
(* The import is whole and leaves existing apps alone, and a shutdown      *)
(* loses no request, for any number of instances, apps and requests and    *)
(* any number of crashes, shutdowns and changes.                           *)
(***************************************************************************)
EXTENDS Boot, TLAPS

-----------------------------------------------------------------------------
(* The script of the import *)

Script(n) == {Statement(m) : m \in 1 .. n - 1}

\* Every statement of the import inserts a row of the tables.
LEMMA StatementsAreRows ==
    ASSUME NEW n \in Statements
    PROVE  Statement(n) \in Rows
<1>1. Len(EnvApps) \in Nat
  BY EnvAppsAssumption
<1>2. ((n - 1) \div 3) + 1 \in 1 .. Len(EnvApps)
  BY <1>1 DEF Statements
<1>3. EnvApps[((n - 1) \div 3) + 1] \in Apps
  BY <1>2, EnvAppsAssumption
<1>4. Kind(n) \in {"app", "key", "origin"}
  BY DEF Kind
<1> QED BY <1>3, <1>4 DEF Statement, Rows

\* The key of an app is imported right after the app.
LEMMA KeyAfterApp ==
    ASSUME NEW n \in Statements, NEW a, Statement(n) = <<"key", a>>
    PROVE  n - 1 \in Statements /\ Statement(n - 1) = <<"app", a>>
<1>1. n \in Int /\ 1 <= n /\ n <= 3 * Len(EnvApps) /\ Len(EnvApps) \in Nat
  BY EnvAppsAssumption DEF Statements
<1>2. n % 3 = 2
  <2>1. Kind(n) = "key"
    BY DEF Statement
  <2>2. CASE n % 3 = 1
    BY <2>1, <2>2 DEF Kind
  <2>3. CASE n % 3 # 1 /\ n % 3 # 2
    BY <2>1, <2>3 DEF Kind
  <2> QED BY <2>2, <2>3
<1>3. (n - 1) % 3 = 1 /\ n # 1 /\ ((n - 1) \div 3) = ((n - 1 - 1) \div 3)
  BY <1>1, <1>2
<1>4. n - 1 \in Statements
  BY <1>1, <1>3 DEF Statements
<1>5. Kind(n - 1) = "app"
  BY <1>3 DEF Kind
<1> QED BY <1>3, <1>4, <1>5 DEF Statement

-----------------------------------------------------------------------------
(* The inductive invariant *)

\* What a transaction holds is the beginning of the script, and none of it is
\* committed or held by another transaction: that is what waiting for pending rows
\* and failing on committed ones is for.
Inv ==
    /\ TypeOK
    /\ \A i \in Instances : tx[i] = IF pc[i] = "seed" THEN Script(next[i]) ELSE {}
    /\ \A i \in Instances : tx[i] \cap db = {}
    /\ \A i, j \in Instances : i # j => tx[i] \cap tx[j] = {}
    /\ SeedIsWhole
    /\ ShutdownsLoseNoRequest

\* The initial states satisfy the invariant.
LEMMA InitInv == Init => Inv
<1> SUFFICES ASSUME Init PROVE Inv
  OBVIOUS
<1>1. Len(EnvApps) \in Nat
  BY EnvAppsAssumption
<1>2. TypeOK
  <2>1. open \in [Instances -> 0 .. MaxOpen]
    BY BoundsAssumption DEF Init
  <2>2. next \in [Instances -> 1 .. 3 * Len(EnvApps) + 1]
    BY <1>1 DEF Init
  <2>3. lost \in BOOLEAN /\ old \in BOOLEAN
    BY DEF Init
  <2> QED BY <2>1, <2>2, <2>3, BoundsAssumption DEF Init, TypeOK
<1> QED BY <1>2 DEF Init, Inv, SeedIsWhole, ShutdownsLoseNoRequest

\* Exit takes a transaction away, and nothing else.
LEMMA ExitInv ==
    ASSUME Inv, NEW i \in Instances, Exit(i), UNCHANGED <<db, next, changes>>,
           old' \in BOOLEAN, open' \in [Instances -> 0 .. MaxOpen], lost' \in BOOLEAN,
           crashes' \in 0 .. MaxCrashes, stops' \in 0 .. MaxStops,
           lost' => crashes' > 0
    PROVE  Inv'
<1>1. /\ tx' = [tx EXCEPT ![i] = {}] /\ pc' = [pc EXCEPT ![i] = "down"]
  BY DEF Exit
<1>2. TypeOK'
  BY <1>1 DEF Inv, TypeOK
<1>3. \A j \in Instances : tx'[j] = IF pc'[j] = "seed" THEN Script(next'[j]) ELSE {}
  BY <1>1 DEF Inv, TypeOK, Script
<1>4. \A j \in Instances : tx'[j] \cap db' = {}
  BY <1>1 DEF Inv, TypeOK
<1>5. \A j, k \in Instances : j # k => tx'[j] \cap tx'[k] = {}
  BY <1>1 DEF Inv, TypeOK
<1> QED BY <1>2, <1>3, <1>4, <1>5 DEF Inv, SeedIsWhole, ShutdownsLoseNoRequest

\* So does the end of a process, which loses what the process had in progress: after a
\* crash that is allowed, otherwise nothing may be in progress.
LEMMA EndProcessInv ==
    ASSUME Inv, NEW i \in Instances, EndProcess(i), UNCHANGED <<db, next, old, stops, changes>>,
           crashes' \in 0 .. MaxCrashes,
           crashes' > 0 \/ (open[i] = 0 /\ (lost => crashes' > 0))
    PROVE  Inv'
<1>1. Exit(i) /\ open' = [open EXCEPT ![i] = 0] /\ lost' = (lost \/ open[i] > 0)
  BY DEF EndProcess
<1>2. open' \in [Instances -> 0 .. MaxOpen]
  BY <1>1, BoundsAssumption DEF Inv, TypeOK
<1>3. lost' \in BOOLEAN
  BY <1>1
<1>4. lost' => crashes' > 0
  <2>1. CASE crashes' > 0
    BY <2>1
  <2>2. CASE open[i] = 0 /\ (lost => crashes' > 0)
    <3>1. ~(open[i] > 0)
      BY <2>2
    <3>2. lost' => lost
      BY <1>1, <3>1, Zenon
    <3> QED BY <2>2, <3>2
  <2> QED BY <2>1, <2>2
<1> QED BY <1>1, <1>2, <1>3, <1>4, ExitInv DEF Inv, TypeOK

\* A step that touches no row, no transaction and no place between the statements of
\* an import leaves the import as it is.
LEMMA AsideInv ==
    ASSUME Inv, TypeOK', UNCHANGED <<db, tx, next, changes>>,
           \A i \in Instances : pc'[i] = "seed" <=> pc[i] = "seed",
           lost' => crashes' > 0
    PROVE  Inv'
BY DEF Inv, TypeOK, SeedIsWhole, ShutdownsLoseNoRequest, Script

\* One INSERT of an import (seed.ts) keeps it.
LEMMA InsertInv ==
    ASSUME Inv, NEW i \in Instances, Insert(i)
    PROVE  Inv'
<1> DEFINE row == Statement(next[i])
<1>1. /\ pc[i] = "seed" /\ next[i] \in Statements
      /\ \A j \in Instances \ {i} : row \notin tx[j]
      /\ UNCHANGED <<db, old, open, lost, stops, crashes, changes>>
  BY DEF Insert, serving
<1>2. CASE Exit(i) /\ UNCHANGED next
  BY <1>1, <1>2, ExitInv DEF Inv, TypeOK, ShutdownsLoseNoRequest
<1>3. CASE /\ row \notin db /\ UNCHANGED pc
           /\ tx' = [tx EXCEPT ![i] = @ \cup {row}]
           /\ next' = [next EXCEPT ![i] = @ + 1]
  <2>1. row \in Rows
    BY <1>1, StatementsAreRows
  <2> HIDE DEF row
  <2>2. next[i] \in Int /\ 1 <= next[i] /\ next[i] <= 3 * Len(EnvApps) /\ Len(EnvApps) \in Nat
    BY <1>1, EnvAppsAssumption DEF Statements
  <2>3. next' \in [Instances -> 1 .. 3 * Len(EnvApps) + 1] /\ next'[i] = next[i] + 1
    BY <1>3, <2>2 DEF Inv, TypeOK
  <2>4. TypeOK'
    BY <1>1, <1>3, <2>1, <2>3 DEF Inv, TypeOK
  <2>5. tx'[i] = tx[i] \cup {row} /\ \A j \in Instances : j # i => tx'[j] = tx[j] /\ next'[j] = next[j]
    BY <1>3 DEF Inv, TypeOK
  <2>6. tx'[i] = Script(next'[i])
    <3>1. tx[i] = Script(next[i])
      BY <1>1 DEF Inv
    <3>2. 1 .. next'[i] - 1 = (1 .. next[i] - 1) \cup {next[i]}
      BY <2>2, <2>3
    <3> QED BY <2>5, <3>1, <3>2 DEF Script, row
  <2>7. \A j \in Instances : tx'[j] = IF pc'[j] = "seed" THEN Script(next'[j]) ELSE {}
    <3> SUFFICES ASSUME NEW j \in Instances
                 PROVE  tx'[j] = IF pc'[j] = "seed" THEN Script(next'[j]) ELSE {}
      OBVIOUS
    <3>1. CASE j = i
      BY <3>1, <1>1, <1>3, <2>6
    <3>2. CASE j # i
      <4>1. Script(next'[j]) = Script(next[j])
        BY <3>2, <2>5
      <4> QED BY <3>2, <4>1, <1>3, <2>5 DEF Inv
    <3> QED BY <3>1, <3>2
  <2>8. \A j \in Instances : tx'[j] \cap db' = {}
    BY <1>1, <1>3, <2>5 DEF Inv
  <2>9. \A j, k \in Instances : j # k => tx'[j] \cap tx'[k] = {}
    BY <1>1, <2>5 DEF Inv
  <2> QED BY <1>1, <2>4, <2>7, <2>8, <2>9 DEF Inv, SeedIsWhole, ShutdownsLoseNoRequest
<1> QED BY <1>2, <1>3 DEF Insert

\* So does the COMMIT.
LEMMA CommitInv ==
    ASSUME Inv, NEW i \in Instances, Commit(i)
    PROVE  Inv'
<1>1. /\ pc[i] = "seed" /\ next[i] \notin Statements
      /\ db' = db \cup tx[i]
      /\ tx' = [tx EXCEPT ![i] = {}]
      /\ pc' = [pc EXCEPT ![i] = "prune"] \/ pc' = [pc EXCEPT ![i] = "up"]
      /\ UNCHANGED <<next, old, open, lost, stops, crashes, changes>>
  BY DEF Commit, Seeded, serving
<1>2. TypeOK'
  BY <1>1 DEF Inv, TypeOK
<1>3. \A j \in Instances : tx'[j] = IF pc'[j] = "seed" THEN Script(next'[j]) ELSE {}
  BY <1>1 DEF Inv, TypeOK, Script
<1>4. \A j \in Instances : tx'[j] \cap db' = {}
  BY <1>1 DEF Inv, TypeOK
<1>5. \A j, k \in Instances : j # k => tx'[j] \cap tx'[k] = {}
  BY <1>1 DEF Inv, TypeOK
<1>6. SeedIsWhole'
  <2>1. Len(EnvApps) \in Nat
    BY EnvAppsAssumption
  <2>2. next[i] - 1 = 3 * Len(EnvApps)
    BY <1>1, <2>1 DEF Inv, TypeOK, Statements
  <2>3. tx[i] = EnvRows
    BY <1>1, <2>2 DEF Inv, Script, EnvRows, Statements
  <2> QED BY <1>1, <2>3 DEF Inv, SeedIsWhole
<1> QED BY <1>1, <1>2, <1>3, <1>4, <1>5, <1>6 DEF Inv, ShutdownsLoseNoRequest

\* An administrator's change keeps clear of the rows that imports have pending.
LEMMA ChangeInv ==
    ASSUME Inv, NEW rows, Change(rows), rows \subseteq Rows,
           \A i \in Instances : tx[i] \cap rows = {}
    PROVE  Inv'
<1>1. /\ db' = rows /\ changes' = changes + 1 /\ changes < MaxChanges
      /\ UNCHANGED <<tx, pc, next, old, open, lost, stops, crashes>>
  BY DEF Change, boot, serving
<1>2. TypeOK' /\ changes' # 0
  BY <1>1, BoundsAssumption DEF Inv, TypeOK
<1> QED BY <1>1, <1>2 DEF Inv, SeedIsWhole, ShutdownsLoseNoRequest, Script

\* A transaction holds none but the script's rows: no mark that a key was revoked.
LEMMA NothingRevokedPending ==
    ASSUME Inv, NEW i \in Instances, NEW a
    PROVE  <<"revoked", a>> \notin tx[i]
<1>1. \A n \in Statements : Kind(n) # "revoked"
  BY DEF Kind
<1>2. tx[i] \subseteq {Statement(n) : n \in Statements}
  BY EnvAppsAssumption DEF Inv, TypeOK, Script, Statements
<1> QED BY <1>1, <1>2 DEF Statement

\* Every step keeps the invariant.
LEMMA NextInv == Inv /\ [Next]_vars => Inv'
<1> SUFFICES ASSUME Inv, [Next]_vars PROVE Inv'
  OBVIOUS
<1>1. ASSUME NEW i \in Instances, Start(i) \/ ListApps(i) PROVE Inv'
  <2>1. /\ UNCHANGED <<db, tx, old, open, lost, stops, crashes, changes>>
        /\ \/ pc[i] = "down" /\ pc' = [pc EXCEPT ![i] = "list"] /\ UNCHANGED next
           \/ /\ pc[i] = "list" /\ next' = [next EXCEPT ![i] = 1]
              /\ \/ pc' = [pc EXCEPT ![i] = "prune"]
                 \/ pc' = [pc EXCEPT ![i] = "up"]
                 \/ pc' = [pc EXCEPT ![i] = "seed"]
    BY <1>1 DEF Start, ListApps, Seeded, serving
  <2>2. TypeOK'
    <3>1. pc' \in [Instances -> {"down", "list", "seed", "prune", "up", "draining"}]
      BY <2>1 DEF Inv, TypeOK
    <3>2. next' \in [Instances -> 1 .. 3 * Len(EnvApps) + 1]
      <4>1. Len(EnvApps) \in Nat
        BY EnvAppsAssumption
      <4>2. 1 \in 1 .. 3 * Len(EnvApps) + 1
        BY <4>1
      <4>3. next \in [Instances -> 1 .. 3 * Len(EnvApps) + 1]
        BY DEF Inv, TypeOK
      <4>4. next' = next \/ next' = [next EXCEPT ![i] = 1]
        BY <2>1
      <4> QED BY <4>2, <4>3, <4>4
    <3> QED BY <2>1, <3>1, <3>2 DEF Inv, TypeOK
  <2>3. \A j \in Instances : tx'[j] = IF pc'[j] = "seed" THEN Script(next'[j]) ELSE {}
    <3> SUFFICES ASSUME NEW j \in Instances
                 PROVE  tx'[j] = IF pc'[j] = "seed" THEN Script(next'[j]) ELSE {}
      OBVIOUS
    <3>1. CASE j # i
      <4>1. pc'[j] = pc[j] /\ next'[j] = next[j] /\ tx'[j] = tx[j]
        BY <3>1, <2>1 DEF Inv, TypeOK
      <4> QED BY <4>1 DEF Inv, Script
    <3>2. CASE j = i
      <4>1. Script(1) = {}
        BY DEF Script
      <4>2. tx'[i] = {}
        BY <2>1 DEF Inv
      <4>3. pc'[i] = "seed" => next'[i] = 1
        BY <2>1 DEF Inv, TypeOK
      <4> QED BY <3>2, <4>1, <4>2, <4>3
    <3> QED BY <3>1, <3>2
  <2> QED BY <2>1, <2>2, <2>3 DEF Inv, SeedIsWhole, ShutdownsLoseNoRequest
<1>2. ASSUME NEW i \in Instances, SeedFails(i) PROVE Inv'
  <2>1. /\ Exit(i) /\ UNCHANGED <<db, next, old, open, lost, stops, changes>>
        /\ crashes' \in 0 .. MaxCrashes /\ crashes' > 0
    BY <1>2, BoundsAssumption DEF SeedFails, Inv, TypeOK, serving
  <2> QED BY <2>1, ExitInv DEF Inv, TypeOK
<1>12. ASSUME NEW i \in Instances, Crash(i) PROVE Inv'
  <2>1. /\ EndProcess(i) /\ UNCHANGED <<db, next, old, stops, changes>>
        /\ crashes' \in 0 .. MaxCrashes /\ crashes' > 0
    BY <1>12, BoundsAssumption DEF Crash, Inv, TypeOK
  <2> QED BY <2>1, EndProcessInv DEF Inv, TypeOK
<1>3. ASSUME NEW a \in Apps, CreateApp(a) PROVE Inv'
  <2>1. db \cup {<<"app", a>>} \subseteq Rows
    BY DEF Inv, TypeOK, Rows
  <2> QED BY <1>3, <2>1, ChangeInv DEF CreateApp, Inv
<1>4. ASSUME NEW a \in Apps, DeleteApp(a) PROVE Inv'
  BY <1>4, ChangeInv DEF DeleteApp, Inv, TypeOK
<1>5. ASSUME NEW a \in Apps, RevokeKey(a) PROVE Inv'
  <2>1. db \cup {<<"revoked", a>>} \subseteq Rows
    BY DEF Inv, TypeOK, Rows
  <2>2. \A i \in Instances : tx[i] \cap (db \cup {<<"revoked", a>>}) = {}
    BY NothingRevokedPending DEF Inv
  <2> QED BY <1>5, <2>1, <2>2, ChangeInv DEF RevokeKey
<1>6. ASSUME NEW i \in Instances, Prune(i) PROVE Inv'
  <2>1. /\ UNCHANGED <<db, tx, next, open, lost, stops, changes>>
        /\ pc[i] = "prune" /\ pc' = [pc EXCEPT ![i] = "up"]
        /\ old' \in BOOLEAN /\ crashes' \in {crashes, crashes + 1} /\ crashes' <= MaxCrashes
    <3>1. UNCHANGED <<db, tx, next, open, lost, stops, changes>>
      BY <1>6 DEF Prune, serving
    <3>2. pc[i] = "prune" /\ pc' = [pc EXCEPT ![i] = "up"]
      BY <1>6 DEF Prune
    <3>3. CASE old' = FALSE /\ UNCHANGED crashes
      <4>1. crashes' <= MaxCrashes
        BY <3>3, BoundsAssumption DEF Inv, TypeOK
      <4> QED BY <3>1, <3>2, <3>3, <4>1
    <3>4. CASE crashes < MaxCrashes /\ crashes' = crashes + 1 /\ UNCHANGED old
      <4>1. crashes' <= MaxCrashes
        BY <3>4, BoundsAssumption DEF Inv, TypeOK
      <4>2. old' \in BOOLEAN
        BY <3>4 DEF Inv, TypeOK
      <4> QED BY <3>1, <3>2, <3>4, <4>1, <4>2
    <3> QED BY <1>6, <3>3, <3>4 DEF Prune
  <2>2. TypeOK'
    BY <2>1, BoundsAssumption DEF Inv, TypeOK
  <2> QED BY <2>1, <2>2, AsideInv DEF Inv, TypeOK, ShutdownsLoseNoRequest
<1>7. ASSUME NEW i \in Instances, Accept(i) \/ Answer(i) PROVE Inv'
  <2>1. /\ UNCHANGED <<db, tx, pc, next, old, lost, stops, crashes, changes>>
        /\ open' \in [Instances -> 0 .. MaxOpen]
    <3>1. UNCHANGED <<db, tx, pc, next, old, lost, stops, crashes, changes>>
      BY <1>7 DEF Accept, Answer, boot
    <3>2. open \in [Instances -> 0 .. MaxOpen]
      BY DEF Inv, TypeOK
    <3>3. open' \in [Instances -> 0 .. MaxOpen]
      <4>1. CASE Accept(i)
        BY <3>2, <4>1, BoundsAssumption DEF Accept
      <4>2. CASE Answer(i)
        BY <3>2, <4>2, BoundsAssumption DEF Answer
      <4> QED BY <1>7, <4>1, <4>2
    <3> QED BY <3>1, <3>3
  <2>2. TypeOK'
    BY <2>1 DEF Inv, TypeOK
  <2> QED BY <2>1, <2>2, AsideInv DEF Inv, ShutdownsLoseNoRequest
<1>8. ASSUME NEW i \in Instances, Shutdown(i) PROVE Inv'
  <2>1. /\ UNCHANGED <<db, tx, next, old, open, lost, crashes, changes>>
        /\ pc[i] = "up" /\ pc' = [pc EXCEPT ![i] = "draining"] /\ stops' \in 0 .. MaxStops
    BY <1>8, BoundsAssumption DEF Shutdown, Inv, TypeOK
  <2>2. TypeOK'
    BY <2>1 DEF Inv, TypeOK
  <2> QED BY <2>1, <2>2, AsideInv DEF Inv, TypeOK, ShutdownsLoseNoRequest
<1>9. ASSUME NEW i \in Instances, Close(i) PROVE Inv'
  <2>1. EndProcess(i) /\ open[i] = 0 /\ UNCHANGED <<db, next, old, stops, crashes, changes>>
    BY <1>9 DEF Close
  <2>2. lost => crashes > 0
    BY DEF Inv, ShutdownsLoseNoRequest
  <2> QED BY <2>1, <2>2, EndProcessInv DEF Inv, TypeOK
<1>10. ASSUME (\E i \in Instances : PruneHourly(i)) \/ LogsAge PROVE Inv'
  <2>1. /\ UNCHANGED <<db, tx, pc, next, open, lost, stops, crashes, changes>>
        /\ old' \in BOOLEAN
    BY <1>10 DEF PruneHourly, LogsAge, boot, serving
  <2>2. TypeOK'
    BY <2>1 DEF Inv, TypeOK
  <2> QED BY <2>1, <2>2, AsideInv DEF Inv, ShutdownsLoseNoRequest
<1>11. CASE UNCHANGED vars
  BY <1>11 DEF vars, boot, serving, Inv, TypeOK, SeedIsWhole, ShutdownsLoseNoRequest, Script
<1> QED BY <1>1, <1>2, <1>3, <1>4, <1>5, <1>6, <1>7, <1>8, <1>9, <1>10, <1>11, <1>12,
           InsertInv, CommitInv DEF Next, Boot, Serve

\* Inv is an invariant of booting.
THEOREM Invariance == Spec => []Inv
BY InitInv, NextInv, PTL DEF Spec

\* Type correctness of booting.
THEOREM TypeCorrect == Spec => []TypeOK
<1>1. Inv => TypeOK
  BY DEF Inv
<1> QED BY <1>1, Invariance, PTL

\* Whatever crashes, fails or overlaps, the import is all or nothing (seed.ts:19-33).
THEOREM SeedIsWholeHolds == Spec => []SeedIsWhole
<1>1. Inv => SeedIsWhole
  BY DEF Inv
<1> QED BY <1>1, Invariance, PTL

\* A process that closes has answered everything it accepted: only where something
\* crashed or failed may a request be lost (index.ts:60-68).
THEOREM ShutdownsLoseNoRequestHolds == Spec => []ShutdownsLoseNoRequest
<1>1. Inv => ShutdownsLoseNoRequest
  BY DEF Inv
<1> QED BY <1>1, Invariance, PTL

\* The import gives no key to an app that exists (seed.ts:19-33).
THEOREM ImportLeavesAppsAloneHolds == Spec => ImportLeavesAppsAlone
<1>1. Inv /\ [Next]_vars =>
        [\A a \in Apps : <<"app", a>> \in db /\ <<"app", a>> \in db' /\ <<"key", a>> \in db' =>
                            <<"key", a>> \in db]_vars
  <2> SUFFICES ASSUME Inv, [Next]_vars, NEW a \in Apps,
                      <<"app", a>> \in db, <<"key", a>> \in db', <<"key", a>> \notin db
               PROVE  FALSE
    OBVIOUS
  <2>1. \A b \in Apps : ~CreateApp(b) /\ ~DeleteApp(b) /\ ~RevokeKey(b)
    BY DEF CreateApp, DeleteApp, RevokeKey, Change
  <2>2. db' # db
    OBVIOUS
  <2>3. \A i \in Instances : ~(Start(i) \/ ListApps(i) \/ Insert(i) \/ Prune(i)
                                 \/ SeedFails(i) \/ Crash(i))
    BY <2>2 DEF Start, ListApps, Insert, Prune, SeedFails, Crash
  <2>4. ~LogsAge /\ \A i \in Instances : ~Serve(i)
    BY <2>2 DEF LogsAge, Serve, Accept, Answer, Shutdown, Close, PruneHourly
  <2>5. PICK i \in Instances : Commit(i)
    BY <2>1, <2>2, <2>3, <2>4 DEF Next, Boot, vars
  <2>6. <<"key", a>> \in Script(next[i]) /\ tx[i] = Script(next[i])
    BY <2>5 DEF Commit, Inv
  <2>7. PICK n \in 1 .. next[i] - 1 : Statement(n) = <<"key", a>>
    BY <2>6 DEF Script
  <2>8. n \in Statements
    BY EnvAppsAssumption DEF Statements, Inv, TypeOK
  <2>9. n - 1 \in 1 .. next[i] - 1 /\ Statement(n - 1) = <<"app", a>>
    <3>1. n - 1 \in Statements /\ Statement(n - 1) = <<"app", a>>
      BY <2>7, <2>8, KeyAfterApp
    <3>2. next[i] \in Int
      BY EnvAppsAssumption DEF Inv, TypeOK
    <3> QED BY <3>1, <3>2 DEF Statements
  <2>10. <<"app", a>> \in tx[i]
    BY <2>6, <2>9 DEF Script
  <2> QED BY <2>10 DEF Inv
<1> QED BY <1>1, Invariance, PTL DEF Spec, ImportLeavesAppsAlone

-----------------------------------------------------------------------------
(* What an import that goes through brings *)

\* Not a row of it was there before.
LEMMA CommitBringsAll ==
    ASSUME Inv, NEW i \in Instances, Commit(i)
    PROVE  db' = db \cup EnvRows /\ EnvRows \cap db = {}
<1>1. pc[i] = "seed" /\ next[i] \notin Statements /\ db' = db \cup tx[i]
  BY DEF Commit
<1>2. Len(EnvApps) \in Nat
  BY EnvAppsAssumption
<1>3. next[i] - 1 = 3 * Len(EnvApps)
  BY <1>1, <1>2 DEF Inv, TypeOK, Statements
<1>4. tx[i] = EnvRows
  BY <1>1, <1>3 DEF Inv, Script, EnvRows, Statements
<1> QED BY <1>1, <1>4 DEF Inv

\* An environment that names an app makes the import begin with one.
LEMMA ImportBringsAnApp ==
    ASSUME EnvApps # <<>>
    PROVE  AppsIn(EnvRows) # {}
<1>1. Len(EnvApps) \in Nat /\ Len(EnvApps) # 0
  BY EnvAppsAssumption
<1>2. 1 \in Statements
  BY <1>1 DEF Statements
<1>3. Statement(1) \in EnvRows
  BY <1>2 DEF EnvRows
<1>4. Kind(1) = "app"
  BY DEF Kind
<1>5. Statement(1)[1] = "app"
  BY <1>4 DEF Statement
<1> QED BY <1>3, <1>5 DEF AppsIn

\* No instance goes on from its import to a database without an app
\* (index.ts:12-16, seed.ts:13-33).
THEOREM ServesASeededDatabaseHolds == Spec => ServesASeededDatabase
<1>1. Inv /\ [Next]_vars =>
        [\A i \in Instances : (pc[i] \in {"list", "seed"} /\ pc'[i] \in {"prune", "up"}) =>
                                   AppsIn(db') # {} \/ EnvApps = <<>>]_vars
  <2> SUFFICES ASSUME Inv, [Next]_vars, NEW i \in Instances,
                      pc[i] \in {"list", "seed"}, pc'[i] \in {"prune", "up"},
                      EnvApps # <<>>
               PROVE  AppsIn(db') # {}
    OBVIOUS
  <2>1. pc'[i] # pc[i]
    OBVIOUS
  <2>2. pc \in [Instances -> {"down", "list", "seed", "prune", "up", "draining"}]
    BY DEF Inv, TypeOK
  <2>3. \A a \in Apps : ~CreateApp(a) /\ ~DeleteApp(a) /\ ~RevokeKey(a)
    BY <2>1 DEF CreateApp, DeleteApp, RevokeKey, Change, boot
  <2>4. \A j \in Instances : ~Start(j) /\ ~Insert(j) /\ ~Prune(j) /\ ~SeedFails(j) /\ ~Crash(j)
    BY <2>1, <2>2 DEF Start, Insert, Prune, SeedFails, Crash, EndProcess, Exit
  <2>5. ~LogsAge /\ \A j \in Instances : ~Serve(j)
    BY <2>1, <2>2 DEF LogsAge, Serve, Accept, Answer, Shutdown, Close, EndProcess, PruneHourly, boot, Exit
  <2>6. PICK j \in Instances : ListApps(j) \/ Commit(j)
    BY <2>1, <2>3, <2>4, <2>5 DEF Next, Boot, vars, boot
  <2>7. CASE ListApps(j)
    <3>1. pc' = [pc EXCEPT ![j] = IF AppsIn(db) # {} THEN Seeded ELSE "seed"] /\ db' = db
      BY <2>7 DEF ListApps
    <3>2. j = i
      BY <2>1, <2>2, <3>1
    <3> QED BY <2>2, <3>1, <3>2
  <2>8. CASE Commit(j)
    BY <2>8, CommitBringsAll, ImportBringsAnApp DEF AppsIn
  <2> QED BY <2>6, <2>7, <2>8
<1> QED BY <1>1, Invariance, PTL DEF Spec, ServesASeededDatabase

\* At most one transaction has anything pending, so one that waits for another's
\* rows waits for a transaction that itself waits for nobody.
OneImportAtATime == \A i, j \in Instances : tx[i] # {} /\ tx[j] # {} => i = j

\* However many instances boot at once, their imports cannot come to wait for each
\* other in a circle: all begin with the same row (seed.ts:20-21, index.ts:12-13).
THEOREM OneImportAtATimeHolds == Spec => []OneImportAtATime
<1>1. Inv => OneImportAtATime
  <2> SUFFICES ASSUME Inv, NEW i \in Instances, NEW j \in Instances,
                      tx[i] # {}, tx[j] # {}, i # j
               PROVE  FALSE
    BY DEF OneImportAtATime
  <2>1. ASSUME NEW k \in Instances, tx[k] # {}
        PROVE  Statement(1) \in tx[k]
    <3>1. tx[k] = Script(next[k])
      BY <2>1 DEF Inv
    <3>2. PICK m : m \in 1 .. next[k] - 1
      BY <2>1, <3>1 DEF Script
    <3>3. next[k] \in Int
      BY EnvAppsAssumption DEF Inv, TypeOK
    <3>4. 1 \in 1 .. next[k] - 1
      BY <3>2, <3>3
    <3> QED BY <3>1, <3>4 DEF Script
  <2> QED BY <2>1 DEF Inv
<1> QED BY <1>1, Invariance, PTL

-----------------------------------------------------------------------------
(* Refinement of the import that happens at once *)

\* The instances' imports, crashes and restarts, seen from the tables, are the one
\* step of AtomicImport (seed.ts:13-33, repository.ts:129-149).
THEOREM AtomicImportRefined == Spec => ImplementsAtomicImport
<1>1. Init => Atomic!Init
  BY DEF Init, Atomic!Init
<1>2. Inv /\ [Next]_vars => [Atomic!Next]_db
  <2> SUFFICES ASSUME Inv, [Next]_vars, db' # db PROVE Atomic!Next
    OBVIOUS
  <2>1. \A i \in Instances : ~(Start(i) \/ ListApps(i) \/ Insert(i) \/ Prune(i)
                                 \/ SeedFails(i) \/ Crash(i))
    BY DEF Start, ListApps, Insert, Prune, SeedFails, Crash
  <2>2. ~LogsAge /\ \A i \in Instances : ~Serve(i)
    BY DEF LogsAge, Serve, Accept, Answer, Shutdown, Close, PruneHourly
  <2>3. CASE \E i \in Instances : Commit(i)
    BY <2>3, CommitBringsAll DEF Atomic!Next, Atomic!Import
  <2>4. ASSUME NEW a \in Apps, CreateApp(a) PROVE Atomic!CreateApp(a)
    BY <2>4 DEF CreateApp, Change, Atomic!CreateApp
  <2>5. ASSUME NEW a \in Apps, DeleteApp(a) PROVE Atomic!DeleteApp(a)
    BY <2>5 DEF DeleteApp, Change, RowsOf, Inv, TypeOK, Rows, Atomic!DeleteApp
  <2>6. ASSUME NEW a \in Apps, RevokeKey(a) PROVE Atomic!RevokeKey(a)
    BY <2>6 DEF RevokeKey, Change, Atomic!RevokeKey
  <2> QED BY <2>1, <2>2, <2>3, <2>4, <2>5, <2>6 DEF Next, Boot, vars, Atomic!Next
<1> QED BY <1>1, <1>2, Invariance, PTL DEF Spec, ImplementsAtomicImport, Atomic!Spec
=============================================================================
