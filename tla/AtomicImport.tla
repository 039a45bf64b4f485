----------------------------- MODULE AtomicImport -----------------------------
(***************************************************************************)
(* What the import of the environment promises to those who read the       *)
(* tables: it happens at once, and only into tables that hold nothing of   *)
(* it.  However many instances boot, crash and start again, all the tables *)
(* ever see is this, next to what administrators do.                       *)
(***************************************************************************)
EXTENDS Integers

CONSTANTS Apps,
          EnvRows    \* the rows that APP_KEYS and CORS_ORIGINS ask for

VARIABLE db          \* the committed rows, pairs of a kind and an app

Init == db = {}

Import ==
    /\ EnvRows \cap db = {}
    /\ db' = db \cup EnvRows

CreateApp(a) ==
    /\ <<"app", a>> \notin db
    /\ db' = db \cup {<<"app", a>>}

DeleteApp(a) == db' = {row \in db : row[2] # a}

RevokeKey(a) ==
    /\ <<"key", a>> \in db
    /\ db' = db \cup {<<"revoked", a>>}

Next == Import \/ \E a \in Apps : CreateApp(a) \/ DeleteApp(a) \/ RevokeKey(a)

Spec == Init /\ [][Next]_db
=============================================================================
