---------------------------- MODULE DeliveryProofs ----------------------------
(***************************************************************************)
(* Safety of delivery for any sets of endpoints, users and sends, any      *)
(* limit, any threshold, and with or without failing database calls.       *)
(***************************************************************************)
EXTENDS Delivery, FiniteSetTheorems, TLAPS

-----------------------------------------------------------------------------
(* The inductive invariant *)

\* An id is given to one row only: what is in the table, and what a send read,
\* was inserted before the next id.
IdsAreSpent ==
    /\ \A e \in Endpoints : row[e] # NoRow => row[e].id <= lastId
    /\ \A s \in Sends, t \in Slots : ident[s][t] <= lastId

\* Jobs exist only once every lookup has answered; a map with a job that threw is
\* rejected, and a resolved one has no job left to run.
PhaseMatchesJobs ==
    \A s \in Sends, t \in Slots :
        /\ phase[s] \in {"new", "lookup"} => job[s][t] = "none"
        /\ phase[s] = "sending" => job[s][t] # "threw"
        /\ phase[s] = "resolved" => job[s][t] \in {"none", "sent", "failed", "expired"}

\* What the stage of a job says of the channel, the row, the log and the answer.
StageTells(s, t) ==
    /\ job[s][t] \in {"none", "todo", "push"} => log[s][t] = <<>>
    /\ job[s][t] = "prune" => ~alive[t[2]]
    /\ job[s][t] \in {"logExpired", "expired"} => ~StillThere(s, t)
    /\ job[s][t] \in {"sent", "failed", "expired"} =>
           log[s][t] # <<>> /\ log[s][t][Len(log[s][t])] = job[s][t]
    /\ job[s][t] \in {"markSuccess", "logSent"} => answer[s][t] = "accepted"
    /\ job[s][t] \in {"prune", "logExpired"} => answer[s][t] = "gone"
    /\ \A n \in DOMAIN log[s][t] :
           /\ log[s][t][n] = "sent" => answer[s][t] = "accepted"
           /\ log[s][t][n] = "expired" => answer[s][t] = "gone"

Inv ==
    /\ TypeOK
    /\ ThresholdDisables
    /\ IdsAreSpent
    /\ PhaseMatchesJobs
    /\ \A s \in Sends, t \in Slots : StageTells(s, t)

-----------------------------------------------------------------------------
\* The initial states satisfy the invariant.
LEMMA InitInv == Init => Inv
<1> SUFFICES ASSUME Init PROVE Inv
  OBVIOUS
<1>1. TypeOK
  BY MaxIdAssumption DEF Init, TypeOK, Stages, Ended
<1>2. ThresholdDisables /\ IdsAreSpent /\ PhaseMatchesJobs
  BY DEF Init, ThresholdDisables, IdsAreSpent, PhaseMatchesJobs
<1>3. ASSUME NEW s \in Sends, NEW t \in Slots PROVE StageTells(s, t)
  BY DEF Init, StageTells
<1> QED BY <1>1, <1>2, <1>3 DEF Inv

\* What every step that moves the job of a slot keeps: its stage changes, rows may
\* be changed or removed but get no new id, and only its own entries are written.
LEMMA JobMoves ==
    ASSUME Inv,
           NEW s \in Sends, NEW t \in Slots, NEW stage \in Stages \ {"none", "todo"},
           job[s][t] \notin {"none"} \cup Ended,
           Goto(s, t, stage),
           row' \in [Endpoints -> Rows \cup {NoRow}],
           \A e \in Endpoints : row'[e] # NoRow => row[e] # NoRow /\ row'[e].id = row[e].id,
           ThresholdDisables',
           answer' \in [Sends -> [Slots -> {"none", "accepted", "gone", "refused"}]],
           log' \in [Sends -> [Slots -> Seq({"sent", "failed", "expired"})]],
           \A r \in Sends, u \in Slots :
               <<r, u>> # <<s, t>> => answer'[r][u] = answer[r][u] /\ log'[r][u] = log[r][u],
           StageTells(s, t)'
    PROVE  Inv'
<1> USE DEF Inv
<1>1. /\ job' = [job EXCEPT ![s][t] = stage]
      /\ UNCHANGED <<lastId, alive, query, open, ident>>
  BY DEF Goto
<1>2. job' \in [Sends -> [Slots -> Stages]] /\ job'[s][t] = stage
  BY <1>1 DEF TypeOK
<1>3. ASSUME NEW r \in Sends, NEW u \in Slots, <<r, u>> # <<s, t>>
      PROVE  job'[r][u] = job[r][u]
  BY <1>1, <1>3 DEF TypeOK
<1>4. phase' \in [Sends -> {"new", "lookup", "nobody", "sending", "resolved", "rejected"}]
  BY DEF Goto, TypeOK
<1>5. TypeOK'
  BY <1>1, <1>2, <1>4 DEF TypeOK
<1>6. IdsAreSpent'
  BY <1>1 DEF IdsAreSpent, TypeOK
<1>7. PhaseMatchesJobs'
  <2>1. phase[s] \notin {"new", "lookup", "resolved"}
    BY DEF PhaseMatchesJobs, Ended
  <2>2. ASSUME NEW r \in Sends, r # s PROVE phase'[r] = phase[r]
    BY <2>2 DEF Goto, TypeOK
  <2>3. \/ phase[s] # "sending" /\ phase'[s] = phase[s]
        \/ phase[s] = "sending" /\ stage = "threw" /\ phase'[s] = "rejected"
        \/ /\ phase[s] = "sending" /\ stage # "threw" /\ phase'[s] = "resolved"
           /\ \A x \in Slots : job'[s][x] \in {"none"} \cup Ended
        \/ phase[s] = "sending" /\ stage # "threw" /\ phase'[s] = "sending"
    BY DEF Goto, TypeOK
  <2>4. ASSUME NEW r \in Sends, NEW u \in Slots
        PROVE  /\ phase'[r] \in {"new", "lookup"} => job'[r][u] = "none"
               /\ phase'[r] = "sending" => job'[r][u] # "threw"
               /\ phase'[r] = "resolved" => job'[r][u] \in {"none", "sent", "failed", "expired"}
    <3>1. CASE r # s
      <4>1. <<r, u>> # <<s, t>>
        BY <3>1
      <4>2. job'[r][u] = job[r][u] /\ phase'[r] = phase[r]
        BY <4>1, <3>1, <2>2, <1>3
      <4> QED BY <4>2 DEF PhaseMatchesJobs
    <3>2. CASE r = s
      <4>1. CASE u = t
        BY <3>2, <4>1, <2>1, <2>3, <1>2 DEF Ended
      <4>2. CASE u # t
        <5>1. <<r, u>> # <<s, t>>
          BY <4>2
        <5>2. job'[r][u] = job[r][u]
          BY <5>1, <1>3
        <5>3. /\ phase[s] = "sending" => job[s][u] # "threw"
              /\ phase[s] = "resolved" => job[s][u] \in {"none", "sent", "failed", "expired"}
          BY DEF PhaseMatchesJobs
        <5> QED BY <3>2, <5>2, <5>3, <2>1, <2>3 DEF Ended
      <4> QED BY <4>1, <4>2
    <3> QED BY <3>1, <3>2
  <2> QED BY <2>4 DEF PhaseMatchesJobs
<1>8. ASSUME NEW r \in Sends, NEW u \in Slots PROVE StageTells(r, u)'
  <2>1. CASE <<r, u>> = <<s, t>>
    <3>1. r = s /\ u = t
      BY <2>1
    <3>2. StageTells(s, t)'
      OBVIOUS
    <3> QED BY <3>1, <3>2, Zenon
  <2>2. CASE <<r, u>> # <<s, t>>
    <3>1. u[2] \in Endpoints
      BY DEF Slots
    <3>2. StillThere(r, u)' => StillThere(r, u)
      BY <3>1, <1>1 DEF StillThere
    <3>3. /\ job'[r][u] = job[r][u] /\ alive' = alive
          /\ answer'[r][u] = answer[r][u] /\ log'[r][u] = log[r][u]
      BY <2>2, <1>1, <1>3
    <3>4. StageTells(r, u)
      OBVIOUS
    <3> HIDE DEF Inv
    <3> QED BY <3>2, <3>3, <3>4 DEF StageTells
  <2> QED BY <2>1, <2>2
<1> QED BY <1>5, <1>6, <1>7, <1>8

\* A value for the row of a target that brings no new id and no row that is still
\* active at the threshold.
KeepsRow(t, new) ==
    new # NoRow => /\ row[t[2]] # NoRow
                   /\ new.id = row[t[2]].id
                   /\ new.failures >= MaxFailures => new.disabled

\* The two marks change nothing but the counters of a row that is there, and a
\* count at the threshold comes with the row disabled.
LEMMA Marks ==
    ASSUME Inv, NEW s \in Sends, NEW t \in Slots,
           NEW new, new \in {Succeeded(s, t), Failed(s, t)}
    PROVE  /\ new \in Rows \cup {NoRow}
           /\ KeepsRow(t, new)
           /\ new # row[t[2]] => StillThere(s, t) /\ new \in Rows
<1> DEFINE old == row[t[2]]
<1>1. t[2] \in Endpoints
  BY DEF Slots
<1>2. old \in Rows \cup {NoRow} /\ (old # NoRow => (old.failures >= MaxFailures => old.disabled))
  BY <1>1 DEF Inv, TypeOK, ThresholdDisables
<1>3. CASE ~StillThere(s, t)
  BY <1>2, <1>3 DEF Succeeded, Failed, KeepsRow
<1>4. CASE StillThere(s, t)
  <2>1. old \in Rows /\ row[t[2]] # NoRow
    BY <1>2, <1>4 DEF StillThere
  <2>2. CASE new = Succeeded(s, t)
    <3>1. new = [old EXCEPT !.failures = 0]
      BY <2>2, <1>4 DEF Succeeded
    <3>2. new \in Rows /\ new.id = old.id /\ new.failures = 0
      BY <3>1, <2>1 DEF Rows
    <3> QED BY <3>2, <2>1, <1>4, MaxFailuresAssumption DEF KeepsRow
  <2>3. CASE new = Failed(s, t)
    <3>1. new = [old EXCEPT !.failures = @ + 1,
                            !.disabled = @ \/ old.failures + 1 >= MaxFailures]
      BY <2>3, <1>4 DEF Failed
    <3>2. old.disabled \in BOOLEAN /\ old.failures \in Nat
      BY <2>1 DEF Rows
    <3>3. new = [id |-> old.id, user |-> old.user, failures |-> old.failures + 1,
                 disabled |-> (old.disabled \/ old.failures + 1 >= MaxFailures)]
      BY <3>1, <2>1 DEF Rows
    <3>4. (old.disabled \/ old.failures + 1 >= MaxFailures) \in BOOLEAN
      OBVIOUS
    <3>5. new \in Rows /\ new.id = old.id
      BY <3>3, <3>4, <2>1, <3>2 DEF Rows
    <3>6. new.failures >= MaxFailures => new.disabled
      BY <3>3
    <3> QED BY <3>5, <3>6, <2>1, <1>4 DEF KeepsRow
  <2> QED BY <2>2, <2>3
<1> QED BY <1>3, <1>4

\* A booking on the row keeps the invariant if the stage it leads to tells the truth.
LEMMA BooksRow ==
    ASSUME Inv, NEW s \in Sends, NEW t \in Slots, NEW here, NEW new,
           NEW next \in Stages \ {"none", "todo"}, NEW onFault \in Stages \ {"none", "todo"},
           BookOnRow(s, t, here, new, next, onFault),
           here \notin {"none"} \cup Ended,
           new \in Rows \cup {NoRow},
           KeepsRow(t, new),
           StageTells(s, t)'
    PROVE  Inv'
<1>1. t[2] \in Endpoints
  BY DEF Slots
<1>2. row' \in {row, [row EXCEPT ![t[2]] = new]} /\ UNCHANGED <<answer, log>>
  BY DEF BookOnRow
<1>3. PICK stage \in {next, onFault} : Goto(s, t, stage)
  BY DEF BookOnRow
<1>4. row' \in [Endpoints -> Rows \cup {NoRow}]
  BY <1>2 DEF Inv, TypeOK
<1>5. ASSUME NEW e \in Endpoints, row'[e] # NoRow
      PROVE  /\ row[e] # NoRow /\ row'[e].id = row[e].id
             /\ row'[e].failures >= MaxFailures => row'[e].disabled
  <2>1. row'[e] = row[e] \/ (e = t[2] /\ row'[e] = new)
    BY <1>2 DEF Inv, TypeOK
  <2> QED BY <2>1, <1>5 DEF Inv, ThresholdDisables, KeepsRow
<1>6. ThresholdDisables'
  BY <1>5 DEF ThresholdDisables
<1>7. job[s][t] \notin {"none"} \cup Ended
  BY DEF BookOnRow
<1>8. /\ answer' \in [Sends -> [Slots -> {"none", "accepted", "gone", "refused"}]]
      /\ log' \in [Sends -> [Slots -> Seq({"sent", "failed", "expired"})]]
  BY <1>2 DEF Inv, TypeOK
<1> QED BY <1>2, <1>3, <1>4, <1>5, <1>6, <1>7, <1>8, JobMoves

\* An entry in the log keeps it if it tells the answer.
LEMMA BooksLog ==
    ASSUME Inv, NEW s \in Sends, NEW t \in Slots, NEW here,
           NEW status \in {"sent", "failed", "expired"},
           NEW onFault \in {"markFailure", "threw"},
           BookInLog(s, t, here, status, onFault),
           here \notin {"none"} \cup Ended,
           status = "sent" => answer[s][t] = "accepted",
           status = "expired" => answer[s][t] = "gone" /\ ~StillThere(s, t)
    PROVE  Inv'
<1> DEFINE written == [log EXCEPT ![s][t] = Append(@, status)]
<1>1. log' \in {log, written} /\ UNCHANGED <<row, answer>>
  BY DEF BookInLog
<1>2. log \in [Sends -> [Slots -> Seq({"sent", "failed", "expired"})]]
  BY DEF Inv, TypeOK
<1>3. log[s][t] \in Seq({"sent", "failed", "expired"})
  BY <1>2
<1>4. Append(log[s][t], status) \in Seq({"sent", "failed", "expired"})
  BY <1>3
<1>5. written \in [Sends -> [Slots -> Seq({"sent", "failed", "expired"})]]
  BY <1>2, <1>4
<1>6. written[s][t] = Append(log[s][t], status)
  BY <1>2
<1>7. PICK stage \in {status, onFault} :
         /\ Goto(s, t, stage)
         /\ stage = status => log' = written
  BY DEF BookInLog
<1>8. job' = [job EXCEPT ![s][t] = stage] /\ UNCHANGED <<alive, ident>>
  BY <1>7 DEF Goto
<1>9. job'[s][t] = stage
  BY <1>8 DEF Inv, TypeOK
<1>10. StageTells(s, t)
  BY DEF Inv
<1>11. job[s][t] = here
  BY DEF BookInLog
<1>12. \/ log'[s][t] = log[s][t]
       \/ log'[s][t] = Append(log[s][t], status)
  BY <1>1, <1>6
<1>13. \A n \in DOMAIN log'[s][t] :
          /\ log'[s][t][n] = "sent" => answer[s][t] = "accepted"
          /\ log'[s][t][n] = "expired" => answer[s][t] = "gone"
  BY <1>3, <1>10, <1>12 DEF StageTells
<1>14. StillThere(s, t)' => StillThere(s, t)
  BY <1>1, <1>8 DEF StillThere
<1>15. stage = status => log'[s][t] # <<>> /\ log'[s][t][Len(log'[s][t])] = status
  <2> SUFFICES ASSUME stage = status
               PROVE  log'[s][t] # <<>> /\ log'[s][t][Len(log'[s][t])] = status
    OBVIOUS
  <2>1. log'[s][t] = Append(log[s][t], status)
    BY <1>6, <1>7
  <2> QED BY <2>1, <1>3
<1>16. StageTells(s, t)'
  <2>1. CASE stage = status
    BY <2>1, <1>1, <1>9, <1>13, <1>14, <1>15 DEF StageTells
  <2>2. CASE stage = onFault
    BY <2>2, <1>1, <1>9, <1>13, <1>14 DEF StageTells
  <2> QED BY <2>1, <2>2
<1>17. \A r \in Sends, u \in Slots :
          <<r, u>> # <<s, t>> => answer'[r][u] = answer[r][u] /\ log'[r][u] = log[r][u]
  BY <1>1, <1>2
<1>18. /\ row' \in [Endpoints -> Rows \cup {NoRow}] /\ ThresholdDisables'
       /\ answer' \in [Sends -> [Slots -> {"none", "accepted", "gone", "refused"}]]
       /\ \A e \in Endpoints : row'[e] # NoRow => row[e] # NoRow /\ row'[e].id = row[e].id
  BY <1>1 DEF Inv, TypeOK, ThresholdDisables
<1>19. log' \in [Sends -> [Slots -> Seq({"sent", "failed", "expired"})]]
  BY <1>1, <1>2, <1>5
<1>20. stage \in Stages \ {"none", "todo"} /\ job[s][t] \notin {"none"} \cup Ended
  BY <1>11 DEF Stages, Ended
<1> QED BY <1>7, <1>16, <1>17, <1>18, <1>19, <1>20, JobMoves

\* Every step of a job keeps the invariant.
LEMMA JobStepInv ==
    ASSUME Inv, NEW s \in Sends, NEW t \in Slots, JobStep(s, t)
    PROVE  Inv'
<1>1. t[2] \in Endpoints
  BY DEF Slots
<1>2. StageTells(s, t)
  BY DEF Inv
<1>3. \A r \in Sends, u \in Slots, stage \in Stages :
         Goto(r, u, stage) => /\ job'[r][u] = stage
                              /\ UNCHANGED <<alive, ident>>
  BY DEF Goto, Inv, TypeOK
<1>4. CASE StartJob(s, t)
  <2>1. Goto(s, t, "push") /\ UNCHANGED <<row, answer, log>> /\ job[s][t] = "todo"
    BY <1>4 DEF StartJob
  <2>2. "push" \in Stages \ {"none", "todo"} /\ job[s][t] \notin {"none"} \cup Ended
    BY <2>1 DEF Stages, Ended
  <2>3. StageTells(s, t)'
    BY <1>2, <1>3, <2>1, <2>2 DEF StageTells
  <2> QED BY <2>1, <2>2, <2>3, JobMoves DEF Inv, TypeOK, ThresholdDisables
<1>5. ASSUME NEW what \in {"accepted", "gone", "refused"},
             NEW stage \in {"markSuccess", "prune", "markFailure"},
             Answered(s, t, what, stage),
             stage = "markSuccess" => what = "accepted",
             stage = "prune" => what = "gone" /\ ~alive[t[2]]
      PROVE  Inv'
  <2>1. /\ Goto(s, t, stage) /\ UNCHANGED <<row, log>> /\ job[s][t] = "push"
        /\ answer' = [answer EXCEPT ![s][t] = what]
    BY <1>5 DEF Answered
  <2>2. stage \in Stages \ {"none", "todo"} /\ job[s][t] \notin {"none"} \cup Ended
    BY <2>1 DEF Stages, Ended
  <2>3. /\ answer' \in [Sends -> [Slots -> {"none", "accepted", "gone", "refused"}]]
        /\ answer'[s][t] = what
        /\ \A r \in Sends, u \in Slots :
              <<r, u>> # <<s, t>> => answer'[r][u] = answer[r][u]
    BY <2>1 DEF Inv, TypeOK
  <2>4. log'[s][t] = <<>> /\ job'[s][t] = stage /\ UNCHANGED alive
    BY <1>2, <1>3, <2>1, <2>2 DEF StageTells
  <2>5. StageTells(s, t)'
    BY <1>5, <2>3, <2>4 DEF StageTells
  <2> QED BY <2>1, <2>2, <2>3, <2>5, JobMoves DEF Inv, TypeOK, ThresholdDisables
<1>6. CASE PushAccepted(s, t)
  BY <1>5, <1>6 DEF PushAccepted
<1>7. CASE PushGone(s, t)
  BY <1>5, <1>7 DEF PushGone
<1>8. CASE PushRefused(s, t)
  BY <1>5, <1>8 DEF PushRefused
<1>9. CASE MarkSuccess(s, t)
  <2>1. BookOnRow(s, t, "markSuccess", Succeeded(s, t), "logSent", "markFailure")
    BY <1>9 DEF MarkSuccess
  <2>2. /\ job[s][t] = "markSuccess" /\ UNCHANGED <<answer, log>>
        /\ Goto(s, t, "logSent") \/ Goto(s, t, "markFailure")
    BY <2>1 DEF BookOnRow
  <2>3. job'[s][t] \in {"logSent", "markFailure"}
    BY <1>3, <2>2 DEF Stages, Ended
  <2>4. StageTells(s, t)'
    BY <1>2, <2>2, <2>3 DEF StageTells
  <2>5. /\ {"logSent", "markFailure"} \subseteq Stages \ {"none", "todo"}
        /\ "markSuccess" \notin {"none"} \cup Ended
    BY DEF Stages, Ended
  <2>6. PICK new : new = Succeeded(s, t)
    OBVIOUS
  <2>7. new \in {Succeeded(s, t), Failed(s, t)} /\ BookOnRow(s, t, "markSuccess", new, "logSent", "markFailure")
    BY <2>1, <2>6
  <2>8. /\ new \in Rows \cup {NoRow}
        /\ KeepsRow(t, new)
    BY <2>7, Marks
  <2> QED BY <2>4, <2>5, <2>7, <2>8, BooksRow
<1>10. CASE LogSent(s, t)
  <2>1. job[s][t] = "logSent" /\ "logSent" \notin {"none"} \cup Ended
    BY <1>10 DEF LogSent, BookInLog, Ended
  <2>2. answer[s][t] = "accepted"
    BY <1>2, <2>1 DEF StageTells
  <2> QED BY <1>10, <2>1, <2>2, BooksLog DEF LogSent
<1>11. CASE Prune(s, t)
  <2>1. BookOnRow(s, t, "prune", NoRow, "logExpired", "threw")
    BY <1>11 DEF Prune
  <2>2. /\ job[s][t] = "prune" /\ UNCHANGED <<answer, log>>
        /\ \/ Goto(s, t, "logExpired") /\ row' = [row EXCEPT ![t[2]] = NoRow]
           \/ Goto(s, t, "threw")
    BY <2>1 DEF BookOnRow
  <2>3. \/ job'[s][t] = "logExpired" /\ row'[t[2]] = NoRow
        \/ job'[s][t] = "threw"
    BY <1>1, <1>3, <2>2 DEF Stages, Ended, Inv, TypeOK
  <2>4. StageTells(s, t)'
    BY <1>2, <2>2, <2>3 DEF StageTells, StillThere
  <2>5. /\ {"logExpired", "threw"} \subseteq Stages \ {"none", "todo"}
        /\ "prune" \notin {"none"} \cup Ended
    BY DEF Stages, Ended
  <2>6. KeepsRow(t, NoRow)
    BY DEF KeepsRow
  <2> QED BY <2>1, <2>4, <2>5, <2>6, BooksRow
<1>12. CASE LogExpired(s, t)
  <2>1. job[s][t] = "logExpired" /\ "logExpired" \notin {"none"} \cup Ended
    BY <1>12 DEF LogExpired, BookInLog, Ended
  <2>2. answer[s][t] = "gone" /\ ~StillThere(s, t)
    BY <1>2, <2>1 DEF StageTells
  <2> QED BY <1>12, <2>1, <2>2, BooksLog DEF LogExpired
<1>13. CASE MarkFailure(s, t)
  <2>1. BookOnRow(s, t, "markFailure", Failed(s, t), "logFailed", "threw")
    BY <1>13 DEF MarkFailure
  <2>2. /\ UNCHANGED <<answer, log>>
        /\ Goto(s, t, "logFailed") \/ Goto(s, t, "threw")
    BY <2>1 DEF BookOnRow
  <2>3. job'[s][t] \in {"logFailed", "threw"}
    BY <1>3, <2>2 DEF Stages, Ended
  <2>4. StageTells(s, t)'
    BY <1>2, <2>2, <2>3 DEF StageTells
  <2>5. /\ {"logFailed", "threw"} \subseteq Stages \ {"none", "todo"}
        /\ "markFailure" \notin {"none"} \cup Ended
    BY DEF Stages, Ended
  <2>6. PICK new : new = Failed(s, t)
    OBVIOUS
  <2>7. new \in {Succeeded(s, t), Failed(s, t)} /\ BookOnRow(s, t, "markFailure", new, "logFailed", "threw")
    BY <2>1, <2>6
  <2>8. /\ new \in Rows \cup {NoRow}
        /\ KeepsRow(t, new)
    BY <2>7, Marks
  <2> QED BY <2>4, <2>5, <2>7, <2>8, BooksRow
<1>14. CASE LogFailed(s, t)
  BY <1>14, BooksLog DEF LogFailed, Ended
<1> QED BY <1>4, <1>6, <1>7, <1>8, <1>9, <1>10, <1>11, <1>12, <1>13, <1>14 DEF JobStep

-----------------------------------------------------------------------------
(* Browsers and the lookups *)

\* What the browsers and the push service do keeps the invariant: a new row has an
\* id that no send has read.
LEMMA ChannelStepInv ==
    ASSUME Inv, NEW e \in Endpoints,
           (\E u \in Users : Register(e, u)) \/ Unregister(e) \/ ChannelDies(e)
    PROVE  Inv'
<1>1. /\ UNCHANGED sending
      /\ UNCHANGED alive \/ alive' = [alive EXCEPT ![e] = FALSE]
  BY DEF Register, Unregister, ChannelDies
<1>2. \/ UNCHANGED <<row, lastId>>
      \/ row' = [row EXCEPT ![e] = NoRow] /\ UNCHANGED lastId
      \/ \E u \in Users : /\ row[e] # NoRow /\ UNCHANGED lastId
                          /\ row' = [row EXCEPT ![e] = NewRow(row[e].id, u)]
      \/ \E u \in Users : /\ row[e] = NoRow /\ lastId < MaxId /\ lastId' = lastId + 1
                          /\ row' = [row EXCEPT ![e] = NewRow(lastId + 1, u)]
  BY DEF Register, Unregister, ChannelDies
<1>3. lastId \in Nat /\ lastId <= MaxId /\ MaxId \in Nat
  BY MaxIdAssumption DEF Inv, TypeOK
<1>4. ASSUME NEW u \in Users, NEW id \in 1 .. MaxId
      PROVE  /\ NewRow(id, u) \in Rows /\ NewRow(id, u).id = id
             /\ ~(NewRow(id, u).failures >= MaxFailures)
  BY MaxFailuresAssumption DEF NewRow, Rows
<1>5. \/ UNCHANGED <<row, lastId>>
      \/ row' = [row EXCEPT ![e] = NoRow] /\ UNCHANGED lastId
      \/ \E new \in Rows : /\ row' = [row EXCEPT ![e] = new]
                           /\ ~(new.failures >= MaxFailures)
                           /\ \/ row[e] # NoRow /\ new.id = row[e].id /\ UNCHANGED lastId
                              \/ new.id = lastId + 1 /\ lastId' = lastId + 1 /\ lastId < MaxId
  <2>1. ASSUME NEW u \in Users, row[e] # NoRow, UNCHANGED lastId,
               row' = [row EXCEPT ![e] = NewRow(row[e].id, u)]
        PROVE  <1>5!3
    <3>1. row[e].id \in 1 .. MaxId
      BY <2>1 DEF Inv, TypeOK, Rows
    <3> QED BY <1>4, <2>1, <3>1
  <2>2. ASSUME NEW u \in Users, lastId < MaxId, lastId' = lastId + 1,
               row' = [row EXCEPT ![e] = NewRow(lastId + 1, u)]
        PROVE  <1>5!3
    <3>1. lastId + 1 \in 1 .. MaxId
      BY <1>3, <2>2
    <3> QED BY <1>4, <2>2, <3>1
  <2> QED BY <1>2, <2>1, <2>2
<1>6. row' \in [Endpoints -> Rows \cup {NoRow}] /\ lastId' \in 0 .. MaxId /\ lastId' >= lastId
  <2>1. row' \in [Endpoints -> Rows \cup {NoRow}]
    BY <1>5 DEF Inv, TypeOK
  <2>2. lastId' = lastId \/ (lastId' = lastId + 1 /\ lastId < MaxId)
    BY <1>5
  <2> QED BY <1>3, <2>1, <2>2
<1>7. TypeOK'
  BY <1>1, <1>6 DEF Inv, TypeOK, sending
<1>8. ThresholdDisables'
  BY <1>5 DEF Inv, TypeOK, ThresholdDisables
<1>9. IdsAreSpent'
  <2>1. ASSUME NEW x \in Endpoints, row'[x] # NoRow PROVE row'[x].id <= lastId'
    <3>1. CASE row'[x] = row[x]
      <4>1. row[x].id \in Nat /\ row[x].id <= lastId
        BY <2>1, <3>1 DEF Inv, TypeOK, Rows, IdsAreSpent
      <4> QED BY <1>3, <1>6, <3>1, <4>1
    <3>2. CASE row'[x] # row[x]
      <4>1. \/ row[x] # NoRow /\ row'[x].id = row[x].id
            \/ row'[x].id = lastId + 1 /\ lastId' = lastId + 1
        BY <1>5, <2>1, <3>2 DEF Inv, TypeOK
      <4>2. row[x] # NoRow => row[x].id \in Nat /\ row[x].id <= lastId
        BY DEF Inv, TypeOK, Rows, IdsAreSpent
      <4> QED BY <1>3, <1>6, <4>1, <4>2
    <3> QED BY <3>1, <3>2
  <2>2. ASSUME NEW s \in Sends, NEW t \in Slots PROVE ident'[s][t] <= lastId'
    <3>1. ident'[s][t] = ident[s][t] /\ ident[s][t] \in Nat /\ ident[s][t] <= lastId
      BY <1>1 DEF sending, Inv, TypeOK, IdsAreSpent
    <3> QED BY <1>3, <1>6, <3>1
  <2> QED BY <2>1, <2>2 DEF IdsAreSpent
<1>10. PhaseMatchesJobs'
  BY <1>1 DEF sending, Inv, PhaseMatchesJobs
<1>11. ASSUME NEW s \in Sends, NEW t \in Slots PROVE StageTells(s, t)'
  <2>1. t[2] \in Endpoints
    BY DEF Slots
  <2>2. ident[s][t] \in Nat /\ ident[s][t] <= lastId
    BY DEF Inv, TypeOK, IdsAreSpent
  <2>3. StillThere(s, t)' => StillThere(s, t)
    <3> SUFFICES ASSUME row'[t[2]] # NoRow, row'[t[2]].id = ident[s][t]
                 PROVE  StillThere(s, t)
      BY <1>1 DEF StillThere, sending
    <3>1. CASE row'[t[2]] = row[t[2]]
      BY <3>1 DEF StillThere
    <3>2. CASE row'[t[2]] # row[t[2]]
      <4>1. \/ row[t[2]] # NoRow /\ row'[t[2]].id = row[t[2]].id
            \/ row'[t[2]].id = lastId + 1
        BY <1>5, <2>1, <3>2 DEF Inv, TypeOK
      <4>2. ident[s][t] # lastId + 1
        BY <1>3, <2>2
      <4> QED BY <4>1, <4>2 DEF StillThere
    <3> QED BY <3>1, <3>2
  <2>4. ~alive[t[2]] => ~alive'[t[2]]
    BY <1>1, <2>1 DEF Inv, TypeOK
  <2>5. StageTells(s, t)
    BY DEF Inv
  <2>6. job' = job /\ answer' = answer /\ log' = log
    BY <1>1 DEF sending
  <2> QED BY <2>3, <2>4, <2>5, <2>6 DEF StageTells
<1> QED BY <1>7, <1>8, <1>9, <1>10, <1>11 DEF Inv

\* A step of a send that has no job yet, and that leaves it with jobs only to start.
LEMMA BeforeTheJobs ==
    ASSUME Inv, NEW s \in Sends,
           phase[s] \in {"new", "lookup"},
           UNCHANGED <<row, lastId, alive, answer, log>>,
           query' \in [Sends -> AllQueries \cup {<<>>}],
           open' \in [Sends -> SUBSET Positions],
           NEW now \in {"lookup", "nobody", "sending", "rejected"},
           phase' = [phase EXCEPT ![s] = now],
           ident' \in [Sends -> [Slots -> 0 .. MaxId]],
           job' \in [Sends -> [Slots -> Stages]],
           \A r \in Sends : r # s => ident'[r] = ident[r] /\ job'[r] = job[r],
           \A t \in Slots : /\ ident'[s][t] <= lastId
                            /\ job'[s][t] \in {"none", "todo"}
                            /\ now = "lookup" => job'[s][t] = "none"
    PROVE  Inv'
<1> USE DEF Inv
<1>1. TypeOK'
  BY DEF TypeOK
<1>2. ThresholdDisables' /\ IdsAreSpent'
  BY DEF ThresholdDisables, IdsAreSpent
<1>3. PhaseMatchesJobs'
  <2>1. ASSUME NEW r \in Sends, NEW t \in Slots
        PROVE  /\ phase'[r] \in {"new", "lookup"} => job'[r][t] = "none"
               /\ phase'[r] = "sending" => job'[r][t] # "threw"
               /\ phase'[r] = "resolved" => job'[r][t] \in {"none", "sent", "failed", "expired"}
    <3>1. CASE r = s
      BY <3>1 DEF TypeOK
    <3>2. CASE r # s
      BY <3>2 DEF TypeOK, PhaseMatchesJobs
    <3> QED BY <3>1, <3>2
  <2> QED BY <2>1 DEF PhaseMatchesJobs
<1>4. ASSUME NEW r \in Sends, NEW t \in Slots PROVE StageTells(r, t)'
  <2>1. StageTells(r, t)
    OBVIOUS
  <2>2. CASE r = s
    <3>1. job[s][t] = "none"
      BY DEF PhaseMatchesJobs
    <3>2. log[r][t] = <<>> /\ job'[r][t] \in {"none", "todo"} /\ log' = log /\ answer' = answer
      BY <2>1, <2>2, <3>1 DEF StageTells
    <3> HIDE DEF Inv
    <3> QED BY <2>1, <3>2 DEF StageTells
  <2>3. CASE r # s
    <3>1. StillThere(r, t)' => StillThere(r, t)
      BY <2>3 DEF StillThere
    <3>2. job'[r][t] = job[r][t] /\ log' = log /\ answer' = answer /\ alive' = alive
      BY <2>3
    <3> HIDE DEF Inv
    <3> QED BY <2>1, <3>1, <3>2 DEF StageTells
  <2> QED BY <2>2, <2>3
<1> QED BY <1>1, <1>2, <1>3, <1>4

\* So does every step before the jobs start.
LEMMA LookupInv ==
    ASSUME Inv, NEW s \in Sends,
           (\E q \in Queries[s] : Request(s, q)) \/ LookupStep(s)
    PROVE  Inv'
<1>0. /\ lastId \in Nat /\ query \in [Sends -> AllQueries \cup {<<>>}]
      /\ open \in [Sends -> SUBSET Positions]
      /\ ident \in [Sends -> [Slots -> 0 .. MaxId]] /\ job \in [Sends -> [Slots -> Stages]]
      /\ phase \in [Sends -> {"new", "lookup", "nobody", "sending", "resolved", "rejected"}]
  BY DEF Inv, TypeOK
<1>1. phase[s] \in {"new", "lookup"} => \A t \in Slots : job[s][t] = "none"
  BY DEF Inv, PhaseMatchesJobs
<1>2. \A t \in Slots : ident[s][t] <= lastId
  BY DEF Inv, IdsAreSpent
<1>3. CASE \E q \in Queries[s] : Request(s, q)
  <2>1. PICK q \in Queries[s] : Request(s, q)
    BY <1>3
  <2>2. DOMAIN q \subseteq Positions
    BY DEF Positions, AllQueries
  <2>3. /\ phase[s] \in {"new", "lookup"} /\ UNCHANGED <<row, lastId, alive, ident, job, answer, log>>
        /\ phase' = [phase EXCEPT ![s] = IF q = <<>> THEN "nobody" ELSE "lookup"]
        /\ query' \in [Sends -> AllQueries \cup {<<>>}]
        /\ open' \in [Sends -> SUBSET Positions]
    BY <1>0, <2>1, <2>2 DEF Request, AllQueries
  <2>4. PICK now \in {"nobody", "lookup"} : phase' = [phase EXCEPT ![s] = now]
    BY <2>3
  <2> QED BY <1>0, <1>1, <1>2, <2>3, <2>4, BeforeTheJobs
<1>4. CASE LookupFails(s)
  <2>1. /\ phase[s] \in {"new", "lookup"}
        /\ UNCHANGED <<row, lastId, alive, query, ident, job, answer, log>>
        /\ phase' = [phase EXCEPT ![s] = "rejected"]
        /\ open' \in [Sends -> SUBSET Positions]
    BY <1>0, <1>4 DEF LookupFails
  <2> QED BY <1>0, <1>1, <1>2, <2>1, BeforeTheJobs
<1>5. ASSUME NEW k \in Positions, Lookup(s, k) PROVE Inv'
  <2> DEFINE found == Found(s, k)
             targets == {t \in Slots : found[t] # 0}
  <2>1. /\ phase[s] = "lookup"
        /\ open' = [open EXCEPT ![s] = @ \ {k}]
        /\ ident' = [ident EXCEPT ![s] = found]
        /\ UNCHANGED <<row, lastId, alive, query, answer, log>>
        /\ \/ open'[s] # {} /\ UNCHANGED <<phase, job>>
           \/ /\ phase' = [phase EXCEPT ![s] = IF targets = {} THEN "nobody" ELSE "sending"]
              /\ job' = [job EXCEPT ![s] =
                            [t \in Slots |-> IF t \in targets THEN "todo" ELSE "none"]]
    BY <1>5 DEF Lookup
  <2>2. found \in [Slots -> 0 .. MaxId] /\ \A t \in Slots : found[t] <= lastId
    <3>1. ASSUME NEW t \in Slots, t[2] \in FindActive(query[s][k])
          PROVE  row[t[2]].id \in 0 .. MaxId /\ row[t[2]].id <= lastId
      <4>1. t[2] \in Endpoints /\ row[t[2]] # NoRow
        BY <3>1 DEF FindActive
      <4>2. row[t[2]].id \in 1 .. MaxId
        BY <4>1 DEF Inv, TypeOK, Rows
      <4>3. row[t[2]].id <= lastId
        BY <4>1 DEF Inv, IdsAreSpent
      <4> QED BY <4>2, <4>3, MaxIdAssumption
    <3>2. ASSUME NEW t \in Slots PROVE ident[s][t] \in 0 .. MaxId /\ ident[s][t] <= lastId
      BY <1>0, <1>2
    <3> QED BY <3>1, <3>2 DEF Found
  <2> HIDE DEF found
  <2>3. ident' \in [Sends -> [Slots -> 0 .. MaxId]] /\ \A t \in Slots : ident'[s][t] <= lastId
    BY <1>0, <2>1, <2>2
  <2>4. open' \in [Sends -> SUBSET Positions]
    BY <1>0, <2>1
  <2>5. CASE UNCHANGED <<phase, job>>
    <3>1. phase' = [phase EXCEPT ![s] = "lookup"]
      BY <1>0, <2>1, <2>5
    <3>2. job' \in [Sends -> [Slots -> Stages]] /\ \A t \in Slots : job'[s][t] = "none"
      BY <1>0, <1>1, <2>1, <2>5
    <3>3. \A r \in Sends : r # s => ident'[r] = ident[r] /\ job'[r] = job[r]
      BY <1>0, <2>1, <2>5
    <3> QED BY <1>0, <2>1, <2>3, <2>4, <3>1, <3>2, <3>3, BeforeTheJobs
  <2>6. CASE /\ phase' = [phase EXCEPT ![s] = IF targets = {} THEN "nobody" ELSE "sending"]
             /\ job' = [job EXCEPT ![s] =
                           [t \in Slots |-> IF t \in targets THEN "todo" ELSE "none"]]
    <3>1. PICK now \in {"nobody", "sending"} : phase' = [phase EXCEPT ![s] = now]
      BY <2>6
    <3>2. /\ job' \in [Sends -> [Slots -> Stages]]
          /\ \A t \in Slots : job'[s][t] \in {"none", "todo"}
          /\ \A r \in Sends : r # s => ident'[r] = ident[r] /\ job'[r] = job[r]
      BY <1>0, <2>1, <2>6 DEF Stages
    <3> QED BY <1>0, <2>1, <2>3, <2>4, <3>1, <3>2, BeforeTheJobs
  <2> QED BY <2>1, <2>5, <2>6
<1> QED BY <1>3, <1>4, <1>5 DEF LookupStep

-----------------------------------------------------------------------------
\* Every step keeps the invariant.
LEMMA NextInv == Inv /\ [Next]_vars => Inv'
<1> SUFFICES ASSUME Inv, [Next]_vars PROVE Inv'
  OBVIOUS
<1>1. ASSUME NEW e \in Endpoints,
             (\E u \in Users : Register(e, u)) \/ Unregister(e) \/ ChannelDies(e)
      PROVE  Inv'
  BY <1>1, ChannelStepInv
<1>2. ASSUME NEW s \in Sends, (\E q \in Queries[s] : Request(s, q)) \/ LookupStep(s)
      PROVE  Inv'
  BY <1>2, LookupInv
<1>3. ASSUME NEW s \in Sends, NEW t \in Slots, JobStep(s, t) PROVE Inv'
  BY <1>3, JobStepInv
<1>4. CASE UNCHANGED vars
  BY <1>4 DEF vars, Inv, TypeOK, ThresholdDisables, IdsAreSpent, PhaseMatchesJobs, StageTells,
              StillThere
<1> QED BY <1>1, <1>2, <1>3, <1>4 DEF Next

\* The invariant of delivery: what the rows, the ids, the phases, the stages, the
\* answers and the log say of each other (webpush.ts:43-119).
THEOREM Invariance == Spec => []Inv
BY InitInv, NextInv, PTL DEF Spec

\* Type correctness of delivery.
THEOREM TypeCorrect == Spec => []TypeOK
<1>1. Inv => TypeOK
  BY DEF Inv
<1> QED BY <1>1, Invariance, PTL

\* A row at the threshold is disabled, whatever interleaves (repository.ts:216-224).
THEOREM ThresholdDisablesHolds == Spec => []ThresholdDisables
<1>1. Inv => ThresholdDisables
  BY DEF Inv
<1> QED BY <1>1, Invariance, PTL

\* The summary of a resolved send repeats the last entries its jobs wrote
\* (webpush.ts:53-58, 69-79, 109-119).
THEOREM SummaryMatchesLogHolds == Spec => []SummaryMatchesLog
<1>1. Inv => SummaryMatchesLog
  <2> SUFFICES ASSUME Inv, NEW s \in Sends, phase[s] = "resolved", NEW t \in Jobs(s)
               PROVE  log[s][t] # <<>> /\ log[s][t][Len(log[s][t])] = job[s][t]
    BY DEF SummaryMatchesLog
  <2>1. t \in Slots /\ job[s][t] \in {"sent", "failed", "expired"}
    BY DEF Jobs, Inv, PhaseMatchesJobs
  <2> QED BY <2>1 DEF Inv, StageTells
<1> QED BY <1>1, Invariance, PTL

\* What the log says was sent or expired is what the push service answered
\* (webpush.ts:67-79, 99-113).
THEOREM LogTellsAnswerHolds == Spec => []LogTellsAnswer
<1>1. Inv => LogTellsAnswer
  BY DEF Inv, StageTells, LogTellsAnswer
<1> QED BY <1>1, Invariance, PTL

\* The registration a send reported as expired never comes back (webpush.ts:102-103).
THEOREM ExpiredMeansPrunedHolds == Spec => []ExpiredMeansPruned
<1>1. Inv => ExpiredMeansPruned
  BY DEF Inv, StageTells, ExpiredMeansPruned
<1> QED BY <1>1, Invariance, PTL

-----------------------------------------------------------------------------
(* What a step of a send does to the rows *)

\* A step that moves a job leaves the rows alone, or is a booking of one job.
LEMMA RowWriters ==
    ASSUME [Next]_vars, job' # job, row' # row
    PROVE  \E s \in Sends, t \in Slots :
               Prune(s, t) \/ MarkSuccess(s, t) \/ MarkFailure(s, t)
<1>1. \A e \in Endpoints, u \in Users : ~Register(e, u)
  BY DEF Register, sending
<1>2. \A e \in Endpoints : ~Unregister(e) /\ ~ChannelDies(e)
  BY DEF Unregister, ChannelDies, sending
<1>3. \A s \in Sends : \A q \in Queries[s] : ~Request(s, q)
  BY DEF Request
<1>4. \A s \in Sends : ~LookupStep(s)
  BY DEF LookupStep, Lookup, LookupFails
<1>5. ~UNCHANGED vars
  BY DEF vars
<1>6. PICK s \in Sends, t \in Slots : JobStep(s, t)
  BY <1>1, <1>2, <1>3, <1>4, <1>5 DEF Next
<1>7. ~StartJob(s, t) /\ ~PushAccepted(s, t) /\ ~PushGone(s, t) /\ ~PushRefused(s, t)
  BY DEF StartJob, PushAccepted, PushGone, PushRefused, Answered
<1>8. ~LogSent(s, t) /\ ~LogExpired(s, t) /\ ~LogFailed(s, t)
  BY DEF LogSent, LogExpired, LogFailed, BookInLog
<1> QED BY <1>6, <1>7, <1>8 DEF JobStep

\* A booking writes the value it is for on the row of its target, or nothing.
LEMMA BookingWrites ==
    ASSUME Inv, NEW s \in Sends, NEW t \in Slots, NEW new, NEW here, NEW next, NEW onFault,
           BookOnRow(s, t, here, new, next, onFault),
           NEW e \in Endpoints, row'[e] # row[e]
    PROVE  t[2] = e /\ row'[e] = new /\ job[s][t] = here
BY DEF BookOnRow, Inv, TypeOK

\* Only the channels that the push service dropped are pruned (webpush.ts:99-103).
THEOREM OnlyDeadChannelsPrunedHolds == Spec => OnlyDeadChannelsPruned
<1>1. Inv /\ [Next]_vars =>
        [\A e \in Endpoints :
            (job' # job /\ row[e] # NoRow /\ row'[e] = NoRow) => ~alive[e]]_vars
  <2> SUFFICES ASSUME Inv, [Next]_vars, NEW e \in Endpoints,
                      job' # job, row[e] # NoRow, row'[e] = NoRow
               PROVE  ~alive[e]
    OBVIOUS
  <2>1. PICK s \in Sends, t \in Slots : Prune(s, t) \/ MarkSuccess(s, t) \/ MarkFailure(s, t)
    BY RowWriters
  <2>2. CASE Prune(s, t)
    <3>1. t[2] = e /\ job[s][t] = "prune"
      BY <2>2, BookingWrites DEF Prune
    <3> QED BY <3>1 DEF Inv, StageTells
  <2>3. ASSUME NEW here, NEW next, NEW onFault, NEW new \in {Succeeded(s, t), Failed(s, t)},
               BookOnRow(s, t, here, new, next, onFault)
        PROVE  FALSE
    <3>1. t[2] = e /\ new = NoRow
      BY <2>3, BookingWrites
    <3>2. new # row[t[2]] => new \in Rows
      BY Marks
    <3> QED BY <3>1, <3>2, NoRowAssumption
  <2>4. CASE MarkSuccess(s, t)
    <3>1. PICK new : new = Succeeded(s, t)
      OBVIOUS
    <3> QED BY <2>3, <2>4, <3>1 DEF MarkSuccess
  <2>5. CASE MarkFailure(s, t)
    <3>1. PICK new : new = Failed(s, t)
      OBVIOUS
    <3> QED BY <2>3, <2>5, <3>1 DEF MarkFailure
  <2> QED BY <2>1, <2>2, <2>4, <2>5
<1> QED BY <1>1, Invariance, PTL DEF Spec, OnlyDeadChannelsPruned

\* A mark hits the row that the send read, and no row inserted since
\* (repository.ts:208-224).
THEOREM MarksHitTheRowReadHolds == Spec => MarksHitTheRowRead
<1>1. Inv /\ [Next]_vars =>
        [\A e \in Endpoints :
            (job' # job /\ row[e] # NoRow /\ row'[e] # NoRow /\ row'[e] # row[e]) =>
                \E s \in Sends, k \in Positions : /\ job'[s][<<k, e>>] # job[s][<<k, e>>]
                                                /\ ident[s][<<k, e>>] = row[e].id]_vars
  <2> SUFFICES ASSUME Inv, [Next]_vars, NEW e \in Endpoints,
                      job' # job, row'[e] # NoRow, row'[e] # row[e]
               PROVE  \E s \in Sends, k \in Positions :
                          /\ job'[s][<<k, e>>] # job[s][<<k, e>>]
                          /\ ident[s][<<k, e>>] = row[e].id
    OBVIOUS
  <2>1. PICK s \in Sends, t \in Slots : Prune(s, t) \/ MarkSuccess(s, t) \/ MarkFailure(s, t)
    BY RowWriters
  <2>2. t[2] = e /\ ident[s][t] = row[e].id
    <3>1. CASE Prune(s, t)
      BY <3>1, BookingWrites DEF Prune
    <3>2. ASSUME NEW here, NEW next, NEW onFault, NEW new \in {Succeeded(s, t), Failed(s, t)},
                 BookOnRow(s, t, here, new, next, onFault)
          PROVE  t[2] = e /\ ident[s][t] = row[e].id
      <4>1. t[2] = e /\ row'[e] = new
        BY <3>2, BookingWrites
      <4>2. StillThere(s, t)
        BY <4>1, Marks
      <4> QED BY <4>1, <4>2 DEF StillThere
    <3>3. CASE MarkSuccess(s, t)
      <4>1. PICK new : new = Succeeded(s, t)
        OBVIOUS
      <4> QED BY <3>2, <3>3, <4>1 DEF MarkSuccess
    <3>4. CASE MarkFailure(s, t)
      <4>1. PICK new : new = Failed(s, t)
        OBVIOUS
      <4> QED BY <3>2, <3>4, <4>1 DEF MarkFailure
    <3> QED BY <2>1, <3>1, <3>3, <3>4
  <2>3. job'[s][t] # job[s][t]
    <3>1. PICK stage \in Stages : job[s][t] # stage /\ Goto(s, t, stage)
      BY <2>1 DEF Prune, MarkSuccess, MarkFailure, BookOnRow, Stages, Ended
    <3> QED BY <3>1 DEF Goto, Inv, TypeOK
  <2>4. t = <<t[1], e>> /\ t[1] \in Positions
    BY <2>2 DEF Slots
  <2> QED BY <2>2, <2>3, <2>4
<1> QED BY <1>1, Invariance, PTL DEF Spec, MarksHitTheRowRead
-----------------------------------------------------------------------------
(* Counting failures *)

CountedStages == {"logFailed", "failed", "threw"}
Counted == {p \in Sends \X Slots : job[p[1]][p[2]] \in CountedStages}

\* A row has counted a failure of each job at most once, and no failure but of jobs
\* that read this very row.
CountInv ==
    /\ IsFiniteSet(Counted)
    /\ \A s \in Sends, t \in Slots :
          job[s][t] = "markFailure" => answer[s][t] \in {"refused", "accepted"}
    /\ \A e \in Endpoints : row[e] # NoRow =>
          /\ row[e].failures <= Cardinality(FailedJobs(e))
          /\ row[e].disabled => Cardinality(FailedJobs(e)) >= MaxFailures

\* Only jobs that count are counted, so there are finitely many.
LEMMA FailedJobsFinite ==
    ASSUME IsFiniteSet(Counted), NEW e \in Endpoints
    PROVE  IsFiniteSet(FailedJobs(e)) /\ Cardinality(FailedJobs(e)) \in Nat
<1>1. FailedJobs(e) \subseteq Counted
  BY DEF FailedJobs, Counted, CountedStages
<1> QED BY <1>1, FS_Subset, FS_CardinalityType

\* A step of a job moves it alone.
Moves(s, t) ==
    /\ ident' = ident
    /\ \A r \in Sends, u \in Slots : <<r, u>> # <<s, t>> =>
          job'[r][u] = job[r][u] /\ answer'[r][u] = answer[r][u]

\* Of a failure a job goes to the stages that count it, and only a push that was refused
\* or accepted comes to be one.
Charges(s, t) ==
    /\ job[s][t] \notin {"none"} \cup Ended
    /\ job[s][t] \in {"markFailure", "logFailed"} =>
          job'[s][t] \in CountedStages /\ answer'[s][t] = answer[s][t]
    /\ job'[s][t] = "markFailure" => answer'[s][t] \in {"refused", "accepted"}

\* A step of a job leaves a row alone, removes it, resets its count, or books a failure.
Books(s, t, e) ==
    \/ row'[e] = row[e] \/ row'[e] = NoRow
    \/ t[2] = e /\ row'[e] = Succeeded(s, t)
    \/ t[2] = e /\ row'[e] = Failed(s, t) /\ job[s][t] = "markFailure"

\* Answers of the push service.
LEMMA PushFacts ==
    ASSUME Inv, NEW s \in Sends, NEW t \in Slots,
           NEW what \in {"accepted", "gone", "refused"}, NEW stage \in Stages,
           Answered(s, t, what, stage), stage = "markFailure" => what = "refused"
    PROVE  Moves(s, t) /\ Charges(s, t) /\ \A e \in Endpoints : Books(s, t, e)
<1>1. /\ job[s][t] = "push" /\ job' = [job EXCEPT ![s][t] = stage] /\ ident' = ident
      /\ row' = row /\ answer' = [answer EXCEPT ![s][t] = what]
  BY DEF Answered, Goto
<1>2. Moves(s, t)
  BY <1>1 DEF Moves, Inv, TypeOK
<1>3. Charges(s, t)
  BY <1>1 DEF Charges, Inv, TypeOK, Ended
<1> QED BY <1>1, <1>2, <1>3 DEF Books

\* A job that goes on to a stage.
LEMMA GotoFacts ==
    ASSUME Inv, NEW s \in Sends, NEW t \in Slots, NEW stage \in Stages,
           Goto(s, t, stage), answer' = answer
    PROVE  Moves(s, t) /\ job'[s][t] = stage
<1>1. job' = [job EXCEPT ![s][t] = stage] /\ ident' = ident
  BY DEF Goto
<1> QED BY <1>1 DEF Moves, Inv, TypeOK

\* An entry in the log.
LEMMA LogFacts ==
    ASSUME Inv, NEW s \in Sends, NEW t \in Slots,
           NEW here \in Stages, NEW stage1 \in Stages, NEW stage2 \in Stages,
           BookInLog(s, t, here, stage1, stage2)
    PROVE  /\ Moves(s, t) /\ job[s][t] = here /\ job'[s][t] \in {stage1, stage2}
           /\ answer' = answer /\ row' = row
<1>1. PICK stage \in {stage1, stage2} : Goto(s, t, stage)
  BY DEF BookInLog
<1>2. job' = [job EXCEPT ![s][t] = stage] /\ ident' = ident
  BY <1>1 DEF Goto
<1>3. job[s][t] = here /\ answer' = answer /\ row' = row
  BY DEF BookInLog
<1> QED BY <1>2, <1>3 DEF Moves, Inv, TypeOK

\* What a step of a job does to its stage, its answer and the rows.
LEMMA JobStepFacts ==
    ASSUME Inv, NEW s \in Sends, NEW t \in Slots, JobStep(s, t)
    PROVE  Moves(s, t) /\ Charges(s, t) /\ \A e \in Endpoints : Books(s, t, e)
<1>s. {"markSuccess", "logSent", "markFailure", "logFailed", "threw", "prune", "logExpired",
       "sent", "expired", "failed", "push"} \subseteq Stages
  BY DEF Stages, Ended
<1>1. CASE StartJob(s, t)
  <2>1. /\ job[s][t] = "todo" /\ job' = [job EXCEPT ![s][t] = "push"] /\ ident' = ident
        /\ row' = row /\ answer' = answer
    BY <1>1 DEF StartJob, Goto
  <2>2. Moves(s, t)
    BY <2>1 DEF Moves, Inv, TypeOK
  <2>3. Charges(s, t)
    BY <2>1 DEF Charges, Inv, TypeOK, Ended
  <2> QED BY <2>1, <2>2, <2>3 DEF Books
<1>2. CASE PushAccepted(s, t)
  <2>1. Answered(s, t, "accepted", "markSuccess")
    BY <1>2 DEF PushAccepted
  <2> QED BY <1>s, <2>1, PushFacts
<1>3. CASE PushGone(s, t)
  <2>1. Answered(s, t, "gone", "prune")
    BY <1>3 DEF PushGone
  <2> QED BY <1>s, <2>1, PushFacts
<1>4. CASE PushRefused(s, t)
  <2>1. Answered(s, t, "refused", "markFailure")
    BY <1>4 DEF PushRefused
  <2> QED BY <1>s, <2>1, PushFacts
<1>5. job[s][t] \in {"markSuccess", "logSent"} => answer[s][t] = "accepted"
  BY DEF Inv, StageTells
<1>6. CASE MarkSuccess(s, t)
  <2>1. PICK stage \in {"logSent", "markFailure"} : Goto(s, t, stage)
    BY <1>6 DEF MarkSuccess, BookOnRow
  <2>2. job[s][t] = "markSuccess" /\ answer' = answer
    BY <1>6 DEF MarkSuccess, BookOnRow
  <2>3. row' = row \/ row' = [row EXCEPT ![t[2]] = Succeeded(s, t)]
    BY <1>6 DEF MarkSuccess, BookOnRow
  <2>4. Moves(s, t) /\ job'[s][t] \in {"logSent", "markFailure"}
    BY <1>s, <2>1, <2>2, GotoFacts
  <2>5. \A e \in Endpoints : row'[e] = row[e] \/ (t[2] = e /\ row'[e] = Succeeded(s, t))
    BY <2>3 DEF Inv, TypeOK
  <2> QED BY <1>5, <2>2, <2>4, <2>5 DEF Charges, Books, Ended
<1>7. CASE MarkFailure(s, t)
  <2>1. PICK stage \in {"logFailed", "threw"} : Goto(s, t, stage)
    BY <1>7 DEF MarkFailure, BookOnRow
  <2>2. job[s][t] = "markFailure" /\ answer' = answer
    BY <1>7 DEF MarkFailure, BookOnRow
  <2>3. row' = row \/ row' = [row EXCEPT ![t[2]] = Failed(s, t)]
    BY <1>7 DEF MarkFailure, BookOnRow
  <2>4. Moves(s, t) /\ job'[s][t] \in {"logFailed", "threw"}
    BY <1>s, <2>1, <2>2, GotoFacts
  <2>5. \A e \in Endpoints : row'[e] = row[e] \/ (t[2] = e /\ row'[e] = Failed(s, t))
    BY <2>3 DEF Inv, TypeOK
  <2> QED BY <2>2, <2>4, <2>5 DEF Charges, Books, Ended, CountedStages
<1>8. CASE Prune(s, t)
  <2>1. PICK stage \in {"logExpired", "threw"} : Goto(s, t, stage)
    BY <1>8 DEF Prune, BookOnRow
  <2>2. job[s][t] = "prune" /\ answer' = answer
    BY <1>8 DEF Prune, BookOnRow
  <2>3. row' = row \/ row' = [row EXCEPT ![t[2]] = NoRow]
    BY <1>8 DEF Prune, BookOnRow
  <2>4. Moves(s, t) /\ job'[s][t] \in {"logExpired", "threw"}
    BY <1>s, <2>1, <2>2, GotoFacts
  <2>5. \A e \in Endpoints : row'[e] = row[e] \/ (t[2] = e /\ row'[e] = NoRow)
    BY <2>3 DEF Inv, TypeOK
  <2> QED BY <2>2, <2>4, <2>5 DEF Charges, Books, Ended
<1>9. CASE LogSent(s, t)
  <2>1. BookInLog(s, t, "logSent", "sent", "markFailure")
    BY <1>9 DEF LogSent
  <2>2. /\ Moves(s, t) /\ job[s][t] = "logSent" /\ answer' = answer /\ row' = row
        /\ job'[s][t] \in {"sent", "markFailure"}
    BY <1>s, <2>1, LogFacts
  <2> QED BY <1>5, <2>2 DEF Charges, Books, Ended
<1>10. CASE LogExpired(s, t)
  <2>1. BookInLog(s, t, "logExpired", "expired", "threw")
    BY <1>10 DEF LogExpired
  <2>2. /\ Moves(s, t) /\ job[s][t] = "logExpired" /\ answer' = answer /\ row' = row
        /\ job'[s][t] \in {"expired", "threw"}
    BY <1>s, <2>1, LogFacts
  <2> QED BY <2>2 DEF Charges, Books, Ended
<1>11. CASE LogFailed(s, t)
  <2>1. BookInLog(s, t, "logFailed", "failed", "threw")
    BY <1>11 DEF LogFailed
  <2>2. /\ Moves(s, t) /\ job[s][t] = "logFailed" /\ answer' = answer /\ row' = row
        /\ job'[s][t] \in {"failed", "threw"}
    BY <1>s, <2>1, LogFacts
  <2> QED BY <2>2 DEF Charges, Books, Ended, CountedStages
<1> QED BY <1>1, <1>2, <1>3, <1>4, <1>6, <1>7, <1>8, <1>9, <1>10, <1>11 DEF JobStep

\* A job of a row that has counted stays so while the row keeps its id.
LEMMA StaysCounted ==
    ASSUME Inv, NEW s \in Sends, NEW t \in Slots, Moves(s, t), Charges(s, t),
           NEW e \in Endpoints, row'[e].id = row[e].id
    PROVE  FailedJobs(e) \subseteq FailedJobs(e)'
<1> SUFFICES ASSUME NEW p \in FailedJobs(e) PROVE p \in FailedJobs(e)'
  OBVIOUS
<1>1. /\ p \in Sends \X Slots /\ p[2][2] = e /\ ident[p[1]][p[2]] = row[e].id
      /\ answer[p[1]][p[2]] \in {"refused", "accepted"}
      /\ job[p[1]][p[2]] \in {"logFailed", "failed", "threw"}
  BY DEF FailedJobs
<1>2. ident' = ident
  BY DEF Moves
<1>3. CASE p = <<s, t>>
  <2>1. job[s][t] = "logFailed"
    BY <1>1, <1>3 DEF Charges, Ended
  <2>2. job'[s][t] \in {"logFailed", "failed", "threw"} /\ answer'[s][t] = answer[s][t]
    BY <2>1 DEF Charges, CountedStages
  <2> QED BY <1>1, <1>2, <1>3, <2>2 DEF FailedJobs
<1>4. CASE p # <<s, t>>
  <2>1. job'[p[1]][p[2]] = job[p[1]][p[2]] /\ answer'[p[1]][p[2]] = answer[p[1]][p[2]]
    BY <1>1, <1>4 DEF Moves
  <2> QED BY <1>1, <1>2, <2>1 DEF FailedJobs
<1> QED BY <1>3, <1>4

\* A step of a job keeps the books.
LEMMA JobStepCount ==
    ASSUME Inv, CountInv, NEW s \in Sends, NEW t \in Slots, JobStep(s, t)
    PROVE  CountInv'
<1>1. Moves(s, t) /\ Charges(s, t) /\ \A e \in Endpoints : Books(s, t, e)
  BY JobStepFacts
<1>2. IsFiniteSet(Counted')
  <2>1. Counted' \subseteq Counted \cup {<<s, t>>}
    BY <1>1 DEF Counted, Moves
  <2>2. IsFiniteSet(Counted \cup {<<s, t>>})
    BY FS_AddElement DEF CountInv
  <2> QED BY <2>1, <2>2, FS_Subset
<1>3. ASSUME NEW r \in Sends, NEW u \in Slots, job'[r][u] = "markFailure"
      PROVE  answer'[r][u] \in {"refused", "accepted"}
  <2>1. CASE <<r, u>> = <<s, t>>
    BY <1>1, <1>3, <2>1 DEF Charges
  <2>2. CASE <<r, u>> # <<s, t>>
    BY <1>1, <1>3, <2>2 DEF Moves, CountInv
  <2> QED BY <2>1, <2>2
<1>4. ASSUME NEW e \in Endpoints, row'[e] # NoRow
      PROVE  /\ row'[e].failures <= Cardinality(FailedJobs(e)')
             /\ row'[e].disabled => Cardinality(FailedJobs(e)') >= MaxFailures
  <2>1. /\ IsFiniteSet(FailedJobs(e)') /\ Cardinality(FailedJobs(e)') \in Nat
    <3>1. FailedJobs(e)' \subseteq Counted'
      BY DEF FailedJobs, Counted, CountedStages
    <3> QED BY <1>2, <3>1, FS_Subset, FS_CardinalityType
  <2>2. IsFiniteSet(FailedJobs(e)) /\ Cardinality(FailedJobs(e)) \in Nat
    BY FailedJobsFinite DEF CountInv
  <2>3. \/ row'[e] = row[e] /\ row[e] # NoRow
        \/ StillThere(s, t) /\ t[2] = e /\ row'[e] = Succeeded(s, t)
        \/ /\ StillThere(s, t) /\ t[2] = e /\ row'[e] = Failed(s, t)
           /\ job[s][t] = "markFailure"
    BY <1>1, <1>4 DEF Books, Succeeded, Failed
  <2>4. row[e] \in Rows
    BY <2>3 DEF StillThere, Inv, TypeOK
  <2>5. row[e] # NoRow
    BY <2>4, NoRowAssumption
  <2>6. /\ row[e].failures \in Nat /\ row[e].failures <= Cardinality(FailedJobs(e))
        /\ row[e].disabled => Cardinality(FailedJobs(e)) >= MaxFailures
    BY <2>4, <2>5 DEF CountInv, Rows
  <2>7. CASE row'[e] = row[e]
    <3>1. FailedJobs(e) \subseteq FailedJobs(e)'
      BY <1>1, <2>7, StaysCounted
    <3>2. Cardinality(FailedJobs(e)) <= Cardinality(FailedJobs(e)')
      BY <2>1, <3>1, FS_Subset
    <3> QED BY <2>1, <2>2, <2>6, <2>7, <3>2, MaxFailuresAssumption
  <2>8. CASE StillThere(s, t) /\ t[2] = e /\ row'[e] = Succeeded(s, t)
    <3>1. row'[e] = [row[e] EXCEPT !.failures = 0]
      BY <2>8 DEF Succeeded
    <3>2. row'[e].id = row[e].id /\ row'[e].failures = 0 /\ row'[e].disabled = row[e].disabled
      BY <2>4, <3>1 DEF Rows
    <3>3. FailedJobs(e) \subseteq FailedJobs(e)'
      BY <1>1, <3>2, StaysCounted
    <3>4. Cardinality(FailedJobs(e)) <= Cardinality(FailedJobs(e)')
      BY <2>1, <3>3, FS_Subset
    <3> QED BY <2>1, <2>2, <2>6, <3>2, <3>4, MaxFailuresAssumption
  <2>9. CASE /\ StillThere(s, t) /\ t[2] = e /\ row'[e] = Failed(s, t)
             /\ job[s][t] = "markFailure"
    <3>1. row'[e] = [row[e] EXCEPT !.failures = @ + 1,
                                   !.disabled = @ \/ row[e].failures + 1 >= MaxFailures]
      BY <2>9 DEF Failed
    <3>2. /\ row'[e].id = row[e].id /\ row'[e].failures = row[e].failures + 1
          /\ row'[e].disabled => row[e].disabled \/ row[e].failures + 1 >= MaxFailures
      BY <2>4, <3>1 DEF Rows
    <3>3. FailedJobs(e) \subseteq FailedJobs(e)'
      BY <1>1, <3>2, StaysCounted
    <3>4. <<s, t>> \notin FailedJobs(e)
      BY <2>9 DEF FailedJobs
    <3>5. <<s, t>> \in FailedJobs(e)'
      <4>1. ident'[s][t] = row'[e].id
        BY <1>1, <2>9, <3>2 DEF StillThere, Moves
      <4>2. job'[s][t] \in {"logFailed", "failed", "threw"} /\ answer'[s][t] = answer[s][t]
        BY <1>1, <2>9 DEF Charges, CountedStages
      <4>3. answer[s][t] \in {"refused", "accepted"}
        BY <2>9 DEF CountInv
      <4> QED BY <2>9, <4>1, <4>2, <4>3 DEF FailedJobs
    <3>6. FailedJobs(e) \cup {<<s, t>>} \subseteq FailedJobs(e)'
      BY <3>3, <3>5
    <3>7. Cardinality(FailedJobs(e) \cup {<<s, t>>}) = Cardinality(FailedJobs(e)) + 1
      BY <2>2, <3>4, FS_AddElement
    <3>8. Cardinality(FailedJobs(e)) + 1 <= Cardinality(FailedJobs(e)')
      BY <2>1, <3>6, <3>7, FS_Subset
    <3> QED BY <2>1, <2>2, <2>6, <3>2, <3>8, MaxFailuresAssumption
  <2> QED BY <2>3, <2>7, <2>8, <2>9
<1> QED BY <1>2, <1>3, <1>4 DEF CountInv

\* So does a step that moves no counted job, and only renews or removes rows.
LEMMA QuietCount ==
    ASSUME Inv, CountInv, answer' = answer,
           \A s \in Sends, t \in Slots :
               \/ job'[s][t] = job[s][t] /\ ident'[s][t] = ident[s][t]
               \/ job[s][t] = "none" /\ job'[s][t] \in {"none", "todo"},
           \A e \in Endpoints : \/ row'[e] = row[e] \/ row'[e] = NoRow
                                \/ row'[e].failures = 0 /\ row'[e].disabled = FALSE
    PROVE  CountInv'
<1>1. \A s \in Sends, t \in Slots : job'[s][t] \in CountedStages \/ job[s][t] \in CountedStages =>
          job'[s][t] = job[s][t] /\ ident'[s][t] = ident[s][t]
  BY DEF CountedStages
<1>2. Counted' = Counted
  BY <1>1 DEF Counted
<1>3. IsFiniteSet(Counted')
  BY <1>2 DEF CountInv
<1>4. \A s \in Sends, t \in Slots :
          job'[s][t] = "markFailure" => answer'[s][t] \in {"refused", "accepted"}
  BY DEF CountInv
<1>5. ASSUME NEW e \in Endpoints, row'[e] # NoRow
      PROVE  /\ row'[e].failures <= Cardinality(FailedJobs(e)')
             /\ row'[e].disabled => Cardinality(FailedJobs(e)') >= MaxFailures
  <2>1. CASE row'[e] = row[e]
    <3>1. FailedJobs(e)' = FailedJobs(e)
      BY <1>1, <2>1 DEF FailedJobs, CountedStages
    <3> QED BY <1>5, <2>1, <3>1 DEF CountInv
  <2>2. CASE row'[e].failures = 0 /\ row'[e].disabled = FALSE
    <3>1. FailedJobs(e)' \subseteq Counted'
      BY DEF FailedJobs, Counted, CountedStages
    <3>2. Cardinality(FailedJobs(e)') \in Nat
      BY <1>3, <3>1, FS_Subset, FS_CardinalityType
    <3> QED BY <2>2, <3>2
  <2> QED BY <1>5, <2>1, <2>2
<1> QED BY <1>3, <1>4, <1>5 DEF CountInv

\* Nothing is counted at first.
LEMMA InitCount == Init => CountInv
<1> SUFFICES ASSUME Init PROVE CountInv
  OBVIOUS
<1>1. Counted = {}
  BY DEF Init, Counted, CountedStages
<1>2. IsFiniteSet(Counted)
  BY <1>1, FS_EmptySet
<1> QED BY <1>2 DEF Init, CountInv

\* Every step keeps the books.
LEMMA NextCount == Inv /\ CountInv /\ [Next]_vars => CountInv'
<1> SUFFICES ASSUME Inv, CountInv, [Next]_vars PROVE CountInv'
  OBVIOUS
<1>0. /\ row \in [Endpoints -> Rows \cup {NoRow}]
      /\ ident \in [Sends -> [Slots -> 0 .. MaxId]] /\ job \in [Sends -> [Slots -> Stages]]
  BY DEF Inv, TypeOK
<1>1. ASSUME NEW e \in Endpoints, NEW u \in Users, Register(e, u) PROVE CountInv'
  <2>1. UNCHANGED <<ident, job, answer>>
    BY <1>1 DEF Register, sending
  <2>2. PICK id : row' = [row EXCEPT ![e] = NewRow(id, u)]
    BY <1>1 DEF Register
  <2>3. \A f \in Endpoints : \/ row'[f] = row[f]
                             \/ row'[f].failures = 0 /\ row'[f].disabled = FALSE
    BY <1>0, <2>2 DEF NewRow
  <2> QED BY <2>1, <2>3, QuietCount
<1>2. ASSUME NEW e \in Endpoints, Unregister(e) \/ ChannelDies(e) PROVE CountInv'
  <2>1. UNCHANGED <<ident, job, answer>>
    BY <1>2 DEF Unregister, ChannelDies, sending
  <2>2. \A f \in Endpoints : row'[f] = row[f] \/ row'[f] = NoRow
    BY <1>0, <1>2 DEF Unregister, ChannelDies
  <2> QED BY <2>1, <2>2, QuietCount
<1>3. ASSUME NEW s \in Sends, NEW q \in Queries[s], Request(s, q) PROVE CountInv'
  <2>1. UNCHANGED <<row, ident, job, answer>>
    BY <1>3 DEF Request
  <2> QED BY <2>1, QuietCount
<1>4. ASSUME NEW s \in Sends, LookupFails(s) PROVE CountInv'
  <2>1. UNCHANGED <<row, ident, job, answer>>
    BY <1>4 DEF LookupFails
  <2> QED BY <2>1, QuietCount
<1>5. ASSUME NEW s \in Sends, NEW k \in Positions, Lookup(s, k) PROVE CountInv'
  <2>1. phase[s] = "lookup" /\ row' = row /\ answer' = answer
    BY <1>5 DEF Lookup
  <2>2. \A t \in Slots : job[s][t] = "none"
    BY <2>1 DEF Inv, PhaseMatchesJobs
  <2>3. PICK found : ident' = [ident EXCEPT ![s] = found]
    BY <1>5 DEF Lookup
  <2>4. \/ job' = job
        \/ \E targets : job' = [job EXCEPT ![s] =
                                   [t \in Slots |-> IF t \in targets THEN "todo" ELSE "none"]]
    BY <1>5 DEF Lookup
  <2>5. ASSUME NEW r \in Sends, NEW t \in Slots
        PROVE  \/ job'[r][t] = job[r][t] /\ ident'[r][t] = ident[r][t]
               \/ job[r][t] = "none" /\ job'[r][t] \in {"none", "todo"}
    <3>1. CASE r # s
      BY <1>0, <2>3, <2>4, <3>1
    <3>2. CASE r = s
      <4>1. job'[s][t] \in {"none", "todo"}
        BY <1>0, <2>2, <2>4
      <4> QED BY <2>2, <3>2, <4>1
    <3> QED BY <3>1, <3>2
  <2> QED BY <2>1, <2>5, QuietCount
<1>6. ASSUME NEW s \in Sends, NEW t \in Slots, JobStep(s, t) PROVE CountInv'
  BY <1>6, JobStepCount
<1>7. CASE UNCHANGED vars
  BY <1>7, QuietCount DEF vars
<1> QED BY <1>1, <1>2, <1>3, <1>4, <1>5, <1>6, <1>7 DEF Next, LookupStep

\* A row is disabled only after MAX_FAILURES jobs on this very row failed, whatever
\* sends, registrations and failing database calls interleave (repository.ts:215-224).
THEOREM DisabledAfterFailuresHolds == Spec => []DisabledAfterFailures
<1>1. CountInv => DisabledAfterFailures
  BY DEF CountInv, DisabledAfterFailures
<1> QED BY <1>1, InitCount, NextCount, Invariance, PTL DEF Spec

\* A row is disabled exactly when enough of its jobs failed (repository.ts:208-224).
THEOREM DisabledAtThresholdHolds == Spec => []DisabledAtThreshold
BY ThresholdDisablesHolds, DisabledAfterFailuresHolds, PTL DEF DisabledAtThreshold


-----------------------------------------------------------------------------
(* The pool of every send *)

Registered == {e \in Endpoints : row[e] # NoRow}
Targets(s) == {t \in Slots : ident[s][t] # 0}
DeadJobs(s) == {t \in Slots : job[s][t] = "threw"}

\* A send has finitely many jobs, those that run or have killed their worker are no
\* more than its workers, and it waits as long as one has not ended.
PoolOf(s) ==
    /\ IsFiniteSet(Targets(s))
    /\ Jobs(s) \subseteq Targets(s)
    /\ Cardinality(Running(s)) + Dead(s) <= Workers(s)
    /\ phase[s] \in {"new", "lookup", "nobody"} => Jobs(s) = {}
    /\ phase[s] = "sending" => \E t \in Jobs(s) : job[s][t] \notin Ended

PoolInv == IsFiniteSet(Registered) /\ \A s \in Sends : PoolOf(s)

\* The parts of a pool are finite.
LEMMA PoolIsFinite ==
    ASSUME PoolInv, NEW s \in Sends
    PROVE  /\ IsFiniteSet(Jobs(s)) /\ IsFiniteSet(Running(s)) /\ IsFiniteSet(DeadJobs(s))
           /\ Cardinality(Jobs(s)) \in Nat /\ Cardinality(Running(s)) \in Nat /\ Dead(s) \in Nat
           /\ Dead(s) = Cardinality(DeadJobs(s))
           /\ Workers(s) \in Nat
<1>1. IsFiniteSet(Jobs(s))
  BY FS_Subset DEF PoolInv, PoolOf
<1>2. Running(s) \subseteq Jobs(s) /\ DeadJobs(s) \subseteq Jobs(s)
  BY DEF Running, DeadJobs, Jobs
<1>3. IsFiniteSet(Running(s)) /\ IsFiniteSet(DeadJobs(s))
  BY <1>1, <1>2, FS_Subset
<1>4. Dead(s) = Cardinality(DeadJobs(s))
  BY DEF Dead, DeadJobs
<1>5. /\ Cardinality(Jobs(s)) \in Nat /\ Cardinality(Running(s)) \in Nat
      /\ Cardinality(DeadJobs(s)) \in Nat
  BY <1>1, <1>3, FS_CardinalityType
<1>6. Workers(s) \in Nat
  BY <1>5, LimitAssumption DEF Workers
<1> QED BY <1>1, <1>3, <1>4, <1>5, <1>6

\* No send has a job at first.
LEMMA InitPool == Init => PoolInv
<1> SUFFICES ASSUME Init PROVE PoolInv
  OBVIOUS
<1>1. IsFiniteSet(Registered)
  <2>1. Registered = {}
    BY DEF Init, Registered
  <2> QED BY <2>1, FS_EmptySet
<1>2. ASSUME NEW s \in Sends
      PROVE  /\ Targets(s) = {} /\ Jobs(s) = {} /\ Running(s) = {} /\ DeadJobs(s) = {}
             /\ phase[s] = "new"
  BY DEF Init, Targets, Jobs, Running, DeadJobs
<1>3. ASSUME NEW s \in Sends PROVE Cardinality(Running(s)) + Dead(s) <= Workers(s)
  <2>1. Cardinality(Running(s)) = 0 /\ Dead(s) = 0 /\ Cardinality(Jobs(s)) = 0
    BY <1>2, FS_EmptySet DEF Dead, DeadJobs
  <2> QED BY <2>1, LimitAssumption DEF Workers
<1> QED BY <1>1, <1>2, <1>3, FS_EmptySet DEF PoolInv, PoolOf

\* What a send that makes no step keeps of its pool.
Rests(s) == job'[s] = job[s] /\ ident'[s] = ident[s] /\ phase'[s] = phase[s]

LEMMA RestsPool ==
    ASSUME PoolInv, NEW s \in Sends, Rests(s)
    PROVE  PoolOf(s)'
<1>1. PoolOf(s)
  BY DEF PoolInv, PoolOf
<1>2. /\ Targets(s)' = Targets(s) /\ Jobs(s)' = Jobs(s) /\ Running(s)' = Running(s)
      /\ Dead(s)' = Dead(s)
  BY DEF Rests, Targets, Jobs, Running, Dead
<1>3. Workers(s)' = Workers(s)
  BY <1>2 DEF Workers
<1> QED BY <1>1, <1>2, <1>3 DEF PoolOf, Rests

\* A job that goes on, or starts where a worker is free, keeps the pool.
LEMMA GotoPool ==
    ASSUME Inv, PoolInv, NEW s \in Sends, NEW t \in Slots,
           NEW stage \in Stages \ {"none", "todo"}, Goto(s, t, stage),
           job[s][t] \notin {"none"} \cup Ended,
           job[s][t] = "todo" => Cardinality(Running(s)) + Dead(s) < Workers(s)
    PROVE  \A r \in Sends : PoolOf(r)'
<1>1. /\ job' = [job EXCEPT ![s][t] = stage] /\ ident' = ident
      /\ job \in [Sends -> [Slots -> Stages]]
  BY DEF Goto, Inv, TypeOK
<1>2. ASSUME NEW r \in Sends, r # s PROVE PoolOf(r)'
  <2>1. Rests(r)
    BY <1>1, <1>2 DEF Rests, Goto, Inv, TypeOK
  <2> QED BY <2>1, RestsPool
<1>3. /\ job'[s][t] = stage
      /\ \A u \in Slots : u # t => job'[s][u] = job[s][u]
  BY <1>1
<1>4. Jobs(s)' = Jobs(s) /\ t \in Jobs(s) /\ Targets(s)' = Targets(s)
  BY <1>1, <1>3 DEF Jobs, Targets
<1>5. Workers(s)' = Workers(s)
  BY <1>4 DEF Workers
<1>6. Cardinality(Running(s)') + Cardinality(DeadJobs(s)') <= Workers(s)
  <2>0. /\ Cardinality(Running(s)) + Cardinality(DeadJobs(s)) <= Workers(s)
        /\ job[s][t] = "todo" => Cardinality(Running(s)) + Cardinality(DeadJobs(s)) < Workers(s)
        /\ IsFiniteSet(Running(s)) /\ IsFiniteSet(DeadJobs(s))
        /\ Cardinality(Running(s)) \in Nat /\ Cardinality(DeadJobs(s)) \in Nat
        /\ Workers(s) \in Nat
    BY PoolIsFinite DEF PoolInv, PoolOf
  <2>1. /\ t \notin DeadJobs(s)
        /\ t \in Running(s) <=> job[s][t] # "todo"
    BY DEF DeadJobs, Running, Ended
  <2>2. CASE stage = "threw"
    <3>1. Running(s)' = Running(s) \ {t}
      BY <1>3, <2>2 DEF Running, Ended
    <3>2. DeadJobs(s)' = DeadJobs(s) \cup {t}
      BY <1>3, <2>2 DEF DeadJobs
    <3>3. Cardinality(Running(s)') = IF t \in Running(s) THEN Cardinality(Running(s)) - 1
                                                         ELSE Cardinality(Running(s))
      BY <2>0, <3>1, FS_RemoveElement
    <3>4. Cardinality(DeadJobs(s)') = Cardinality(DeadJobs(s)) + 1
      BY <2>0, <2>1, <3>2, FS_AddElement
    <3> QED BY <2>0, <2>1, <3>3, <3>4
  <2>3. CASE stage \in Ended \ {"threw"}
    <3>1. Running(s)' = Running(s) \ {t}
      BY <1>3, <2>3 DEF Running, Ended
    <3>2. DeadJobs(s)' = DeadJobs(s)
      BY <1>3, <2>1, <2>3 DEF DeadJobs
    <3>3. Cardinality(Running(s)') \in {Cardinality(Running(s)) - 1, Cardinality(Running(s))}
      BY <2>0, <3>1, FS_RemoveElement
    <3> QED BY <2>0, <3>2, <3>3
  <2>4. CASE stage \notin Ended
    <3>1. Running(s)' = Running(s) \cup {t}
      BY <1>3, <2>4 DEF Running, Ended
    <3>2. DeadJobs(s)' = DeadJobs(s)
      BY <1>3, <2>1, <2>4 DEF DeadJobs, Ended
    <3>3. Cardinality(Running(s)') = IF t \in Running(s) THEN Cardinality(Running(s))
                                                         ELSE Cardinality(Running(s)) + 1
      BY <2>0, <3>1, FS_AddElement
    <3> QED BY <2>0, <2>1, <3>2, <3>3
  <2> QED BY <2>2, <2>3, <2>4
<1>7. Cardinality(Running(s)') + Dead(s)' <= Workers(s)'
  <2>1. Dead(s)' = Cardinality(DeadJobs(s)')
    BY DEF Dead, DeadJobs
  <2> QED BY <1>5, <1>6, <2>1
<1>8. /\ phase'[s] \in {"new", "lookup", "nobody"} => phase'[s] = phase[s]
      /\ phase'[s] = "sending" => ~ \A x \in Slots : job'[s][x] \in {"none"} \cup Ended
  <2>1. phase \in [Sends -> {"new", "lookup", "nobody", "sending", "resolved", "rejected"}]
    BY DEF Inv, TypeOK
  <2>2. phase'[s] = IF phase[s] # "sending" THEN phase[s]
                    ELSE IF stage = "threw" THEN "rejected"
                    ELSE IF \A x \in Slots : job'[s][x] \in {"none"} \cup Ended THEN "resolved"
                    ELSE phase[s]
    BY <2>1 DEF Goto
  <2> QED BY <2>2
<1>9. PoolOf(s)'
  <2>1. PoolOf(s)
    BY DEF PoolInv, PoolOf
  <2>2. phase'[s] = "sending" => \E x \in Jobs(s)' : job'[s][x] \notin Ended
    BY <1>8 DEF Jobs
  <2> QED BY <1>4, <1>7, <1>8, <2>1, <2>2 DEF PoolOf
<1> QED BY <1>2, <1>9

\* The registered endpoints stay finitely many.
LEMMA RegisteredStaysFinite ==
    ASSUME IsFiniteSet(Registered), NEW e \in Endpoints,
           \A f \in Endpoints : f # e => row'[f] = row[f]
    PROVE  IsFiniteSet(Registered')
<1>1. Registered' \subseteq Registered \cup {e}
  BY DEF Registered
<1> QED BY <1>1, FS_AddElement, FS_Subset

\* A target that is still to do can only be started.
LEMMA TodoStarts ==
    ASSUME NEW s \in Sends, NEW t \in Slots, JobStep(s, t), job[s][t] = "todo"
    PROVE  StartJob(s, t)
<1>1. ~(PushAccepted(s, t) \/ PushGone(s, t) \/ PushRefused(s, t))
  BY DEF PushAccepted, PushGone, PushRefused, Answered
<1>2. ~(MarkSuccess(s, t) \/ Prune(s, t) \/ MarkFailure(s, t))
  BY DEF MarkSuccess, Prune, MarkFailure, BookOnRow
<1>3. ~(LogSent(s, t) \/ LogExpired(s, t) \/ LogFailed(s, t))
  BY DEF LogSent, LogExpired, LogFailed, BookInLog
<1> QED BY <1>1, <1>2, <1>3 DEF JobStep

\* A step of a job, as one of its pool.
LEMMA JobStepGoes ==
    ASSUME Inv, NEW s \in Sends, NEW t \in Slots, JobStep(s, t)
    PROVE  /\ \E stage \in Stages \ {"none", "todo"} : Goto(s, t, stage)
           /\ job[s][t] \notin {"none"} \cup Ended
           /\ job[s][t] = "todo" => Cardinality(Running(s)) + Dead(s) < Workers(s)
           /\ \A f \in Endpoints : f # t[2] => row'[f] = row[f]
<1>s. {"markSuccess", "logSent", "markFailure", "logFailed", "threw", "prune", "logExpired",
       "sent", "expired", "failed", "push"} \subseteq Stages \ {"none", "todo"}
  BY DEF Stages, Ended
<1>1. job[s][t] \notin {"none"} \cup Ended
  BY JobStepFacts DEF Charges
<1>2. \E stage \in Stages \ {"none", "todo"} : Goto(s, t, stage)
  <2>1. CASE StartJob(s, t)
    BY <1>s, <2>1 DEF StartJob
  <2>2. CASE PushAccepted(s, t) \/ PushGone(s, t) \/ PushRefused(s, t)
    BY <1>s, <2>2 DEF PushAccepted, PushGone, PushRefused, Answered
  <2>3. CASE MarkSuccess(s, t) \/ Prune(s, t) \/ MarkFailure(s, t)
    BY <1>s, <2>3 DEF MarkSuccess, Prune, MarkFailure, BookOnRow
  <2>4. CASE LogSent(s, t) \/ LogExpired(s, t) \/ LogFailed(s, t)
    BY <1>s, <2>4 DEF LogSent, LogExpired, LogFailed, BookInLog
  <2> QED BY <2>1, <2>2, <2>3, <2>4 DEF JobStep
<1>3. job[s][t] = "todo" => Cardinality(Running(s)) + Dead(s) < Workers(s)
  BY TodoStarts DEF StartJob
<1>4. ASSUME NEW f \in Endpoints, f # t[2] PROVE row'[f] = row[f]
  <2>1. CASE row' = row
    BY <2>1
  <2>2. CASE MarkSuccess(s, t) \/ Prune(s, t) \/ MarkFailure(s, t)
    BY <1>4, <2>2 DEF MarkSuccess, Prune, MarkFailure, BookOnRow, Inv, TypeOK
  <2>3. row' = row \/ MarkSuccess(s, t) \/ Prune(s, t) \/ MarkFailure(s, t)
    BY DEF JobStep, StartJob, PushAccepted, PushGone, PushRefused, Answered,
           LogSent, LogExpired, LogFailed, BookInLog
  <2> QED BY <2>1, <2>2, <2>3
<1> QED BY <1>1, <1>2, <1>3, <1>4

\* A lookup adds finitely many targets to those found before.
LEMMA TargetsStayFinite ==
    ASSUME Inv, PoolInv, NEW s \in Sends, NEW k \in Positions, Lookup(s, k)
    PROVE  IsFiniteSet(Targets(s)')
<1>1. IsFiniteSet({k} \X Registered)
  <2>1. IsFiniteSet({k}) /\ IsFiniteSet(Registered)
    BY FS_Singleton DEF PoolInv
  <2> QED BY <2>1, FS_Product
<1>2. ident'[s] = Found(s, k)
  BY DEF Lookup, Inv, TypeOK
<1>3. Targets(s)' \subseteq Targets(s) \cup ({k} \X Registered)
  <2> SUFFICES ASSUME NEW t \in Slots, ident'[s][t] # 0, ident[s][t] = 0
               PROVE  t \in {k} \X Registered
    BY DEF Targets
  <2>1. t[1] = k /\ t[2] \in FindActive(query[s][k])
    BY <1>2 DEF Found
  <2>2. t = <<t[1], t[2]>> /\ t[2] \in Registered
    BY <2>1 DEF Slots, FindActive, Registered
  <2> QED BY <2>1, <2>2
<1>4. IsFiniteSet(Targets(s) \cup ({k} \X Registered))
  BY <1>1, FS_Union DEF PoolInv, PoolOf
<1> QED BY <1>3, <1>4, FS_Subset

\* What a lookup does to the send: it waits for another, or starts the pool with all
\* its jobs to do.
LEMMA LookupPool ==
    ASSUME Inv, PoolInv, NEW s \in Sends, NEW k \in Positions, Lookup(s, k)
    PROVE  /\ \A r \in Sends : PoolOf(r)'
           /\ \A r \in Sends : r # s => Rests(r)
           /\ Jobs(s) = {}
           /\ \A t \in Jobs(s)' : job'[s][t] = "todo"
           /\ Jobs(s)' = {} \/ phase'[s] = "sending"
<1>0. /\ phase[s] = "lookup" /\ job \in [Sends -> [Slots -> Stages]]
      /\ ident \in [Sends -> [Slots -> 0 .. MaxId]]
      /\ phase \in [Sends -> {"new", "lookup", "nobody", "sending", "resolved", "rejected"}]
  BY DEF Lookup, Inv, TypeOK
<1>1. Jobs(s) = {}
  BY <1>0 DEF PoolInv, PoolOf
<1>2. ASSUME NEW r \in Sends, r # s PROVE Rests(r)
  BY <1>0, <1>2 DEF Lookup, Rests
<1>3. ident'[s] = Found(s, k)
  BY <1>0 DEF Lookup
<1>4. \/ job' = job /\ phase' = phase
      \/ /\ \A t \in Slots : job'[s][t] = IF t \in Targets(s)' THEN "todo" ELSE "none"
         /\ phase'[s] = IF Targets(s)' = {} THEN "nobody" ELSE "sending"
  BY <1>0, <1>3 DEF Lookup, Targets
<1>5. CASE job' = job /\ phase' = phase
  <2>1. Jobs(s)' = {} /\ phase'[s] = "lookup" /\ Running(s)' = Running(s) /\ Dead(s)' = Dead(s)
    BY <1>0, <1>1, <1>5 DEF Jobs, Running, Dead
  <2>2. Workers(s)' = Workers(s)
    BY <1>1, <2>1 DEF Workers
  <2>3. PoolOf(s)'
    BY <2>1, <2>2, TargetsStayFinite DEF PoolInv, PoolOf
  <2> QED BY <1>1, <1>2, <2>1, <2>3, RestsPool
<1>6. CASE /\ \A t \in Slots : job'[s][t] = IF t \in Targets(s)' THEN "todo" ELSE "none"
           /\ phase'[s] = IF Targets(s)' = {} THEN "nobody" ELSE "sending"
  <2>1. /\ Jobs(s)' = Targets(s)' /\ Running(s)' = {}
        /\ {t \in Slots : job'[s][t] = "threw"} = {}
        /\ \A t \in Jobs(s)' : job'[s][t] = "todo"
    BY <1>6 DEF Jobs, Targets, Running
  <2>2. Cardinality(Running(s)') + Dead(s)' <= Workers(s)'
    <3>1. Cardinality(Running(s)') = 0 /\ Dead(s)' = 0
      BY <2>1, FS_EmptySet DEF Dead
    <3>2. Cardinality(Jobs(s)') \in Nat
      BY <2>1, TargetsStayFinite, FS_CardinalityType
    <3> QED BY <3>1, <3>2, LimitAssumption DEF Workers
  <2>3. PoolOf(s)'
    BY <1>6, <2>1, <2>2, TargetsStayFinite DEF PoolOf, Ended
  <2> QED BY <1>1, <1>2, <1>6, <2>1, <2>3, RestsPool
<1> QED BY <1>4, <1>5, <1>6

\* Every step keeps the pools.
LEMMA NextPool == Inv /\ PoolInv /\ [Next]_vars => PoolInv'
<1> SUFFICES ASSUME Inv, PoolInv, [Next]_vars PROVE PoolInv'
  OBVIOUS
<1>0. /\ row \in [Endpoints -> Rows \cup {NoRow}] /\ IsFiniteSet(Registered)
      /\ phase \in [Sends -> {"new", "lookup", "nobody", "sending", "resolved", "rejected"}]
  BY DEF Inv, TypeOK, PoolInv
<1>1. ASSUME NEW e \in Endpoints,
             (\E u \in Users : Register(e, u)) \/ Unregister(e) \/ ChannelDies(e)
      PROVE  PoolInv'
  <2>1. UNCHANGED sending /\ \A f \in Endpoints : f # e => row'[f] = row[f]
    BY <1>0, <1>1 DEF Register, Unregister, ChannelDies
  <2>2. \A s \in Sends : Rests(s)
    BY <2>1 DEF sending, Rests
  <2> QED BY <1>0, <2>1, <2>2, RestsPool, RegisteredStaysFinite DEF PoolInv
<1>2. ASSUME NEW s \in Sends, (\E q \in Queries[s] : Request(s, q)) \/ LookupFails(s)
      PROVE  PoolInv'
  <2>1. UNCHANGED <<row, ident, job>> /\ phase[s] \in {"new", "lookup"}
    BY <1>2 DEF Request, LookupFails
  <2>2. \A r \in Sends : r # s => Rests(r)
    BY <1>0, <1>2, <2>1 DEF Request, LookupFails, Rests
  <2>3. PoolOf(s)'
    <3>1. PoolOf(s) /\ Jobs(s) = {}
      BY <2>1 DEF PoolInv, PoolOf
    <3>2. /\ Targets(s)' = Targets(s) /\ Jobs(s)' = Jobs(s) /\ Running(s)' = Running(s)
          /\ Dead(s)' = Dead(s)
      BY <2>1 DEF Targets, Jobs, Running, Dead
    <3>3. Workers(s)' = Workers(s)
      BY <3>2 DEF Workers
    <3>4. phase'[s] # "sending"
      BY <1>0, <1>2 DEF Request, LookupFails
    <3> QED BY <3>1, <3>2, <3>3, <3>4 DEF PoolOf
  <2>4. Registered' = Registered
    BY <2>1 DEF Registered
  <2> QED BY <1>0, <2>2, <2>3, <2>4, RestsPool DEF PoolInv
<1>3. ASSUME NEW s \in Sends, NEW k \in Positions, Lookup(s, k) PROVE PoolInv'
  <2>1. Registered' = Registered
    BY <1>3 DEF Lookup, Registered
  <2> QED BY <1>0, <1>3, <2>1, LookupPool DEF PoolInv
<1>4. ASSUME NEW s \in Sends, NEW t \in Slots, JobStep(s, t) PROVE PoolInv'
  <2>1. PICK stage \in Stages \ {"none", "todo"} : Goto(s, t, stage)
    BY <1>4, JobStepGoes
  <2>2. /\ job[s][t] \notin {"none"} \cup Ended
        /\ job[s][t] = "todo" => Cardinality(Running(s)) + Dead(s) < Workers(s)
        /\ \A f \in Endpoints : f # t[2] => row'[f] = row[f]
    BY <1>4, JobStepGoes
  <2>3. \A r \in Sends : PoolOf(r)'
    BY <2>1, <2>2, GotoPool
  <2>4. t[2] \in Endpoints
    BY DEF Slots
  <2> QED BY <1>0, <2>2, <2>3, <2>4, RegisteredStaysFinite DEF PoolInv
<1>5. CASE UNCHANGED vars
  <2>1. Registered' = Registered /\ \A s \in Sends : Rests(s)
    BY <1>5 DEF vars, Registered, Rests
  <2> QED BY <1>0, <2>1, RestsPool DEF PoolInv
<1> QED BY <1>1, <1>2, <1>3, <1>4, <1>5 DEF Next, LookupStep

\* The pools' invariant (webpush.ts:43-58, concurrency.ts:15-24).
THEOREM PoolInvariance == Spec => []PoolInv
BY InitPool, NextPool, Invariance, PTL DEF Spec

-----------------------------------------------------------------------------
(* Refinement of ParallelMap *)

StatusBar(s) == [t \in Jobs(s) |-> StatusOf(s, t)]

\* The abstract module counts as this one does.
LEMMA SameCount == ASSUME NEW s PROVE \A S : Pool(s)!Cardinality(S) = Cardinality(S)
BY DEF Pool!Cardinality, Cardinality

\* The status of a job, by its stage.
LEMMA StatusFacts ==
    ASSUME NEW s \in Sends, NEW t \in Jobs(s)
    PROVE  /\ StatusOf(s, t) \in {"todo", "running", "ok", "failed"}
           /\ StatusOf(s, t) = "todo" <=> job[s][t] = "todo"
           /\ StatusOf(s, t) = "failed" <=> job[s][t] = "threw"
           /\ StatusOf(s, t) = "ok" <=> job[s][t] \in Ended \ {"threw"}
           /\ StatusOf(s, t) = "running" <=> t \in Running(s)
BY DEF StatusOf, Ended, Running, Jobs

\* What runs in the abstract map is what runs, and no more than its limit.
LEMMA PoolBound ==
    ASSUME PoolInv, NEW s \in Sends, Jobs(s) # {}
    PROVE  Pool(s)!Cardinality(Pool(s)!Running(StatusBar(s))) <= Pool(s)!Cap(Limit)
<1>1. Pool(s)!Running(StatusBar(s)) = Running(s)
  <2>1. Running(s) \subseteq Jobs(s)
    BY DEF Running, Jobs
  <2> QED BY <2>1, StatusFacts DEF Pool!Running, StatusBar
<1>2. Cardinality(Running(s)) <= Workers(s)
  BY PoolIsFinite DEF PoolInv, PoolOf
<1>3. Workers(s) <= Pool(s)!Cap(Limit)
  BY PoolIsFinite, LimitAssumption DEF Workers, Pool!Cap
<1>4. Workers(s) \in Nat /\ Pool(s)!Cap(Limit) \in Nat /\ Cardinality(Running(s)) \in Nat
  BY PoolIsFinite, LimitAssumption DEF Pool!Cap
<1>5. Cardinality(Running(s)) <= Pool(s)!Cap(Limit)
  BY <1>2, <1>3, <1>4
<1> QED BY <1>1, <1>5, SameCount

\* Where its jobs and its phase stay, so does the pool.
LEMMA RestsRefines ==
    ASSUME NEW s \in Sends, Rests(s)
    PROVE  UNCHANGED Pool(s)!vars
<1>1. Jobs(s)' = Jobs(s)
  BY DEF Rests, Jobs
<1>2. \A t \in Jobs(s) : StatusOf(s, t)' = StatusOf(s, t)
  BY DEF Rests, StatusOf
<1>3. PromiseOf(s)' = PromiseOf(s)
  BY <1>1 DEF Rests, PromiseOf
<1>4. [t \in Jobs(s) |-> StatusOf(s, t)]' = [t \in Jobs(s) |-> StatusOf(s, t)]
  BY <1>1, <1>2
<1> QED BY <1>1, <1>3, <1>4 DEF Pool!vars

\* The last lookup is the call.
LEMMA LookupRefines ==
    ASSUME Inv, PoolInv, PoolInv', NEW s \in Sends, NEW k \in Positions, Lookup(s, k)
    PROVE  [Pool(s)!Next]_(Pool(s)!vars)
<1>1. /\ Jobs(s) = {} /\ \A t \in Jobs(s)' : job'[s][t] = "todo"
      /\ Jobs(s)' = {} \/ phase'[s] = "sending"
  BY LookupPool
<1>2. CASE Jobs(s)' = {}
  <2>1. PromiseOf(s) = "none" /\ PromiseOf(s)' = "none"
    BY <1>1, <1>2 DEF PromiseOf
  <2>2. [t \in Jobs(s) |-> StatusOf(s, t)]' = [t \in Jobs(s) |-> StatusOf(s, t)]
    BY <1>1, <1>2
  <2> QED BY <1>1, <1>2, <2>1, <2>2 DEF Pool!vars
<1>3. CASE Jobs(s)' # {}
  <2>1. PromiseOf(s) = "none" /\ PromiseOf(s)' = "pending"
    BY <1>1, <1>3 DEF PromiseOf
  <2>2. \A t \in Jobs(s)' : StatusOf(s, t)' = "todo"
    BY <1>1 DEF StatusOf, Ended
  <2>3. StatusBar(s)' \in [Jobs(s)' -> {"todo", "running"}]
    BY <2>2 DEF StatusBar
  <2>4. Jobs(s)' \in SUBSET Slots
    BY DEF Jobs, Slots, Positions, AllQueries
  <2>5. Pool(s)!Outcome(StatusBar(s)', "pending") = "pending"
    BY <1>3, <2>2 DEF Pool!Outcome, StatusBar
  <2>6. Pool(s)!Cardinality(Pool(s)!Running(StatusBar(s)')) <= Pool(s)!Cap(Limit)
    <3>1. (PoolInv /\ Jobs(s) # {} =>
             Pool(s)!Cardinality(Pool(s)!Running(StatusBar(s))) <= Pool(s)!Cap(Limit))'
      BY PoolBound, PTL
    <3> QED BY <1>3, <3>1 DEF Pool!Cardinality, Pool!Running, Pool!Cap
  <2>7. Pool(s)!Call
    BY <1>1, <1>3, <2>1, <2>3, <2>4, <2>5, <2>6 DEF Pool!Call, StatusBar
  <2> QED BY <2>7 DEF Pool!Next
<1> QED BY <1>2, <1>3

\* The outcome of a pool is the one its send is answered with.
LEMMA GotoOutcome ==
    ASSUME Inv, PoolInv, NEW s \in Sends, NEW t \in Slots,
           NEW stage \in Stages \ {"none", "todo"}, Goto(s, t, stage),
           job[s][t] \notin {"none"} \cup Ended
    PROVE  /\ Jobs(s)' = Jobs(s) /\ t \in Jobs(s)
           /\ job'[s][t] = stage /\ \A u \in Slots : u # t => job'[s][u] = job[s][u]
           /\ PromiseOf(s) # "none"
           /\ PromiseOf(s)' = Pool(s)!Outcome(StatusBar(s)', PromiseOf(s))
<1>1. /\ job' = [job EXCEPT ![s][t] = stage]
      /\ job \in [Sends -> [Slots -> Stages]]
      /\ phase \in [Sends -> {"new", "lookup", "nobody", "sending", "resolved", "rejected"}]
  BY DEF Goto, Inv, TypeOK
<1>2. job'[s][t] = stage /\ \A u \in Slots : u # t => job'[s][u] = job[s][u]
  BY <1>1
<1>3. Jobs(s)' = Jobs(s) /\ t \in Jobs(s)
  BY <1>2 DEF Jobs
<1>4. phase[s] \in {"sending", "resolved", "rejected"}
  BY <1>1, <1>3 DEF PoolInv, PoolOf
<1>5. PromiseOf(s) = IF phase[s] = "sending" THEN "pending" ELSE phase[s]
  BY <1>3 DEF PromiseOf
<1>6. PromiseOf(s)' = IF phase'[s] = "sending" THEN "pending" ELSE phase'[s]
  BY <1>3 DEF PromiseOf
<1>7. phase'[s] = IF phase[s] # "sending" THEN phase[s]
                  ELSE IF stage = "threw" THEN "rejected"
                  ELSE IF \A x \in Slots : job'[s][x] \in {"none"} \cup Ended THEN "resolved"
                  ELSE phase[s]
  BY <1>1 DEF Goto
<1>8. PromiseOf(s)' = Pool(s)!Outcome(StatusBar(s)', PromiseOf(s))
  <2>1. CASE phase[s] # "sending"
    BY <1>4, <1>5, <1>6, <1>7, <2>1 DEF Pool!Outcome
  <2>2. CASE phase[s] = "sending"
    <3>1. DOMAIN StatusBar(s)' = Jobs(s) /\ \A u \in Jobs(s) : StatusBar(s)'[u] = StatusOf(s, u)'
      BY <1>3 DEF StatusBar
    <3>2. \A u \in Jobs(s) : /\ StatusOf(s, u)' = "failed" <=> job'[s][u] = "threw"
                             /\ StatusOf(s, u)' = "ok" <=> job'[s][u] \in Ended \ {"threw"}
      BY DEF StatusOf, Ended
    <3>3. \A u \in Slots : u # t => job'[s][u] # "threw"
      BY <1>2, <2>2 DEF Inv, PhaseMatchesJobs
    <3>4. CASE stage = "threw"
      <4>1. StatusBar(s)'[t] = "failed"
        BY <1>2, <1>3, <3>1, <3>2, <3>4
      <4> QED BY <1>3, <1>5, <1>6, <1>7, <2>2, <3>1, <3>4, <4>1 DEF Pool!Outcome
    <3>5. CASE stage # "threw"
      <4>1. \A u \in Jobs(s) : StatusBar(s)'[u] # "failed"
        BY <1>2, <3>1, <3>2, <3>3, <3>5 DEF Jobs
      <4>2. (\A u \in Jobs(s) : StatusBar(s)'[u] = "ok")
              <=> \A x \in Slots : job'[s][x] \in {"none"} \cup Ended
        <5>1. \A x \in Slots : x \in Jobs(s) <=> job'[s][x] # "none"
          BY <1>3 DEF Jobs
        <5>2. \A u \in Jobs(s) : u \in Slots /\ job'[s][u] # "threw"
          BY <1>2, <3>3, <3>5 DEF Jobs
        <5> QED BY <3>1, <3>2, <5>1, <5>2
      <4> QED BY <1>5, <1>6, <1>7, <2>2, <3>1, <3>5, <4>1, <4>2 DEF Pool!Outcome
    <3> QED BY <3>4, <3>5
  <2> QED BY <2>1, <2>2
<1>9. PromiseOf(s) # "none"
  BY <1>4, <1>5
<1> QED BY <1>2, <1>3, <1>8, <1>9

\* A step of a job is an advance.
LEMMA GotoRefines ==
    ASSUME Inv, PoolInv, PoolInv', NEW s \in Sends, NEW t \in Slots,
           NEW stage \in Stages \ {"none", "todo"}, Goto(s, t, stage),
           job[s][t] \notin {"none"} \cup Ended,
           job[s][t] = "todo" => stage \notin Ended
    PROVE  Pool(s)!Next
<1>1. /\ Jobs(s)' = Jobs(s) /\ t \in Jobs(s)
      /\ job'[s][t] = stage /\ \A u \in Slots : u # t => job'[s][u] = job[s][u]
      /\ PromiseOf(s) # "none"
      /\ PromiseOf(s)' = Pool(s)!Outcome(StatusBar(s)', PromiseOf(s))
  BY GotoOutcome
<1>2. DOMAIN StatusBar(s) = Jobs(s) /\ \A u \in Jobs(s) : StatusBar(s)[u] = StatusOf(s, u)
  BY DEF StatusBar
<1>3. \A u \in Jobs(s) : StatusBar(s)'[u] = StatusOf(s, u)'
  BY <1>1 DEF StatusBar
<1>4. StatusBar(s)' \in [Jobs(s) -> {"todo", "running", "ok", "failed"}]
  <2>1. \A u \in Jobs(s) : StatusOf(s, u)' \in {"todo", "running", "ok", "failed"}
    BY DEF StatusOf
  <2> QED BY <1>1, <2>1 DEF StatusBar
<1>5. ASSUME NEW u \in Jobs(s) PROVE Pool(s)!Follows(StatusBar(s)[u], StatusBar(s)'[u])
  <2>1. CASE u # t
    <3>1. job'[s][u] = job[s][u]
      BY <1>1, <2>1 DEF Jobs
    <3>2. StatusOf(s, u)' = StatusOf(s, u)
      BY <3>1 DEF StatusOf
    <3> QED BY <1>2, <1>3, <3>2 DEF Pool!Follows
  <2>2. CASE u = t
    <3>1. StatusOf(s, t)' \in {"running", "ok", "failed"}
      BY <1>1 DEF StatusOf
    <3>2. job[s][t] = "todo" => StatusOf(s, t) = "todo" /\ StatusOf(s, t)' = "running"
      BY <1>1 DEF StatusOf, Ended
    <3>3. job[s][t] # "todo" => StatusOf(s, t) = "running"
      BY <1>1 DEF StatusOf, Ended
    <3> QED BY <1>2, <1>3, <2>2, <3>1, <3>2, <3>3 DEF Pool!Follows
  <2> QED BY <2>1, <2>2
<1>6. Pool(s)!Cardinality(Pool(s)!Running(StatusBar(s)')) <= Pool(s)!Cap(Limit)
  <2>1. (PoolInv /\ Jobs(s) # {} =>
           Pool(s)!Cardinality(Pool(s)!Running(StatusBar(s))) <= Pool(s)!Cap(Limit))'
    BY PoolBound, PTL
  <2> QED BY <1>1, <2>1 DEF Pool!Cardinality, Pool!Running, Pool!Cap
<1>7. Jobs(s) # {} /\ Jobs(s)' # {}
  BY <1>1
<1>8. Pool(s)!Advance
  BY <1>1, <1>2, <1>4, <1>5, <1>6, <1>7 DEF Pool!Advance, StatusBar
<1> QED BY <1>8 DEF Pool!Next

\* Every step of the service is a step of each send's pool, or none.
LEMMA StepRefines ==
    ASSUME Inv, PoolInv, PoolInv', [Next]_vars, NEW r \in Sends
    PROVE  [Pool(r)!Next]_(Pool(r)!vars)
<1>0. phase \in [Sends -> {"new", "lookup", "nobody", "sending", "resolved", "rejected"}]
  BY DEF Inv, TypeOK
<1>1. ASSUME NEW e \in Endpoints,
             (\E u \in Users : Register(e, u)) \/ Unregister(e) \/ ChannelDies(e)
      PROVE  UNCHANGED Pool(r)!vars
  <2>1. Rests(r)
    BY <1>1 DEF Register, Unregister, ChannelDies, sending, Rests
  <2> QED BY <2>1, RestsRefines
<1>2. ASSUME NEW s \in Sends, (\E q \in Queries[s] : Request(s, q)) \/ LookupFails(s)
      PROVE  UNCHANGED Pool(r)!vars
  <2>1. CASE r # s
    <3>1. Rests(r)
      BY <1>0, <1>2, <2>1 DEF Request, LookupFails, Rests
    <3> QED BY <3>1, RestsRefines
  <2>2. CASE r = s
    <3>1. job' = job /\ phase[s] \in {"new", "lookup"}
      BY <1>2 DEF Request, LookupFails
    <3>2. Jobs(r) = {} /\ Jobs(r)' = {}
      BY <2>2, <3>1 DEF PoolInv, PoolOf, Jobs
    <3>3. PromiseOf(r) = "none" /\ PromiseOf(r)' = "none"
      BY <3>2 DEF PromiseOf
    <3>4. [t \in Jobs(r) |-> StatusOf(r, t)]' = [t \in Jobs(r) |-> StatusOf(r, t)]
      BY <3>2
    <3> QED BY <3>2, <3>3, <3>4 DEF Pool!vars
  <2> QED BY <2>1, <2>2
<1>3. ASSUME NEW s \in Sends, NEW k \in Positions, Lookup(s, k)
      PROVE  [Pool(r)!Next]_(Pool(r)!vars)
  <2>1. CASE r = s
    BY <1>3, <2>1, LookupRefines
  <2>2. CASE r # s
    <3>1. Rests(r)
      BY <1>3, <2>2, LookupPool
    <3> QED BY <3>1, RestsRefines
  <2> QED BY <2>1, <2>2
<1>4. ASSUME NEW s \in Sends, NEW t \in Slots, JobStep(s, t)
      PROVE  [Pool(r)!Next]_(Pool(r)!vars)
  <2>1. CASE r # s
    <3>1. PICK stage \in Stages \ {"none", "todo"} : Goto(s, t, stage)
      BY <1>4, JobStepGoes
    <3>2. Rests(r)
      BY <1>0, <2>1, <3>1 DEF Goto, Rests, Inv, TypeOK
    <3> QED BY <3>2, RestsRefines
  <2>2. CASE r = s
    <3>1. job[s][t] \notin {"none"} \cup Ended
      BY <1>4, JobStepGoes
    <3>2. CASE StartJob(s, t)
      <4>1. Goto(s, t, "push") /\ "push" \in Stages \ {"none", "todo"} /\ "push" \notin Ended
        BY <3>2 DEF StartJob, Stages, Ended
      <4> QED BY <2>2, <3>1, <4>1, GotoRefines
    <3>3. CASE job[s][t] # "todo"
      <4>1. PICK stage \in Stages \ {"none", "todo"} : Goto(s, t, stage)
        BY <1>4, JobStepGoes
      <4> QED BY <2>2, <3>1, <3>3, <4>1, GotoRefines
    <3>4. job[s][t] = "todo" => StartJob(s, t)
      BY <1>4, TodoStarts
    <3> QED BY <3>2, <3>3, <3>4
  <2> QED BY <2>1, <2>2
<1>5. CASE UNCHANGED vars
  <2>1. Rests(r)
    BY <1>5 DEF vars, Rests
  <2> QED BY <2>1, RestsRefines
<1> QED BY <1>1, <1>2, <1>3, <1>4, <1>5 DEF Next, LookupStep

\* The sends' jobs are bounded parallel maps, for every number of sends, targets and
\* workers (webpush.ts:43-58, concurrency.ts:1-25).
THEOREM SendsArePoolsHolds == Spec => SendsArePools
<1>1. Init => \A s \in Sends : Pool(s)!Init
  <2> SUFFICES ASSUME Init, NEW s \in Sends PROVE Pool(s)!Init
    OBVIOUS
  <2>1. Jobs(s) = {}
    BY DEF Init, Jobs
  <2>2. PromiseOf(s) = "none"
    BY <2>1 DEF PromiseOf
  <2> QED BY <2>1, <2>2 DEF Pool!Init
<1>2. Inv /\ PoolInv /\ PoolInv' /\ [Next]_vars =>
        [\A s \in Sends : [Pool(s)!Next]_(Pool(s)!vars)]_vars
  BY StepRefines
<1> QED BY <1>1, <1>2, Invariance, PoolInvariance, PTL DEF Spec, SendsArePools

-----------------------------------------------------------------------------
(* The safety behind SendsAreAnswered *)

\* A send that waits for its pool has a job that runs, or one to start and a worker
\* that is free to take it.
NoSendStalls ==
    \A s \in Sends : phase[s] = "sending" =>
        \/ Running(s) # {}
        \/ /\ \E t \in Slots : job[s][t] = "todo"
           /\ Cardinality(Running(s)) + Dead(s) < Workers(s)

\* No send comes to wait with nothing under way (webpush.ts:47-52,
\* concurrency.ts:15-24): with the fairness of the runs, it is answered.
THEOREM NoSendStallsHolds == Spec => []NoSendStalls
<1>1. Inv /\ PoolInv => NoSendStalls
  <2> SUFFICES ASSUME Inv, PoolInv, NEW s \in Sends, phase[s] = "sending", Running(s) = {}
               PROVE  /\ \E t \in Slots : job[s][t] = "todo"
                      /\ Cardinality(Running(s)) + Dead(s) < Workers(s)
    BY DEF NoSendStalls
  <2>1. PICK t \in Jobs(s) : job[s][t] \notin Ended
    BY DEF PoolInv, PoolOf
  <2>2. t \in Slots /\ job[s][t] = "todo"
    BY <2>1 DEF Jobs, Running
  <2>3. Dead(s) = 0 /\ Cardinality(Running(s)) = 0
    <3>1. {u \in Slots : job[s][u] = "threw"} = {}
      BY DEF Inv, PhaseMatchesJobs
    <3> QED BY <3>1, FS_EmptySet DEF Dead
  <2>4. Cardinality(Jobs(s)) \in Nat /\ Cardinality(Jobs(s)) # 0
    BY <2>1, PoolIsFinite, FS_EmptySet
  <2>5. Workers(s) > 0
    BY <2>4, LimitAssumption DEF Workers
  <2> QED BY <2>2, <2>3, <2>5
<1> QED BY <1>1, Invariance, PoolInvariance, PTL
=============================================================================
