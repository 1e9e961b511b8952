-------------------------- MODULE SchedulesProofs --------------------------
(***************************************************************************)
(* Theorems about Schedules, for every set of schedules, times, jobs and   *)
(* owners and every number of days, edits and faults.                      *)
(***************************************************************************)
EXTENDS Schedules, FiniteSetTheorems, TLAPS

USE DEF clock, bounds, history

-----------------------------------------------------------------------------
(***************************************************************************)
(* Rows of the table.                                                      *)
(***************************************************************************)

\* A row has a revision, which None and Deleted do not.
LEMMA RowFacts ==
  ASSUME NEW r \in Rows
  PROVE  /\ r \notin Absent
         /\ r.config \in Configs
         /\ r.ran \in Days \cup {0}
         /\ r.wait \in BOOLEAN
         /\ r.rev \in 1..MaxEdits + 1
         /\ r.rev \in Nat
  <1>1. /\ r.config \in Configs
        /\ r.ran \in Days \cup {0}
        /\ r.wait \in BOOLEAN
        /\ r.rev \in 1..MaxEdits + 1
    BY DEF Rows
  <1>2. r.rev \in Nat /\ r.rev # 0
    BY <1>1, SchedulesAssumption
  <1>3. None.rev = 0 /\ Deleted.rev = 0
    BY DEF None, Deleted
  <1> QED BY <1>1, <1>2, <1>3 DEF Absent

\* What save writes.
LEMMA SavedRow ==
  ASSUME NEW c \in Configs, NEW n \in Days \cup {0}, NEW v \in 1..MaxEdits + 1
  PROVE  [config |-> c, ran |-> n, wait |-> FALSE, rev |-> v] \in Rows
  BY DEF Rows

\* What the passing of retry_at makes of a row.
LEMMA RetriedRow ==
  ASSUME NEW r \in Rows
  PROVE  /\ [r EXCEPT !.wait = FALSE] \in Rows
         /\ [r EXCEPT !.wait = FALSE].config = r.config
         /\ [r EXCEPT !.wait = FALSE].rev = r.rev
         /\ [r EXCEPT !.wait = FALSE].ran = r.ran
  BY DEF Rows

-----------------------------------------------------------------------------
(***************************************************************************)
(* Types, with what the provers need beside them: a revision counts edits, *)
(* no run is in the future, and a round holds rows that it has read.       *)
(***************************************************************************)
Table == [Ids -> Rows \cup Absent]

RowInv ==
    \A i \in Ids : Exists(i) => row[i].rev <= edits /\ row[i].ran <= day

RoundInv ==
    /\ round.pc # "idle" =>
         /\ round.day <= day
         /\ \A i \in round.todo : round.read[i] \in Rows
    /\ round.pc = "store" =>
         /\ round.id \notin round.todo
         /\ round.read[round.id] \in Rows
         /\ round.data.rev = round.read[round.id].rev
         /\ round.data.config = round.read[round.id].config
         /\ round.data.ran \in {round.day, round.read[round.id].ran}

ReadInv ==
    \A i \in Ids : InRound(i) =>
        /\ round.read[i].ran # round.day
        /\ round.read[i].ran <= round.day
        /\ round.read[i].config.on

TypeInv == TypeOK /\ RowInv /\ RoundInv /\ ReadInv


\* The outcome of a submission as the round keeps it.
LEMMA OutcomeFacts ==
  ASSUME TypeInv, NEW i \in Ids, NEW ok \in BOOLEAN, round.pc = "rows",
         i \in round.todo, Outcome(i, ok)
  PROVE  /\ round'.pc = "store"
         /\ round'.todo = round.todo \ {i}
         /\ round'.read = round.read
         /\ round'.day = round.day
         /\ round'.id = i
         /\ round'.data \in Rows
         /\ round'.data.rev = round.read[i].rev
         /\ round'.data.config = round.read[i].config
         /\ round'.data.ran = IF ok THEN round.day ELSE round.read[i].ran
  <1> DEFINE r == round.read[i]
             data == IF ok THEN [r EXCEPT !.ran = round.day, !.wait = FALSE]
                     ELSE [r EXCEPT !.wait = TRUE]
  <1>1. r \in Rows /\ round.day \in Days
    BY DEF TypeInv, TypeOK, RoundInv
  <1> HIDE DEF r
  <1>2. /\ data \in Rows
        /\ data.rev = r.rev
        /\ data.config = r.config
        /\ data.ran = IF ok THEN round.day ELSE r.ran
    <2>1. CASE ok
      <3>1. data = [r EXCEPT !.ran = round.day, !.wait = FALSE]
        BY <2>1
      <3> QED BY <1>1, <2>1, <3>1 DEF Rows
    <2>2. CASE ~ok
      <3>1. data = [r EXCEPT !.wait = TRUE]
        BY <2>2
      <3> QED BY <1>1, <2>2, <3>1 DEF Rows
    <2> QED BY <2>1, <2>2
  <1>3. round' = [pc |-> "store", todo |-> round.todo \ {i},
                  read |-> round.read, day |-> round.day, id |-> i, data |-> data]
    BY DEF Outcome, r
  <1> HIDE DEF data
  <1> QED BY <1>2, <1>3 DEF r

\* _replay ends like a submission.
LEMMA AgainOutcome ==
  ASSUME NEW i \in Ids, SubmitAgain(i)
  PROVE  \E ok \in BOOLEAN : Outcome(i, ok)
  <1>1. PICK j \in jobs :
          Outcome(i, j.body = round.read[i].config.body /\ ~j.gone)
    BY DEF SubmitAgain
  <1>2. CASE j.body = round.read[i].config.body /\ ~j.gone
    <2>1. Outcome(i, TRUE)
      BY <1>1, <1>2 DEF Outcome
    <2> QED BY <2>1
  <1>3. CASE ~(j.body = round.read[i].config.body /\ ~j.gone)
    <2>1. Outcome(i, FALSE)
      BY <1>1, <1>3 DEF Outcome
    <2> QED BY <2>1
  <1> QED BY <1>2, <1>3

\* Histories keep their types.
LEMMA HistoryTypes ==
  ASSUME TypeOK, NEW i \in Ids, NEW d \in Days
  PROVE  /\ [excuse EXCEPT ![i][d] = @ + 1] \in [Ids -> [Days -> Nat]]
         /\ [stray EXCEPT ![i] = @ + 1] \in [Ids -> Nat]
         /\ [stray EXCEPT ![i] = 0] \in [Ids -> Nat]
  BY DEF TypeOK

\* Saving a schedule keeps the types of everything but the table.
LEMMA SavedTypes ==
  ASSUME TypeInv, NEW i \in Ids, NEW c \in Configs, Saved(i, c)
  PROVE  /\ edits' \in 0..MaxEdits
         /\ edits' = edits + 1
         /\ wish' \in [Ids -> Configs \cup {None}]
         /\ excuse' \in [Ids -> [Days -> Nat]]
         /\ stray' \in [Ids -> Nat]
  <1>1. edits' \in 0..MaxEdits /\ edits' = edits + 1
    BY SchedulesAssumption DEF Saved, TypeInv, TypeOK
  <1>2. wish' \in [Ids -> Configs \cup {None}]
    BY DEF Saved, TypeInv, TypeOK
  <1>3. excuse' \in [Ids -> [Days -> Nat]]
    <2>1. CASE InRound(i)
      <3>1. round.day \in Days
        BY <2>1 DEF InRound, TypeInv, TypeOK
      <3> QED BY <2>1, <3>1, HistoryTypes DEF Saved, TypeInv
    <2>2. CASE ~InRound(i)
      BY <2>2 DEF Saved, TypeInv, TypeOK
    <2> QED BY <2>1, <2>2
  <1>4. stray' \in [Ids -> Nat]
    BY DEF Saved, TypeInv, TypeOK
  <1> QED BY <1>1, <1>2, <1>3, <1>4

\* An existing schedule has a row.
LEMMA ExistsRow ==
  ASSUME TypeOK, NEW i \in Ids
  PROVE  /\ row[i] \in Rows \cup Absent
         /\ Exists(i) => row[i] \in Rows
         /\ row[i] \in Rows => Exists(i)
  BY RowFacts DEF TypeOK, Exists

\* The clock and the counters are numbers.
LEMMA Numbers ==
  ASSUME TypeOK
  PROVE  /\ day \in Nat /\ edits \in Nat /\ faults \in Nat
         /\ \A d \in Days : d \in Nat
         /\ round.pc # "idle" => round.day \in Nat
  BY SchedulesAssumption DEF TypeOK, Days

\* A round that has not come to schedule i has it in its list.
LEMMA InRoundFacts ==
  ASSUME TypeInv, NEW i \in Ids, InRound(i)
  PROVE  round.pc # "idle" /\ round.read[i] \in Rows /\ round.day \in Days
  BY DEF InRound, TypeInv, TypeOK, RoundInv

\* Every action keeps the types.
LEMMA TypeInvStep == TypeInv /\ [Next]_vars => TypeInv'
  <1> SUFFICES ASSUME TypeInv, [Next]_vars
               PROVE  TypeInv'
    OBVIOUS
  <1>0. TypeOK /\ RowInv /\ RoundInv /\ ReadInv
    BY DEF TypeInv
  <1> USE <1>0, Numbers
  <1>1. CASE UNCHANGED vars
    BY <1>1 DEF vars, TypeInv, TypeOK, RowInv, RoundInv, ReadInv, Exists, InRound
  <1>2. ASSUME NEW i \in Ids, NEW c \in Configs, Saved(i, c),
               NEW r \in Rows, r.rev <= edits + 1, r.ran <= day,
               row' = [row EXCEPT ![i] = r]
        PROVE  TypeInv'
    <2>1. /\ edits' \in 0..MaxEdits /\ edits' = edits + 1
          /\ wish' \in [Ids -> Configs \cup {None}]
          /\ excuse' \in [Ids -> [Days -> Nat]]
          /\ stray' \in [Ids -> Nat]
      BY <1>2, SavedTypes
    <2>2. UNCHANGED <<paused, jobs, round, day, hour, faults>>
      BY <1>2 DEF Saved
    <2>3. row' \in [Ids -> Rows \cup Absent]
      BY <1>2 DEF TypeOK
    <2>4. TypeOK'
      BY <2>1, <2>2, <2>3 DEF TypeOK
    <2>5. RowInv'
      <3> SUFFICES ASSUME NEW k \in Ids, row'[k] \notin Absent
                   PROVE  row'[k].rev <= edits' /\ row'[k].ran <= day'
        BY DEF RowInv, Exists
      <3>1. CASE k = i
        BY <1>2, <2>1, <2>2, <3>1 DEF TypeOK
      <3>2. CASE k # i
        <4>1. row'[k] = row[k] /\ row[k] \in Rows
          BY <1>2, <3>2, ExistsRow DEF TypeOK, Exists
        <4> QED BY <2>1, <2>2, <4>1, RowFacts DEF RowInv, Exists
      <3> QED BY <3>1, <3>2
    <2>6. RoundInv' /\ ReadInv'
      BY <2>2 DEF RoundInv, ReadInv, InRound
    <2> QED BY <2>4, <2>5, <2>6 DEF TypeInv
  <1>3. ASSUME NEW i \in Ids, NEW c \in Configs, Insert(i, c)
        PROVE  TypeInv'
    <2> DEFINE r == [config |-> c, ran |-> 0, wait |-> FALSE, rev |-> 1]
    <2>1. Saved(i, c) /\ row' = [row EXCEPT ![i] = r]
      BY <1>3 DEF Insert
    <2>2. r \in Rows /\ r.rev = 1 /\ r.ran = 0
      BY SchedulesAssumption, SavedRow
    <2> HIDE DEF r
    <2>3. r.rev <= edits + 1 /\ r.ran <= day
      BY <2>2
    <2> QED BY <1>2, <2>1, <2>2, <2>3
  <1>4. ASSUME NEW i \in Ids, NEW c \in Configs, Edit(i, c)
        PROVE  TypeInv'
    <2>1. row[i] \in Rows /\ Saved(i, c) /\ edits < MaxEdits
      BY <1>4, ExistsRow DEF Edit, Saved
    <2> DEFINE r == [config |-> c, ran |-> row[i].ran, wait |-> FALSE,
                     rev |-> row[i].rev + 1]
    <2>2. row' = [row EXCEPT ![i] = r]
      BY <1>4 DEF Edit
    <2>3. row[i].rev <= edits /\ row[i].rev \in Nat /\ row[i].ran <= day
      BY <2>1, RowFacts, <1>4 DEF RowInv, Edit
    <2>4. row[i].rev + 1 \in 1..MaxEdits + 1 /\ row[i].rev + 1 <= edits + 1
      BY <2>1, <2>3, SchedulesAssumption
    <2>5. r \in Rows /\ r.rev = row[i].rev + 1 /\ r.ran = row[i].ran
      BY <2>1, <2>4, SavedRow, RowFacts
    <2> HIDE DEF r
    <2> QED BY <1>2, <2>1, <2>2, <2>3, <2>4, <2>5
  <1>5. ASSUME NEW i \in Ids, Delete(i)
        PROVE  TypeInv'
    <2>1. row' = [row EXCEPT ![i] = Deleted] /\ Deleted \in Absent
      BY <1>5 DEF Delete, Absent
    <2>2. row' \in [Ids -> Rows \cup Absent]
      BY <2>1 DEF TypeOK
    <2>3. wish' \in [Ids -> Configs \cup {None}]
      BY <1>5 DEF Delete, TypeOK
    <2>4. RowInv'
      BY <1>5, <2>1 DEF Delete, RowInv, Exists, TypeOK
    <2> QED
      BY <1>5, <2>2, <2>3, <2>4
         DEF Delete, TypeInv, TypeOK, RoundInv, ReadInv, InRound
  <1>6. ASSUME NEW on \in BOOLEAN, SetPaused(on)
        PROVE  TypeInv'
    <2>1. stray' \in [Ids -> Nat]
      BY <1>6 DEF SetPaused, TypeOK
    <2> QED
      BY <1>6, <2>1 DEF SetPaused, TypeInv, TypeOK, RowInv, RoundInv, ReadInv,
         Exists, InRound
  <1>7. ASSUME NEW j \in jobs, DeleteJob(j)
        PROVE  TypeInv'
    <2>1. [j EXCEPT !.gone = TRUE] \in Jobs
      BY DEF TypeOK, Jobs
    <2>2. jobs' \subseteq Jobs
      BY <1>7, <2>1 DEF DeleteJob, TypeOK
    <2> QED
      BY <1>7, <2>2 DEF DeleteJob, TypeInv, TypeOK, RowInv, RoundInv, ReadInv,
         Exists, InRound
  <1>8. CASE RunDue
    <2>1. /\ round'.pc = "rows"
          /\ round'.todo = {i \in Ids : Due(row[i])}
          /\ round'.read = row
          /\ round'.day = day
          /\ UNCHANGED <<row, paused, jobs, clock, bounds, history>>
      BY <1>8 DEF RunDue
    <2>2. \A i \in round'.todo : i \in Ids /\ Due(row[i]) /\ row[i] \in Rows
      BY <2>1 DEF Due, TypeOK
    <2>3. TypeOK' /\ RowInv'
      BY <2>1, <2>2 DEF TypeOK, RowInv, Exists
    <2>4. RoundInv' /\ ReadInv'
      BY <2>1, <2>2, RowFacts DEF RoundInv, ReadInv, InRound, Due, RowInv, Exists
    <2> QED BY <2>3, <2>4 DEF TypeInv
  <1>9. ASSUME NEW i \in Ids, NEW ok \in BOOLEAN, Turn(i), Outcome(i, ok),
               jobs' \subseteq Jobs, faults' \in 0..MaxFaults,
               excuse' \in [Ids -> [Days -> Nat]], stray' \in [Ids -> Nat]
        PROVE  TypeInv'
    <2>1. /\ round.pc = "rows" /\ i \in round.todo
          /\ UNCHANGED <<row, paused, clock, edits, wish>>
      BY <1>9 DEF Turn
    <2>2. /\ round'.pc = "store"
          /\ round'.todo = round.todo \ {i}
          /\ round'.read = round.read
          /\ round'.day = round.day
          /\ round'.id = i
          /\ round'.data \in Rows
          /\ round'.data.rev = round.read[i].rev
          /\ round'.data.config = round.read[i].config
          /\ round'.data.ran = IF ok THEN round.day ELSE round.read[i].ran
      BY <1>9, <2>1, OutcomeFacts
    <2>3. TypeOK' /\ RowInv'
      BY <1>9, <2>1, <2>2 DEF TypeOK, RowInv, Exists
    <2>4. RoundInv'
      BY <2>1, <2>2 DEF RoundInv
    <2>5. ReadInv'
      BY <2>1, <2>2 DEF ReadInv, InRound
    <2> QED BY <2>3, <2>4, <2>5 DEF TypeInv
  <1>10. ASSUME NEW i \in Ids, Turn(i)
         PROVE  /\ NewJob(i) \in Jobs
                /\ round.day \in Days
    <2>1. round.read[i] \in Rows /\ round.day \in Days
      BY <1>10 DEF Turn, TypeOK, RoundInv
    <2>2. round.read[i].config \in Configs
      BY <2>1, RowFacts
    <2> QED BY <2>1, <2>2 DEF NewJob, Jobs, Configs
  <1>11. ASSUME NEW i \in Ids, NEW committed \in BOOLEAN, NEW ok \in BOOLEAN,
                SubmitNew(i, committed, ok)
         PROVE  TypeInv'
    <2>1. Turn(i) /\ Outcome(i, ok)
      BY <1>11 DEF SubmitNew
    <2>2. jobs' \subseteq Jobs
      BY <1>10, <1>11, <2>1 DEF SubmitNew, TypeOK
    <2>3. faults' \in 0..MaxFaults
      BY <1>11, SchedulesAssumption DEF SubmitNew, TypeOK
    <2>4. excuse' \in [Ids -> [Days -> Nat]]
      BY <1>10, <1>11, <2>1, HistoryTypes DEF SubmitNew, TypeOK
    <2>5. stray' \in [Ids -> Nat]
      BY <1>11 DEF SubmitNew, TypeOK
    <2> QED BY <1>9, <2>1, <2>2, <2>3, <2>4, <2>5
  <1>12. ASSUME NEW i \in Ids, SubmitAgain(i)
         PROVE  TypeInv'
    <2>1. PICK ok \in BOOLEAN : Outcome(i, ok)
      BY <1>12, AgainOutcome
    <2>2. Turn(i) /\ UNCHANGED <<jobs, faults, excuse, stray>>
      BY <1>12 DEF SubmitAgain
    <2> QED BY <1>9, <2>1, <2>2 DEF TypeOK
  <1>13. CASE Store
    <2>1. /\ round.pc = "store"
          /\ round.id \in Ids /\ round.data \in Rows
          /\ UNCHANGED <<paused, jobs, clock, bounds, history>>
      BY <1>13 DEF Store, TypeOK
    <2>2. \/ row' = row
          \/ SameRevision(round.id) /\ row' = [row EXCEPT ![round.id] = round.data]
      BY <1>13 DEF Store
    <2>3. row' \in [Ids -> Rows \cup Absent]
      BY <2>1, <2>2 DEF TypeOK
    <2>4. RowInv'
      <3>1. CASE row' = row
        BY <2>1, <3>1 DEF RowInv, Exists
      <3>2. CASE SameRevision(round.id) /\ row' = [row EXCEPT ![round.id] = round.data]
        <4>1. round.data.rev <= edits /\ round.data.ran <= day
          <5>1. round.data.rev = row[round.id].rev /\ row[round.id].rev <= edits
            BY <2>1, <3>2 DEF SameRevision, RoundInv, RowInv
          <5>2. InRound(round.id) /\ round.day <= day
            BY <2>1 DEF InRound, RoundInv
          <5>3. /\ round.read[round.id] \in Rows
                /\ round.read[round.id].ran <= round.day
                /\ round.data.ran \in {round.day, round.read[round.id].ran}
            BY <2>1, <5>2 DEF RoundInv, ReadInv
          <5>4. round.read[round.id].ran \in Nat /\ round.day \in Nat
            BY <2>1, <5>3, RowFacts
          <5> QED BY <5>1, <5>2, <5>3, <5>4
        <4> QED BY <2>1, <3>2, <4>1 DEF RowInv, Exists, TypeOK
      <3> QED BY <2>2, <3>1, <3>2
    <2>5. \/ round' = NoRound
          \/ /\ round'.pc = "rows" /\ round'.todo = round.todo
             /\ round'.read = round.read /\ round'.day = round.day
      BY <1>13 DEF Store
    <2>6. TypeOK'
      BY <2>1, <2>3, <2>5 DEF TypeOK, NoRound
    <2>7. RoundInv' /\ ReadInv'
      BY <2>1, <2>5 DEF RoundInv, ReadInv, InRound, NoRound
    <2> QED BY <2>4, <2>6, <2>7 DEF TypeInv
  <1>14. CASE Crash
    <2>1. /\ round' = NoRound /\ round.day \in Days
          /\ UNCHANGED <<row, paused, jobs, clock, edits, wish, stray>>
      BY <1>14 DEF Crash, TypeOK
    <2>2. excuse' \in [Ids -> [Days -> Nat]]
      BY <1>14, <2>1 DEF Crash, TypeOK
    <2>3. faults' \in 0..MaxFaults
      BY <1>14, SchedulesAssumption DEF Crash, TypeOK
    <2>4. TypeOK' /\ RowInv'
      BY <2>1, <2>2, <2>3 DEF TypeOK, RowInv, NoRound, Exists
    <2>5. RoundInv' /\ ReadInv'
      BY <2>1 DEF RoundInv, ReadInv, InRound, NoRound
    <2> QED BY <2>4, <2>5 DEF TypeInv
  <1>15. ASSUME NEW t \in Times, Later(t)
         PROVE  TypeInv'
    BY <1>15 DEF Later, TypeInv, TypeOK, RowInv, RoundInv, ReadInv, Exists, InRound
  <1>16. CASE Midnight
    <2>1. /\ day' = day + 1 /\ day' \in Days /\ hour' \in Times
          /\ UNCHANGED <<row, paused, jobs, round, bounds, history>>
      BY <1>16, SchedulesAssumption DEF Midnight, TypeOK, Days
    <2>2. TypeOK' /\ ReadInv'
      BY <2>1 DEF TypeOK, ReadInv, InRound
    <2>3. RowInv'
      <3> SUFFICES ASSUME NEW i \in Ids, Exists(i)
                   PROVE  row[i].rev <= edits /\ row[i].ran <= day + 1
        BY <2>1 DEF RowInv, Exists
      <3>1. row[i].ran \in Nat
        BY ExistsRow, RowFacts
      <3> QED BY <3>1 DEF RowInv
    <2>4. RoundInv'
      BY <2>1 DEF RoundInv
    <2> QED BY <2>2, <2>3, <2>4 DEF TypeInv
  <1>17. ASSUME NEW i \in Ids, RetryComes(i)
         PROVE  TypeInv'
    <2> DEFINE r == [row[i] EXCEPT !.wait = FALSE]
    <2>1. row[i] \in Rows /\ Exists(i)
      BY <1>17, ExistsRow DEF RetryComes
    <2>2. r \in Rows /\ r.rev = row[i].rev /\ r.ran = row[i].ran
      BY <2>1, RetriedRow
    <2>3. row' = [row EXCEPT ![i] = r] /\ UNCHANGED <<paused, jobs, round, clock, bounds, history>>
      BY <1>17 DEF RetryComes
    <2> HIDE DEF r
    <2>4. TypeOK' /\ RoundInv' /\ ReadInv'
      BY <2>2, <2>3 DEF TypeOK, RoundInv, ReadInv, InRound
    <2>5. RowInv'
      BY <2>1, <2>2, <2>3 DEF RowInv, Exists, TypeOK
    <2> QED BY <2>4, <2>5 DEF TypeInv
  <1> QED
    BY <1>1, <1>3, <1>4, <1>5, <1>6, <1>7, <1>8, <1>11, <1>12, <1>13, <1>14,
       <1>15, <1>16, <1>17 DEF Next, Client, Submit

\* The program starts with an empty table and no round.
LEMMA TypeInvInit == Init => TypeInv
  <1> SUFFICES ASSUME Init PROVE TypeInv
    OBVIOUS
  <1>1. round.pc = "idle"
    BY DEF Init, NoRound
  <1>2. None \in Absent /\ 1 \in Days /\ 0 \in 0..MaxEdits /\ 0 \in 0..MaxFaults
    BY SchedulesAssumption DEF Absent, Days
  <1>3. /\ row \in [Ids -> Rows \cup Absent]
        /\ wish \in [Ids -> Configs \cup {None}]
        /\ excuse \in [Ids -> [Days -> Nat]]
        /\ stray \in [Ids -> Nat]
    BY <1>2 DEF Init
  <1>4. paused \in BOOLEAN /\ jobs \subseteq Jobs /\ hour \in Times
    BY DEF Init
  <1>5. day \in Days /\ edits \in 0..MaxEdits /\ faults \in 0..MaxFaults
    BY <1>2 DEF Init
  <1>6. TypeOK
    BY <1>1, <1>3, <1>4, <1>5 DEF TypeOK
  <1>7. RowInv
    BY <1>2 DEF Init, RowInv, Exists
  <1>8. RoundInv /\ ReadInv
    BY <1>1 DEF RoundInv, ReadInv, InRound
  <1> QED BY <1>6, <1>7, <1>8 DEF TypeInv

\* Everything below rests on the types.
LEMMA TypeInvariant == Spec => []TypeInv
  BY TypeInvInit, TypeInvStep, PTL DEF Spec

\* Type correctness of the schedules and of run_due.
THEOREM TypeCorrect == Spec => []TypeOK
  <1>1. TypeInv => TypeOK
    BY DEF TypeInv
  <1> QED BY <1>1, TypeInvariant, PTL

-----------------------------------------------------------------------------
(***************************************************************************)
(* The race of a round with the clients.  A row that still has the         *)
(* revision the round has read has the same content, because revisions of  *)
(* a schedule only grow; that needs a deleted schedule to stay deleted.    *)
(***************************************************************************)
RaceInv ==
    \A i \in Ids : InRound(i) =>
        /\ row[i] # None
        /\ Exists(i) =>
             /\ row[i].ran = round.read[i].ran
             /\ round.read[i].rev <= row[i].rev
             /\ row[i].rev = round.read[i].rev => row[i].config = round.read[i].config


\* Schedule i as another step finds it: deleted, or with the same content.
Kept(i) ==
    \/ row'[i] = row[i]
    \/ row'[i] = Deleted
    \/ /\ row[i] \in Rows
       /\ row'[i] \in Rows
       /\ row'[i].ran = row[i].ran
       /\ row'[i].rev = row[i].rev
       /\ row'[i].config = row[i].config

\* A step that leaves the round alone, or shortens it, and changes no row of
\* it but the flag wait.
LEMMA RaceKept ==
  ASSUME TypeInv, RaceInv,
         \A i \in Ids : InRound(i)' =>
             InRound(i) /\ round'.read[i] = round.read[i] /\ Kept(i)
  PROVE  RaceInv'
  <1> SUFFICES ASSUME NEW i \in Ids, InRound(i)'
               PROVE  /\ row'[i] # None
                      /\ row'[i] \notin Absent =>
                           /\ row'[i].ran = round'.read[i].ran
                           /\ round'.read[i].rev <= row'[i].rev
                           /\ row'[i].rev = round'.read[i].rev =>
                                row'[i].config = round'.read[i].config
    BY DEF RaceInv, Exists
  <1>1. InRound(i) /\ round'.read[i] = round.read[i] /\ Kept(i)
    OBVIOUS
  <1>2. CASE row'[i] = row[i]
    BY <1>1, <1>2 DEF RaceInv, Exists
  <1>3. CASE row'[i] = Deleted
    <2>1. Deleted # None /\ Deleted \in Absent
      BY DEF Deleted, None, Absent
    <2> QED BY <1>3, <2>1
  <1>4. CASE /\ row[i] \in Rows
             /\ row'[i] \in Rows
             /\ row'[i].ran = row[i].ran
             /\ row'[i].rev = row[i].rev
             /\ row'[i].config = row[i].config
    <2>1. Exists(i) /\ row'[i] # None
      BY <1>4, RowFacts DEF Exists, Absent
    <2> QED BY <1>1, <1>4, <2>1 DEF RaceInv
  <1> QED BY <1>1, <1>2, <1>3, <1>4 DEF Kept

\* The round of the next state, for a step that does not touch it.
LEMMA SameRound ==
  ASSUME round' = round
  PROVE  \A i \in Ids : InRound(i)' => InRound(i) /\ round'.read[i] = round.read[i]
  BY DEF InRound

\* A schedule that is new is in no round, if what is deleted stays deleted.
LEMMA NewNotInRound ==
  ASSUME ~Upsert, RaceInv, NEW i \in Ids, NEW c \in Configs, Insert(i, c)
  PROVE  ~InRound(i)
  <1>1. row[i] = None
    BY DEF Insert, Exists, Absent
  <1> QED BY <1>1 DEF RaceInv

\* What a submission leaves of the round.
LEMMA TurnRound ==
  ASSUME TypeInv, NEW i \in Ids, NEW ok \in BOOLEAN, Turn(i), Outcome(i, ok)
  PROVE  /\ \A k \in Ids : InRound(k)' => InRound(k) /\ round'.read[k] = round.read[k]
         /\ round'.pc = "store" /\ round'.todo = round.todo \ {i}
         /\ round'.id = i /\ round'.day = round.day
         /\ round'.data.ran = IF ok THEN round.day ELSE round.read[i].ran
         /\ InRound(i)
  <1>1. round.pc = "rows" /\ i \in round.todo
    BY DEF Turn
  <1>2. /\ round'.pc = "store"
        /\ round'.todo = round.todo \ {i}
        /\ round'.read = round.read
        /\ round'.day = round.day
        /\ round'.id = i
        /\ round'.data.ran = IF ok THEN round.day ELSE round.read[i].ran
    BY <1>1, OutcomeFacts
  <1> QED BY <1>1, <1>2 DEF InRound

\* What the storing of an outcome leaves of the round and does to the table.
LEMMA StoreFacts ==
  ASSUME TypeInv, Store
  PROVE  /\ round.pc = "store" /\ round.id \in Ids /\ round.data \in Rows
         /\ round.id \notin round.todo
         /\ \A k \in Ids : InRound(k)' =>
               /\ k \in round.todo
               /\ round'.pc = "rows" /\ round'.todo = round.todo
               /\ round'.read = round.read /\ round'.day = round.day
         /\ \/ row' = row /\ ~SameRevision(round.id)
            \/ SameRevision(round.id) /\ row' = [row EXCEPT ![round.id] = round.data]
         /\ UNCHANGED <<paused, jobs, clock, bounds, history>>
  <1>1. /\ round.pc = "store" /\ round.id \in Ids /\ round.data \in Rows
        /\ round.id \notin round.todo
        /\ UNCHANGED <<paused, jobs, clock, bounds, history>>
    BY DEF Store, TypeInv, TypeOK, RoundInv
  <1>2. \/ round' = NoRound
        \/ /\ round'.pc = "rows" /\ round'.todo = round.todo
           /\ round'.read = round.read /\ round'.day = round.day
    BY DEF Store
  <1>3. \/ row' = row /\ ~SameRevision(round.id)
        \/ SameRevision(round.id) /\ row' = [row EXCEPT ![round.id] = round.data]
    BY DEF Store
  <1>4. \A k \in Ids : InRound(k)' =>
            /\ k \in round.todo
            /\ round'.pc = "rows" /\ round'.todo = round.todo
            /\ round'.read = round.read /\ round'.day = round.day
    BY <1>2 DEF InRound, NoRound
  <1> QED BY <1>1, <1>3, <1>4

\* The race of a round with every other step.
LEMMA RaceStep ==
  ASSUME ~Upsert
  PROVE  TypeInv /\ RaceInv /\ [Next]_vars => RaceInv'
  <1> SUFFICES ASSUME TypeInv, RaceInv, [Next]_vars
               PROVE  RaceInv'
    OBVIOUS
  <1>1. ASSUME round' = round, row' = row
        PROVE  RaceInv'
    BY <1>1, SameRound, RaceKept DEF Kept
  <1>2. CASE UNCHANGED vars
    BY <1>1, <1>2 DEF vars
  <1>3. ASSUME NEW i \in Ids, NEW c \in Configs, Insert(i, c)
        PROVE  RaceInv'
    <2>1. round' = round /\ ~InRound(i)
      BY <1>3, NewNotInRound DEF Insert, Saved
    <2>2. \A k \in Ids : k # i => Kept(k)
      BY <1>3 DEF Insert, Kept, TypeInv, TypeOK
    <2> QED BY <2>1, <2>2, SameRound, RaceKept
  <1>4. ASSUME NEW i \in Ids, NEW c \in Configs, Edit(i, c)
        PROVE  RaceInv'
    <2> DEFINE r == [config |-> c, ran |-> row[i].ran, wait |-> FALSE,
                     rev |-> row[i].rev + 1]
    <2>1. round' = round /\ Exists(i) /\ row' = [row EXCEPT ![i] = r]
      BY <1>4 DEF Edit, Saved
    <2>2. row[i] \in Rows
      BY <2>1, ExistsRow DEF TypeInv
    <2>3. r.ran = row[i].ran /\ r.rev = row[i].rev + 1 /\ row[i].rev \in Nat
      BY <2>2, RowFacts
    <2> HIDE DEF r
    <2> SUFFICES ASSUME NEW k \in Ids, InRound(k)'
                 PROVE  /\ row'[k] # None
                        /\ row'[k] \notin Absent =>
                             /\ row'[k].ran = round'.read[k].ran
                             /\ round'.read[k].rev <= row'[k].rev
                             /\ row'[k].rev = round'.read[k].rev =>
                                  row'[k].config = round'.read[k].config
      BY DEF RaceInv, Exists
    <2>4. InRound(k) /\ round.read[k] \in Rows
      BY <2>1, SameRound, InRoundFacts
    <2>5. CASE k # i
      BY <2>1, <2>4, <2>5 DEF RaceInv, Exists, TypeInv, TypeOK
    <2>6. CASE k = i
      <3>1. row'[k] = r
        BY <2>1, <2>6 DEF TypeInv, TypeOK
      <3>2. round.read[k].rev <= row[k].rev /\ row[k].ran = round.read[k].ran
        BY <2>1, <2>4, <2>6 DEF RaceInv
      <3>3. round.read[k].rev \in Nat
        BY <2>4, RowFacts
      <3>4. r # None
        <4>1. None.rev = 0
          BY DEF None
        <4> QED BY <2>3, <4>1
      <3> QED BY <2>1, <2>3, <2>6, <3>1, <3>2, <3>3, <3>4
    <2> QED BY <2>5, <2>6
  <1>5. ASSUME NEW i \in Ids, Delete(i)
        PROVE  RaceInv'
    <2>1. round' = round
      BY <1>5 DEF Delete
    <2>2. \A k \in Ids : Kept(k)
      BY <1>5 DEF Delete, Kept, TypeInv, TypeOK
    <2> QED BY <2>1, <2>2, SameRound, RaceKept
  <1>6. ASSUME NEW on \in BOOLEAN, SetPaused(on)
        PROVE  RaceInv'
    BY <1>1, <1>6 DEF SetPaused
  <1>7. ASSUME NEW j \in jobs, DeleteJob(j)
        PROVE  RaceInv'
    BY <1>1, <1>7 DEF DeleteJob
  <1>8. CASE RunDue
    <2>1. /\ round'.pc = "rows"
          /\ round'.todo = {i \in Ids : Due(row[i])}
          /\ round'.read = row /\ row' = row
      BY <1>8 DEF RunDue
    <2>2. \A i \in Ids : InRound(i)' => row[i] \in Rows
      BY <2>1 DEF InRound, Due, TypeInv, TypeOK
    <2>3. \A i \in Ids : row[i] \in Rows => row[i] # None /\ row[i].rev \in Nat
      BY RowFacts DEF Absent
    <2> QED BY <2>1, <2>2, <2>3 DEF RaceInv, Exists
  <1>9. ASSUME NEW i \in Ids, NEW ok \in BOOLEAN, Turn(i), Outcome(i, ok)
        PROVE  RaceInv'
    <2>1. row' = row
      BY <1>9 DEF Turn
    <2> QED BY <1>9, <2>1, TurnRound, RaceKept DEF Kept
  <1>10. ASSUME NEW i \in Ids, Submit(i)
         PROVE  RaceInv'
    BY <1>9, <1>10, AgainOutcome DEF Submit, SubmitNew, SubmitAgain
  <1>11. CASE Store
    <2>1. \A k \in Ids : InRound(k)' =>
             k \in round.todo /\ round.pc = "store" /\ round'.read = round.read
      BY <1>11, StoreFacts
    <2>2. \A k \in Ids : k \in round.todo => Kept(k)
      BY <1>11, StoreFacts DEF Kept, TypeInv, TypeOK
    <2> QED BY <2>1, <2>2, RaceKept DEF InRound
  <1>12. CASE Crash
    BY <1>12 DEF Crash, RaceInv, InRound, NoRound
  <1>13. ASSUME NEW t \in Times, Later(t)
         PROVE  RaceInv'
    BY <1>1, <1>13 DEF Later
  <1>14. CASE Midnight
    BY <1>1, <1>14 DEF Midnight
  <1>15. ASSUME NEW i \in Ids, RetryComes(i)
         PROVE  RaceInv'
    <2> DEFINE r == [row[i] EXCEPT !.wait = FALSE]
    <2>1. row[i] \in Rows
      BY <1>15, ExistsRow DEF RetryComes, TypeInv
    <2>2. /\ r \in Rows /\ r.rev = row[i].rev /\ r.ran = row[i].ran
          /\ r.config = row[i].config
      BY <2>1, RetriedRow
    <2>3. row' = [row EXCEPT ![i] = r] /\ round' = round
      BY <1>15 DEF RetryComes
    <2> HIDE DEF r
    <2>4. \A k \in Ids : Kept(k)
      BY <2>1, <2>2, <2>3 DEF Kept, TypeInv, TypeOK
    <2> QED BY <2>3, <2>4, SameRound, RaceKept
  <1> QED
    BY <1>2, <1>3, <1>4, <1>5, <1>6, <1>7, <1>8, <1>10, <1>11, <1>12, <1>13,
       <1>14, <1>15 DEF Next, Client

\* No round is under way at the start.
LEMMA RaceInvariant ==
  ASSUME ~Upsert
  PROVE  Spec => [](TypeInv /\ RaceInv)
  <1>1. Init => RaceInv
    <2>1. Init => round.pc = "idle"
      BY DEF Init, NoRound
    <2> QED BY <2>1 DEF RaceInv, InRound
  <1>2. TypeInv /\ RaceInv /\ [Next]_vars => RaceInv'
    BY RaceStep
  <1> QED BY <1>1, <1>2, TypeInvariant, PTL DEF Spec

-----------------------------------------------------------------------------
(***************************************************************************)
(* What a step does to the configuration of a schedule: nothing, unless a  *)
(* client saves or deletes it.                                             *)
(***************************************************************************)
SameConfig(i) ==
    /\ row'[i] \notin Absent => row[i] \notin Absent
    /\ row'[i] \notin Absent => row'[i].config = row[i].config

\* The daemon and the clock change no configuration.
LEMMA DaemonKeepsConfig ==
  ASSUME ~Upsert, TypeInv, RaceInv, NEW k \in Ids,
         \/ UNCHANGED row
         \/ Store
         \/ \E i \in Ids : RetryComes(i)
  PROVE  SameConfig(k)
  <1>1. CASE UNCHANGED row
    BY <1>1 DEF SameConfig
  <1>2. CASE Store
    <2>1. CASE row' = row
      BY <2>1 DEF SameConfig
    <2>2. CASE SameRevision(round.id) /\ row' = [row EXCEPT ![round.id] = round.data]
      <3>1. InRound(round.id) /\ round.id \in Ids
        BY <1>2, StoreFacts DEF InRound
      <3>2. Exists(round.id) /\ row[round.id].config = round.read[round.id].config
        BY <2>2, <3>1 DEF RaceInv, SameRevision
      <3>3. round.data.config = row[round.id].config
        BY <1>2, <3>2, StoreFacts DEF TypeInv, RoundInv
      <3> QED BY <2>2, <3>1, <3>2, <3>3 DEF SameConfig, Exists, TypeInv, TypeOK
    <2> QED BY <1>2, <2>1, <2>2, StoreFacts
  <1>3. ASSUME NEW i \in Ids, RetryComes(i)
        PROVE  SameConfig(k)
    <2> DEFINE r == [row[i] EXCEPT !.wait = FALSE]
    <2>1. row[i] \in Rows /\ Exists(i)
      BY <1>3, ExistsRow DEF RetryComes, TypeInv
    <2>2. r.config = row[i].config
      BY <2>1, RetriedRow
    <2>3. row' = [row EXCEPT ![i] = r]
      BY <1>3 DEF RetryComes
    <2> HIDE DEF r
    <2> QED BY <2>1, <2>2, <2>3 DEF SameConfig, Exists, TypeInv, TypeOK
  <1> QED BY <1>1, <1>2, <1>3

\* A step that is not a client's saving or deleting.
LEMMA OtherSteps ==
  ASSUME [Next]_vars,
         ~\E i \in Ids, c \in Configs : Insert(i, c) \/ Edit(i, c),
         ~\E i \in Ids : Delete(i)
  PROVE  /\ UNCHANGED wish
         /\ \/ UNCHANGED row
            \/ Store
            \/ \E i \in Ids : RetryComes(i)
  BY DEF Next, Client, Submit, vars, SetPaused, DeleteJob, RunDue, SubmitNew,
     SubmitAgain, Turn, Store, Crash, Later, Midnight, RetryComes

\* Saving a schedule stores what the client wants.
LEMMA SavedConfig ==
  ASSUME TypeInv, NEW i \in Ids, NEW c \in Configs, Insert(i, c) \/ Edit(i, c)
  PROVE  /\ Saved(i, c)
         /\ row'[i].config = c
         /\ \A k \in Ids : k # i => row'[k] = row[k]
  BY DEF Insert, Edit, TypeInv, TypeOK

\* A schedule stays as the last client that saved it wanted it, whatever a
\* round stores: "Do not overwrite a concurrent GUI edit with stale scheduler
\* data".  Updates of schedules that were deleted meanwhile are excluded.
THEOREM EditsSurvive ==
  ASSUME ~Upsert
  PROVE  Spec => []EditSurvives
  <1>1. Init => EditSurvives
    <2>1. None \in Absent
      BY DEF Absent
    <2> QED BY <2>1 DEF Init, EditSurvives, Exists
  <1>2. TypeInv /\ RaceInv /\ EditSurvives /\ [Next]_vars => EditSurvives'
    <2> SUFFICES ASSUME TypeInv, RaceInv, EditSurvives, [Next]_vars,
                        NEW k \in Ids, row'[k] \notin Absent
                 PROVE  row'[k].config = wish'[k]
      BY DEF EditSurvives, Exists
    <2>1. ASSUME NEW i \in Ids, NEW c \in Configs, Insert(i, c) \/ Edit(i, c)
          PROVE  row'[k].config = wish'[k]
      <3>1. wish' = [wish EXCEPT ![i] = c]
        BY <2>1, SavedConfig DEF Saved
      <3> QED
        BY <2>1, <3>1, SavedConfig DEF EditSurvives, Exists, TypeInv, TypeOK
    <2>2. ASSUME NEW i \in Ids, Delete(i)
          PROVE  row'[k].config = wish'[k]
      <3>1. Deleted \in Absent
        BY DEF Absent
      <3> QED
        BY <2>2, <3>1 DEF Delete, EditSurvives, Exists, TypeInv, TypeOK
    <2>3. CASE /\ ~\E i \in Ids, c \in Configs : Insert(i, c) \/ Edit(i, c)
               /\ ~\E i \in Ids : Delete(i)
      <3>1. SameConfig(k) /\ wish' = wish
        BY <2>3, OtherSteps, DaemonKeepsConfig
      <3> QED BY <3>1 DEF SameConfig, EditSurvives, Exists
    <2> QED BY <2>1, <2>2, <2>3
  <1> QED BY <1>1, <1>2, RaceInvariant, PTL DEF Spec

-----------------------------------------------------------------------------
(***************************************************************************)
(* Switching off.  What a round still has to submit was on when it read    *)
(* the table, and it submits each schedule once.                           *)
(***************************************************************************)
FewStrays(i) ==
    /\ ~Off(i) => stray[i] = 0
    /\ round.pc # "idle" /\ i \in round.todo => stray[i] = 0
    /\ stray[i] <= 1

StrayInv == \A i \in Ids : FewStrays(i)

\* Every step keeps count.
LEMMA StrayStep ==
  ASSUME ~Upsert
  PROVE  TypeInv /\ RaceInv /\ StrayInv /\ [Next]_vars => StrayInv'
  <1> SUFFICES ASSUME TypeInv, RaceInv, StrayInv, [Next]_vars, NEW k \in Ids
               PROVE  FewStrays(k)'
    BY DEF StrayInv
  <1>0. stray \in [Ids -> Nat] /\ row \in [Ids -> Rows \cup Absent]
    BY DEF TypeInv, TypeOK
  <1>1. ASSUME stray' = stray, Off(k) => Off(k)',
               round'.pc # "idle" /\ k \in round'.todo =>
                   round.pc # "idle" /\ k \in round.todo
        PROVE  FewStrays(k)'
    BY <1>1 DEF StrayInv, FewStrays
  <1>2. ASSUME paused' = paused, SameConfig(k)
        PROVE  Off(k) => Off(k)'
    BY <1>2 DEF SameConfig, Off, Exists
  <1>3. ASSUME NEW i \in Ids, NEW c \in Configs, Insert(i, c) \/ Edit(i, c)
        PROVE  FewStrays(k)'
    <2>1. /\ stray' = IF c.on THEN [stray EXCEPT ![i] = 0] ELSE stray
          /\ UNCHANGED <<paused, round>>
      BY <1>3, SavedConfig DEF Saved
    <2>2. stray'[k] = 0 \/ stray'[k] = stray[k]
      BY <1>0, <2>1
    <2>3. ~Off(k)' => stray'[k] = 0
      <3>1. CASE k = i
        BY <1>0, <1>3, <2>1, <3>1, SavedConfig DEF Off
      <3>2. CASE k # i
        BY <1>0, <1>3, <2>1, <2>2, <3>2, SavedConfig DEF Off, Exists, StrayInv, FewStrays
      <3> QED BY <3>1, <3>2
    <2> QED BY <1>0, <2>1, <2>2, <2>3 DEF StrayInv, FewStrays
  <1>4. ASSUME NEW i \in Ids, Delete(i)
        PROVE  FewStrays(k)'
    <2>1. /\ row' = [row EXCEPT ![i] = Deleted] /\ Deleted \in Absent
          /\ UNCHANGED <<paused, round, stray>>
      BY <1>4 DEF Delete, Absent
    <2>2. Off(k) => Off(k)'
      BY <1>0, <2>1 DEF Off, Exists
    <2> QED BY <1>1, <2>1, <2>2
  <1>5. ASSUME NEW on \in BOOLEAN, SetPaused(on)
        PROVE  FewStrays(k)'
    <2>1. CASE on
      BY <1>1, <1>5, <2>1 DEF SetPaused, Off
    <2>2. CASE ~on
      <3>1. stray'[k] = 0
        BY <1>5, <2>2 DEF SetPaused
      <3> QED BY <3>1 DEF FewStrays
    <2> QED BY <2>1, <2>2
  <1>6. CASE RunDue
    <2>1. /\ round'.todo = {i \in Ids : Due(row[i])} /\ ~paused
          /\ UNCHANGED <<row, paused, stray>>
      BY <1>6 DEF RunDue
    <2>2. k \in round'.todo => ~Off(k)
      BY <2>1 DEF Due, Off, Exists
    <2> QED BY <2>1, <2>2 DEF StrayInv, FewStrays, Off, Exists
  <1>7. ASSUME NEW i \in Ids, NEW committed \in BOOLEAN, NEW ok \in BOOLEAN,
               SubmitNew(i, committed, ok)
        PROVE  FewStrays(k)'
    <2>1. Turn(i) /\ Outcome(i, ok) /\ round.pc = "rows" /\ i \in round.todo
      BY <1>7 DEF SubmitNew, Turn
    <2>2. UNCHANGED <<row, paused>> /\ round'.todo = round.todo \ {i}
      BY <2>1, TurnRound DEF Turn
    <2>3. \/ stray' = stray
          \/ Off(i) /\ stray' = [stray EXCEPT ![i] = stray[i] + 1]
      BY <1>7 DEF SubmitNew
    <2>4. stray[i] = 0
      BY <2>1 DEF StrayInv, FewStrays
    <2>5. Off(k)' <=> Off(k)
      BY <2>2 DEF Off, Exists
    <2>6. CASE k = i
      BY <1>0, <2>2, <2>3, <2>4, <2>5, <2>6 DEF FewStrays, StrayInv
    <2>7. CASE k # i
      BY <1>0, <2>1, <2>2, <2>3, <2>5, <2>7 DEF StrayInv, FewStrays
    <2> QED BY <2>6, <2>7
  <1>8. ASSUME NEW i \in Ids, SubmitAgain(i)
        PROVE  FewStrays(k)'
    <2>1. Turn(i) /\ UNCHANGED <<stray, row, paused>>
      BY <1>8 DEF SubmitAgain, Turn
    <2>2. PICK ok \in BOOLEAN : Outcome(i, ok)
      BY <1>8, AgainOutcome
    <2>3. round'.todo = round.todo \ {i} /\ round.pc = "rows"
      BY <2>1, <2>2, TurnRound DEF Turn
    <2> QED BY <1>1, <2>1, <2>3 DEF Off, Exists
  <1>9. CASE Store
    <2>1. round'.pc # "idle" /\ k \in round'.todo =>
              round.pc # "idle" /\ k \in round.todo
      BY <1>9 DEF Store, NoRound
    <2>2. Off(k) => Off(k)'
      BY <1>2, <1>9, DaemonKeepsConfig, StoreFacts
    <2> QED BY <1>1, <1>9, <2>1, <2>2, StoreFacts
  <1>10. CASE Crash
    <2>1. round'.pc = "idle" /\ UNCHANGED <<row, paused, stray>>
      BY <1>10 DEF Crash, NoRound
    <2>2. Off(k)' <=> Off(k)
      BY <2>1 DEF Off, Exists
    <2> QED BY <1>1, <2>1, <2>2
  <1>11. ASSUME NEW i \in Ids, RetryComes(i)
         PROVE  FewStrays(k)'
    <2>1. Off(k) => Off(k)'
      BY <1>2, <1>11, DaemonKeepsConfig DEF RetryComes
    <2> QED BY <1>1, <1>11, <2>1 DEF RetryComes
  <1>12. CASE UNCHANGED vars
    BY <1>1, <1>12 DEF vars, Off, Exists
  <1>13. ASSUME NEW j \in jobs, DeleteJob(j)
         PROVE  FewStrays(k)'
    BY <1>1, <1>13 DEF DeleteJob, Off, Exists
  <1>14. ASSUME NEW t \in Times, Later(t)
         PROVE  FewStrays(k)'
    BY <1>1, <1>14 DEF Later, Off, Exists
  <1>15. CASE Midnight
    BY <1>1, <1>15 DEF Midnight, Off, Exists
  <1> QED
    BY <1>3, <1>4, <1>5, <1>6, <1>7, <1>8, <1>9, <1>10, <1>11, <1>12, <1>13,
       <1>14, <1>15 DEF Next, Client, Submit

\* Switching a schedule off, deleting it or pausing all of them lets at most
\* one more job of it through, the one of the round that is under way.
THEOREM OneStray ==
  ASSUME ~Upsert
  PROVE  Spec => []AtMostOneStray
  <1>1. Init => StrayInv
    <2>1. Init => round.pc = "idle" /\ \A i \in Ids : stray[i] = 0
      BY DEF Init, NoRound
    <2> QED BY <2>1 DEF StrayInv, FewStrays
  <1>2. TypeInv /\ RaceInv /\ StrayInv /\ [Next]_vars => StrayInv'
    BY StrayStep
  <1>3. StrayInv => AtMostOneStray
    BY DEF StrayInv, FewStrays, AtMostOneStray
  <1> QED BY <1>1, <1>2, <1>3, RaceInvariant, PTL DEF Spec

-----------------------------------------------------------------------------
(***************************************************************************)
(* Once a day.  A schedule that may still be submitted for day d, because  *)
(* a round has it before it or because its row is not marked with d, has   *)
(* one job fewer than it is allowed; an edit during the round makes the    *)
(* mark of that round fail and is worth one more job.                      *)
(***************************************************************************)
Jobbed(i, d) == Cardinality(Daily(i, d))

\* A client has saved schedule i since the round read it.
Edited(i) == Exists(i) /\ row[i].rev # round.read[i].rev

Waiting(i, d) == round.pc # "idle" /\ i \in round.todo /\ round.day = d

Storing(i, d) == round.pc = "store" /\ i = round.id /\ round.day = d

Unmarked(i, d) ==
    /\ Exists(i)
    /\ row[i].ran # d
    /\ d = day
    /\ ~(InRound(i) /\ round.day = d)

OnceAt(i, d) ==
    /\ Jobbed(i, d) <= 1 + excuse[i][d]
    /\ Waiting(i, d) => Jobbed(i, d) <= excuse[i][d]
    /\ Waiting(i, d) /\ Edited(i) => Jobbed(i, d) + 1 <= excuse[i][d]
    /\ Storing(i, d) /\ (Edited(i) \/ round.data.ran # d) =>
           Jobbed(i, d) <= excuse[i][d]
    /\ Unmarked(i, d) => Jobbed(i, d) <= excuse[i][d]

JobsInv ==
    /\ IsFiniteSet(jobs)
    /\ \A j \in jobs :
          /\ j.id \in Ids => row[j.id] # None
          /\ j.day <= day
          /\ round.pc # "idle" => j.day <= round.day

OnceInv == JobsInv /\ \A i \in Ids, d \in Days : OnceAt(i, d)

\* Jobs of a schedule and a day are a number.
LEMMA JobbedNat ==
  ASSUME IsFiniteSet(jobs), NEW i \in Ids, NEW d \in Days
  PROVE  IsFiniteSet(Daily(i, d)) /\ Jobbed(i, d) \in Nat
  BY FS_Subset, FS_CardinalityType DEF Daily, Jobbed

\* A schedule and a day without a job.
LEMMA NoJobs ==
  ASSUME NEW i \in Ids, NEW d \in Days, \A j \in jobs : j.id # i \/ j.day # d
  PROVE  Jobbed(i, d) = 0
  <1>1. Daily(i, d) = {}
    BY DEF Daily
  <1> QED BY <1>1, FS_EmptySet DEF Jobbed

\* A new job counts for its schedule and its day only.
LEMMA OneMoreJob ==
  ASSUME IsFiniteSet(jobs), NEW j, jobs' = jobs \cup {j}
  PROVE  /\ IsFiniteSet(jobs)'
         /\ \A i \in Ids, d \in Days :
               /\ Jobbed(i, d)' <= Jobbed(i, d) + 1
               /\ j.id # i \/ j.day # d => Jobbed(i, d)' = Jobbed(i, d)
  <1>1. IsFiniteSet(jobs)'
    BY FS_AddElement
  <1> SUFFICES ASSUME NEW i \in Ids, NEW d \in Days
               PROVE  /\ Jobbed(i, d)' <= Jobbed(i, d) + 1
                      /\ j.id # i \/ j.day # d => Jobbed(i, d)' = Jobbed(i, d)
    BY <1>1
  <1>2. CASE j.id # i \/ j.day # d
    <2>1. Daily(i, d)' = Daily(i, d)
      BY <1>2 DEF Daily
    <2>2. Jobbed(i, d)' = Jobbed(i, d)
      BY <2>1 DEF Jobbed
    <2> QED BY <2>2, JobbedNat
  <1>3. CASE j.id = i /\ j.day = d
    <2>1. Daily(i, d)' = Daily(i, d) \cup {j}
      BY <1>3 DEF Daily
    <2>2. IsFiniteSet(Daily(i, d)) /\ Jobbed(i, d) \in Nat
      BY JobbedNat
    <2>3. Cardinality(Daily(i, d) \cup {j}) <= Jobbed(i, d) + 1
      <3> DEFINE S == Daily(i, d)
      <3>1. Cardinality(S \cup {j}) = IF j \in S THEN Cardinality(S) ELSE Cardinality(S) + 1
        BY <2>2, FS_AddElement
      <3>2. Cardinality(S) = Jobbed(i, d)
        BY DEF Jobbed
      <3> HIDE DEF S
      <3>3. Cardinality(S \cup {j}) <= Jobbed(i, d) + 1
        BY <2>2, <3>1, <3>2
      <3> QED BY <3>3 DEF S
    <2> QED BY <1>3, <2>1, <2>3 DEF Jobbed
  <1> QED BY <1>2, <1>3

\* A deleted job keeps its schedule and its day.
LEMMA NoMoreJobs ==
  ASSUME IsFiniteSet(jobs), NEW j \in jobs, NEW g, g.id = j.id, g.day = j.day,
         jobs' = (jobs \ {j}) \cup {g}
  PROVE  /\ IsFiniteSet(jobs)'
         /\ \A i \in Ids, d \in Days : Jobbed(i, d)' <= Jobbed(i, d)
  <1>1. IsFiniteSet(jobs)'
    BY FS_AddElement, FS_RemoveElement
  <1> SUFFICES ASSUME NEW i \in Ids, NEW d \in Days
               PROVE  Jobbed(i, d)' <= Jobbed(i, d)
    BY <1>1
  <1>2. IsFiniteSet(Daily(i, d)) /\ Jobbed(i, d) \in Nat
    BY JobbedNat
  <1>3. CASE j.id = i /\ j.day = d
    <2> DEFINE S == Daily(i, d) \ {j}
    <2>1. Daily(i, d)' = S \cup {g}
      BY <1>3 DEF Daily
    <2>2. IsFiniteSet(S) /\ Cardinality(S) = Jobbed(i, d) - 1
      BY <1>2, <1>3, FS_RemoveElement DEF Daily, Jobbed
    <2>3. Cardinality(S) \in Nat
      BY <2>2, FS_CardinalityType
    <2> HIDE DEF S
    <2>4. Cardinality(S \cup {g}) <= Cardinality(S) + 1
      <3>1. Cardinality(S \cup {g}) = IF g \in S THEN Cardinality(S) ELSE Cardinality(S) + 1
        BY <2>2, FS_AddElement
      <3> QED BY <2>3, <3>1
    <2>5. Cardinality(S \cup {g}) \in Nat
      BY <2>2, FS_AddElement, FS_CardinalityType
    <2> QED BY <1>2, <2>1, <2>2, <2>3, <2>4, <2>5 DEF Jobbed
  <1>4. CASE ~(j.id = i /\ j.day = d)
    <2>1. Daily(i, d)' = Daily(i, d)
      BY <1>4 DEF Daily
    <2> QED BY <1>2, <2>1 DEF Jobbed
  <1> QED BY <1>3, <1>4

\* Excuses are numbers.
LEMMA ExcuseNat ==
  ASSUME TypeInv, NEW i \in Ids, NEW d \in Days
  PROVE  excuse[i][d] \in Nat
  BY DEF TypeInv, TypeOK

\* A step after which schedule i has no more jobs of day d, no fewer excuses
\* and no new occasion to be submitted for it.
LEMMA OnceKept ==
  ASSUME NEW i \in Ids, NEW d \in Days, OnceAt(i, d),
         Jobbed(i, d) \in Nat, Jobbed(i, d)' \in Nat,
         excuse[i][d] \in Nat, excuse'[i][d] \in Nat,
         Jobbed(i, d)' <= Jobbed(i, d), excuse[i][d] <= excuse'[i][d],
         Waiting(i, d)' => Waiting(i, d) /\ (Edited(i)' => Edited(i)),
         Storing(i, d)' => /\ Storing(i, d) /\ round'.data = round.data
                           /\ Edited(i)' => Edited(i),
         Unmarked(i, d)' => Unmarked(i, d)
  PROVE  OnceAt(i, d)'
  <1>1. (1 + excuse[i][d])' = 1 + excuse'[i][d]
    OBVIOUS
  <1>2. ASSUME Jobbed(i, d) <= excuse[i][d]
        PROVE  Jobbed(i, d)' <= excuse'[i][d]
    BY <1>2
  <1>3. Jobbed(i, d)' <= 1 + excuse'[i][d]
    BY DEF OnceAt
  <1>4. Waiting(i, d)' => Jobbed(i, d)' <= excuse'[i][d]
    BY <1>2 DEF OnceAt
  <1>5. Waiting(i, d)' /\ Edited(i)' => Jobbed(i, d)' + 1 <= excuse'[i][d]
    BY DEF OnceAt
  <1>6. Storing(i, d)' /\ (Edited(i)' \/ round'.data.ran # d) =>
           Jobbed(i, d)' <= excuse'[i][d]
    BY <1>2 DEF OnceAt
  <1>7. Unmarked(i, d)' => Jobbed(i, d)' <= excuse'[i][d]
    BY <1>2 DEF OnceAt
  <1> QED BY <1>3, <1>4, <1>5, <1>6, <1>7 DEF OnceAt

\* The jobs of the table: there are finitely many, none is of a schedule that
\* never existed, of a day to come or of a day after that of the round.
LEMMA JobsStep ==
  ASSUME ~Upsert
  PROVE  TypeInv /\ RaceInv /\ JobsInv /\ [Next]_vars => JobsInv'
  <1> SUFFICES ASSUME TypeInv, RaceInv, JobsInv, [Next]_vars
               PROVE  JobsInv'
    OBVIOUS
  <1>0. TypeOK /\ day \in Nat /\ \A j \in jobs : j \in Jobs /\ j.day \in Nat
    BY Numbers DEF TypeInv, TypeOK, Jobs
  <1>1. ASSUME jobs' = jobs, day' = day,
               round'.pc # "idle" => round.pc # "idle" /\ round'.day = round.day,
               \A i \in Ids : row'[i] = None => row[i] = None
        PROVE  JobsInv'
    BY <1>1 DEF JobsInv
  <1>2. None # Deleted /\ \A r \in Rows : r # None
    BY RowFacts DEF None, Deleted, Absent
  <1>3. ASSUME NEW i \in Ids, NEW c \in Configs, Insert(i, c) \/ Edit(i, c)
        PROVE  JobsInv'
    <2>1. row'[i] # None
      <3>1. TypeOK' /\ (row'[i]).config = c
        BY <1>3, TypeInvStep, SavedConfig DEF TypeInv
      <3>2. row[i] \in Rows => row[i].rev \in Nat
        BY RowFacts
      <3>3. row'[i].rev # 0
        BY <1>3, <3>2, ExistsRow DEF Insert, Edit, TypeInv, TypeOK
      <3> QED BY <3>3 DEF None
    <2> QED BY <1>1, <1>3, <2>1, SavedConfig DEF Saved
  <1>4. ASSUME NEW i \in Ids, Delete(i)
        PROVE  JobsInv'
    BY <1>1, <1>2, <1>4 DEF Delete, TypeInv, TypeOK
  <1>5. ASSUME NEW on \in BOOLEAN, SetPaused(on)
        PROVE  JobsInv'
    BY <1>1, <1>5 DEF SetPaused
  <1>6. ASSUME NEW j \in jobs, DeleteJob(j)
        PROVE  JobsInv'
    <2> DEFINE g == [j EXCEPT !.gone = TRUE]
    <2>1. g.id = j.id /\ g.day = j.day
      BY <1>0 DEF Jobs
    <2>2. jobs' = (jobs \ {j}) \cup {g} /\ UNCHANGED <<row, round, day>>
      BY <1>6 DEF DeleteJob
    <2> HIDE DEF g
    <2>3. IsFiniteSet(jobs)'
      BY <2>1, <2>2, NoMoreJobs DEF JobsInv
    <2> QED BY <2>1, <2>2, <2>3 DEF JobsInv
  <1>7. CASE RunDue
    <2>1. round'.day = day /\ UNCHANGED <<jobs, row, day>>
      BY <1>7 DEF RunDue
    <2> QED BY <2>1 DEF JobsInv
  <1>8. ASSUME NEW i \in Ids, Turn(i), NEW ok \in BOOLEAN, Outcome(i, ok)
        PROVE  /\ round.pc # "idle" /\ round'.day = round.day /\ round.day <= day
               /\ row' = row /\ day' = day /\ row[i] # None
    BY <1>8, TurnRound DEF Turn, RaceInv, TypeInv, RoundInv
  <1>9. ASSUME NEW i \in Ids, NEW committed \in BOOLEAN, NEW ok \in BOOLEAN,
               SubmitNew(i, committed, ok)
        PROVE  JobsInv'
    <2>1. /\ round.pc # "idle" /\ round'.day = round.day /\ round.day <= day
          /\ row' = row /\ day' = day /\ row[i] # None
      BY <1>8, <1>9 DEF SubmitNew
    <2>2. CASE jobs' = jobs
      BY <1>1, <2>1, <2>2
    <2>3. CASE jobs' = jobs \cup {NewJob(i)}
      <3>1. NewJob(i).id = i /\ NewJob(i).day = round.day
        BY DEF NewJob
      <3>2. round.day \in Nat
        BY <1>0, <2>1, Numbers
      <3>3. IsFiniteSet(jobs)'
        BY <2>3, OneMoreJob DEF JobsInv
      <3> QED BY <2>1, <2>3, <3>1, <3>2, <3>3 DEF JobsInv
    <2> QED BY <1>9, <2>2, <2>3 DEF SubmitNew
  <1>10. ASSUME NEW i \in Ids, SubmitAgain(i)
         PROVE  JobsInv'
    <2>1. PICK ok \in BOOLEAN : Outcome(i, ok)
      BY <1>10, AgainOutcome
    <2> QED BY <1>1, <1>8, <1>10, <2>1 DEF SubmitAgain
  <1>11. CASE Store
    <2>1. \A k \in Ids : row'[k] = None => row[k] = None
      BY <1>2, <1>11, StoreFacts DEF TypeInv, TypeOK
    <2>2. round.pc # "idle" /\ (round'.pc # "idle" => round'.day = round.day)
      BY <1>11 DEF Store, NoRound
    <2> QED BY <1>1, <1>11, <2>1, <2>2, StoreFacts
  <1>12. CASE Crash
    <2>1. round'.pc = "idle" /\ UNCHANGED <<row, jobs, day>>
      BY <1>12 DEF Crash, NoRound
    <2> QED BY <1>1, <2>1
  <1>13. ASSUME NEW t \in Times, Later(t)
         PROVE  JobsInv'
    BY <1>1, <1>13 DEF Later
  <1>14. CASE Midnight
    <2>1. day' = day + 1 /\ UNCHANGED <<row, jobs, round>>
      BY <1>14 DEF Midnight
    <2> QED BY <1>0, <2>1 DEF JobsInv
  <1>15. ASSUME NEW i \in Ids, RetryComes(i)
         PROVE  JobsInv'
    <2> DEFINE r == [row[i] EXCEPT !.wait = FALSE]
    <2>1. row[i] \in Rows
      BY <1>15, ExistsRow DEF RetryComes, TypeInv
    <2>2. r \in Rows
      BY <2>1, RetriedRow
    <2>3. row' = [row EXCEPT ![i] = r] /\ UNCHANGED <<jobs, day, round>>
      BY <1>15 DEF RetryComes
    <2> HIDE DEF r
    <2> QED BY <1>1, <1>2, <2>2, <2>3 DEF TypeInv, TypeOK
  <1>16. CASE UNCHANGED vars
    BY <1>1, <1>16 DEF vars
  <1> QED
    BY <1>3, <1>4, <1>5, <1>6, <1>7, <1>9, <1>10, <1>11, <1>12, <1>13, <1>14,
       <1>15, <1>16 DEF Next, Client, Submit

\* A step that leaves jobs, excuses, clock and round alone and keeps the row of
\* schedule i, or deletes it.
LEMMA OnceUntouched ==
  ASSUME TypeInv, TypeInv', JobsInv, NEW i \in Ids, NEW d \in Days,
         OnceAt(i, d), Kept(i), round' = round, day' = day,
         excuse'[i][d] = excuse[i][d], Jobbed(i, d)' \in Nat,
         Jobbed(i, d)' <= Jobbed(i, d)
  PROVE  OnceAt(i, d)'
  <1>1. Jobbed(i, d) \in Nat /\ excuse[i][d] \in Nat
    BY JobbedNat, ExcuseNat DEF JobsInv
  <1>2. \A r \in Rows : r \notin Absent
    BY RowFacts
  <1>3. Deleted \in Absent
    BY DEF Absent
  <1>4. Exists(i)' => /\ Exists(i)
                      /\ row'[i].ran = row[i].ran
                      /\ row'[i].rev = row[i].rev
    BY <1>2, <1>3 DEF Exists, Kept
  <1>5. Edited(i)' => Edited(i)
    BY <1>4 DEF Edited
  <1>6. Unmarked(i, d)' => Unmarked(i, d)
    BY <1>4 DEF Unmarked, InRound
  <1> QED BY <1>1, <1>5, <1>6, OnceKept DEF Waiting, Storing

\* A client saves schedule i.
LEMMA OnceSaved ==
  ASSUME ~Upsert, TypeInv, TypeInv', RaceInv, OnceInv,
         NEW i \in Ids, NEW c \in Configs, Insert(i, c) \/ Edit(i, c),
         NEW k \in Ids, NEW d \in Days
  PROVE  OnceAt(k, d)'
  <1>0. JobsInv /\ OnceAt(k, d) /\ UNCHANGED <<jobs, round, day>>
    BY SavedConfig DEF OnceInv, Saved
  <1>1. /\ Jobbed(k, d) \in Nat /\ Jobbed(k, d)' = Jobbed(k, d)
        /\ excuse[k][d] \in Nat
    BY <1>0, JobbedNat, ExcuseNat DEF JobsInv, Jobbed, Daily
  <1>2. excuse' = IF InRound(i) THEN [excuse EXCEPT ![i][round.day] = @ + 1] ELSE excuse
    BY SavedConfig DEF Saved
  <1>3. CASE k # i
    <2>1. excuse'[k][d] = excuse[k][d]
      BY <1>2, <1>3 DEF TypeInv, TypeOK
    <2>2. Kept(k)
      BY <1>3, SavedConfig DEF Kept
    <2> QED BY <1>0, <1>1, <2>1, <2>2, OnceUntouched
  <1>4. CASE k = i /\ Insert(i, c)
    <2>1. row[i] = None /\ ~InRound(i)
      BY <1>4, NewNotInRound DEF Insert, Exists, Absent
    <2>2. Jobbed(i, d) = 0
      BY <1>0, <2>1, NoJobs DEF JobsInv
    <2>3. excuse'[i][d] = excuse[i][d] /\ ~InRound(i)'
      BY <1>0, <1>2, <2>1 DEF InRound
    <2>4. ~Waiting(i, d)' /\ ~Storing(i, d)'
      BY <2>3 DEF Waiting, Storing, InRound
    <2> QED BY <1>1, <1>4, <2>2, <2>3, <2>4 DEF OnceAt
  <1>5. CASE k = i /\ Edit(i, c)
    <2> DEFINE r == [config |-> c, ran |-> row[i].ran, wait |-> FALSE,
                     rev |-> row[i].rev + 1]
    <2>1. Exists(i) /\ row' = [row EXCEPT ![i] = r]
      BY <1>5 DEF Edit
    <2>2. r.ran = row[i].ran
      OBVIOUS
    <2> HIDE DEF r
    <2>3. row'[i].ran = row[i].ran
      BY <2>1, <2>2 DEF TypeInv, TypeOK
    <2>4. Unmarked(i, d)' => Unmarked(i, d)
      BY <1>0, <2>1, <2>3 DEF Unmarked, InRound, Exists
    <2>5. CASE InRound(i) /\ round.day = d
      <3>1. excuse'[i][d] = excuse[i][d] + 1
        BY <1>2, <2>5 DEF TypeInv, TypeOK
      <3>2. Jobbed(i, d) <= 1 + excuse[i][d]
        BY <1>0, <1>5 DEF OnceAt
      <3>3. Waiting(i, d)' => Jobbed(i, d) <= excuse[i][d]
        BY <1>0, <1>5 DEF OnceAt, Waiting
      <3> QED BY <1>1, <1>5, <3>1, <3>2, <3>3 DEF OnceAt
    <2>6. CASE ~(InRound(i) /\ round.day = d)
      <3>1. excuse'[i][d] = excuse[i][d]
        BY <1>2, <2>6 DEF TypeInv, TypeOK
      <3>2. ~Waiting(i, d)' /\ ~Storing(i, d)'
        BY <1>0, <2>6 DEF Waiting, Storing, InRound
      <3> QED BY <1>0, <1>1, <1>5, <2>4, <3>1, <3>2, OnceKept
    <2> QED BY <2>5, <2>6
  <1> QED BY <1>3, <1>4, <1>5

\* A submission of schedule i adds at most one job, of the day of the round,
\* and a failure is an excuse.
LEMMA OnceSubmitted ==
  ASSUME TypeInv, TypeInv', OnceInv, NEW i \in Ids, NEW ok \in BOOLEAN,
         Turn(i), Outcome(i, ok), NEW k \in Ids, NEW d \in Days,
         Jobbed(k, d)' \in Nat,
         Jobbed(k, d)' <= Jobbed(k, d) + 1,
         k # i \/ d # round.day => Jobbed(k, d)' = Jobbed(k, d),
         \/ excuse' = excuse /\ (ok \/ jobs' = jobs)
         \/ ~ok /\ excuse' = [excuse EXCEPT ![i][round.day] = @ + 1]
  PROVE  OnceAt(k, d)'
  <1>0. JobsInv /\ OnceAt(k, d) /\ UNCHANGED <<row, day>>
    BY DEF OnceInv, Turn
  <1>1. Jobbed(k, d) \in Nat /\ excuse[k][d] \in Nat
    BY <1>0, JobbedNat, ExcuseNat DEF JobsInv
  <1>2. /\ round.pc = "rows" /\ i \in round.todo
        /\ round'.pc = "store" /\ round'.todo = round.todo \ {i}
        /\ round'.read = round.read /\ round'.day = round.day /\ round'.id = i
        /\ round'.data.ran = IF ok THEN round.day ELSE round.read[i].ran
    BY OutcomeFacts DEF Turn
  <1>3. Edited(k)' <=> Edited(k)
    BY <1>0, <1>2 DEF Edited, Exists
  <1>4. InRound(k)' <=> InRound(k)
    BY <1>2 DEF InRound
  <1>5. CASE k = i /\ d = round.day
    <2>1. /\ Jobbed(k, d) <= excuse[k][d]
          /\ Edited(k) => Jobbed(k, d) + 1 <= excuse[k][d]
      BY <1>0, <1>2, <1>5 DEF OnceAt, Waiting
    <2>2. ~Waiting(k, d)' /\ ~Unmarked(k, d)'
      BY <1>2, <1>5 DEF Waiting, Unmarked, InRound
    <2>3. CASE ~ok /\ excuse' = [excuse EXCEPT ![i][round.day] = @ + 1]
      <3>1. excuse'[k][d] = excuse[k][d] + 1
        BY <1>5, <2>3 DEF TypeInv, TypeOK
      <3> QED BY <1>1, <2>1, <2>2, <3>1 DEF OnceAt
    <2>4. CASE excuse' = excuse /\ ok
      <3>1. round'.data.ran = d
        BY <1>2, <1>5, <2>4
      <3> QED BY <1>1, <1>3, <2>1, <2>2, <2>4, <3>1 DEF OnceAt
    <2>5. CASE excuse' = excuse /\ jobs' = jobs
      <3>1. Jobbed(k, d)' = Jobbed(k, d)
        BY <2>5 DEF Jobbed, Daily
      <3> QED BY <1>1, <2>1, <2>2, <2>5, <3>1 DEF OnceAt
    <2> QED BY <2>3, <2>4, <2>5
  <1>6. CASE k # i \/ d # round.day
    <2>1. Jobbed(k, d)' = Jobbed(k, d)
      BY <1>6
    <2>2. excuse'[k][d] = excuse[k][d]
      BY <1>6 DEF TypeInv, TypeOK
    <2>3. ~Storing(k, d)' /\ (Waiting(k, d)' => Waiting(k, d))
      BY <1>2, <1>6 DEF Storing, Waiting
    <2>4. Unmarked(k, d)' => Unmarked(k, d)
      BY <1>0, <1>2, <1>4 DEF Unmarked, Exists
    <2> QED BY <1>0, <1>1, <1>3, <2>1, <2>2, <2>3, <2>4, OnceKept
  <1> QED BY <1>5, <1>6

\* The outcome of a submission is stored, or is refused because of an edit.
LEMMA OnceStored ==
  ASSUME TypeInv, TypeInv', RaceInv, OnceInv, Store,
         NEW k \in Ids, NEW d \in Days
  PROVE  OnceAt(k, d)'
  <1>0. JobsInv /\ OnceAt(k, d) /\ UNCHANGED <<jobs, day, excuse>>
    BY StoreFacts DEF OnceInv
  <1>1. /\ Jobbed(k, d) \in Nat /\ Jobbed(k, d)' = Jobbed(k, d)
        /\ excuse[k][d] \in Nat /\ excuse'[k][d] = excuse[k][d]
    BY <1>0, JobbedNat, ExcuseNat DEF JobsInv, Jobbed, Daily
  <1>2. \/ round'.pc = "idle" /\ round.todo = {}
        \/ /\ round'.pc = "rows" /\ round'.todo = round.todo
           /\ round'.read = round.read /\ round'.day = round.day
    BY DEF Store, NoRound
  <1>3. round.pc = "store" /\ round.id \in Ids /\ round.id \notin round.todo
    BY StoreFacts
  <1>4. ~Storing(k, d)' /\ (Waiting(k, d)' => Waiting(k, d) /\ k # round.id)
    BY <1>2, <1>3 DEF Storing, Waiting
  <1>5. CASE k # round.id
    <2>1. row'[k] = row[k]
      BY <1>3, <1>5, StoreFacts DEF TypeInv, TypeOK
    <2>2. Waiting(k, d)' => (Edited(k)' => Edited(k))
      BY <1>2, <2>1 DEF Waiting, Edited, Exists
    <2>3. Unmarked(k, d)' => Unmarked(k, d)
      BY <1>0, <1>2, <1>3, <1>5, <2>1 DEF Unmarked, InRound, Exists
    <2> QED BY <1>0, <1>1, <1>4, <2>2, <2>3, OnceKept
  <1>6. CASE k = round.id
    <2>1. SUFFICES ASSUME Unmarked(k, d)'
                   PROVE  Jobbed(k, d) <= excuse[k][d]
      BY <1>0, <1>1, <1>4, <1>6 DEF OnceAt
    <2>2. row'[k] \notin Absent /\ row'[k].ran # d /\ d = day
      BY <1>0, <2>1 DEF Unmarked, Exists
    <2>3. InRound(k) /\ round.day <= day /\ round.day \in Nat /\ day \in Nat
      BY <1>3, <1>6, Numbers DEF InRound, TypeInv, RoundInv
    <2>4. CASE d = round.day
      <3>1. Storing(k, d)
        BY <1>3, <1>6, <2>4 DEF Storing
      <3>2. Edited(k) \/ round.data.ran # d
        BY <1>3, <1>6, <2>2, StoreFacts
           DEF Edited, SameRevision, Exists, TypeInv, TypeOK
      <3> QED BY <1>0, <3>1, <3>2 DEF OnceAt
    <2>5. CASE d # round.day
      <3>1. Exists(k) /\ row[k].ran # d
        <4>1. CASE row' = row
          BY <2>2, <4>1 DEF Exists
        <4>2. CASE SameRevision(round.id)
          <5>1. Exists(k) /\ row[k].ran = round.read[k].ran
            BY <1>6, <2>3, <4>2 DEF SameRevision, RaceInv
          <5>2. round.read[k].ran <= round.day /\ round.read[k] \in Rows
            BY <2>3, InRoundFacts DEF TypeInv, ReadInv
          <5>3. round.read[k].ran \in Nat
            BY <5>2, RowFacts, Numbers DEF TypeInv
          <5> QED BY <2>2, <2>3, <2>5, <5>1, <5>2, <5>3
        <4> QED BY <4>1, <4>2, StoreFacts
      <3>2. Unmarked(k, d)
        BY <2>2, <2>5, <3>1 DEF Unmarked
      <3> QED BY <1>0, <3>2 DEF OnceAt
    <2> QED BY <2>4, <2>5
  <1> QED BY <1>5, <1>6

\* Every step keeps the count of every schedule and day.
LEMMA OnceStep ==
  ASSUME ~Upsert
  PROVE  TypeInv /\ RaceInv /\ OnceInv /\ [Next]_vars => OnceInv'
  <1> SUFFICES ASSUME TypeInv, RaceInv, OnceInv, [Next]_vars
               PROVE  OnceInv'
    OBVIOUS
  <1>0. TypeInv' /\ JobsInv /\ JobsInv'
    BY TypeInvStep, JobsStep DEF OnceInv
  <1> SUFFICES ASSUME NEW k \in Ids, NEW d \in Days
               PROVE  OnceAt(k, d)'
    BY <1>0 DEF OnceInv
  <1>1. /\ OnceAt(k, d) /\ Jobbed(k, d) \in Nat /\ Jobbed(k, d)' \in Nat
        /\ excuse[k][d] \in Nat /\ excuse'[k][d] \in Nat
    <2>1. IsFiniteSet(jobs) /\ IsFiniteSet(jobs')
      BY <1>0 DEF JobsInv
    <2>2. Jobbed(k, d)' \in Nat
      BY <2>1, FS_Subset, FS_CardinalityType DEF Daily, Jobbed
    <2>3. excuse[k][d] \in Nat /\ excuse'[k][d] \in Nat
      BY <1>0 DEF TypeInv, TypeOK
    <2> QED BY <2>1, <2>2, <2>3, JobbedNat DEF OnceInv
  <1>2. jobs' = jobs => Jobbed(k, d)' = Jobbed(k, d)
    BY DEF Jobbed, Daily
  <1>3. ASSUME UNCHANGED <<jobs, round, day, excuse>>, Kept(k)
        PROVE  OnceAt(k, d)'
    BY <1>0, <1>1, <1>2, <1>3, OnceUntouched
  <1>4. ASSUME NEW i \in Ids, NEW c \in Configs, Insert(i, c) \/ Edit(i, c)
        PROVE  OnceAt(k, d)'
    BY <1>0, <1>4, OnceSaved
  <1>5. ASSUME NEW i \in Ids, Delete(i)
        PROVE  OnceAt(k, d)'
    <2>1. Kept(k)
      BY <1>5 DEF Delete, Kept, TypeInv, TypeOK
    <2> QED BY <1>3, <1>5, <2>1 DEF Delete
  <1>6. ASSUME NEW on \in BOOLEAN, SetPaused(on)
        PROVE  OnceAt(k, d)'
    BY <1>3, <1>6 DEF SetPaused, Kept
  <1>7. ASSUME NEW j \in jobs, DeleteJob(j)
        PROVE  OnceAt(k, d)'
    <2> DEFINE g == [j EXCEPT !.gone = TRUE]
    <2>1. g.id = j.id /\ g.day = j.day
      BY DEF TypeInv, TypeOK, Jobs
    <2>2. jobs' = (jobs \ {j}) \cup {g} /\ UNCHANGED <<row, round, day, excuse>>
      BY <1>7 DEF DeleteJob
    <2> HIDE DEF g
    <2>3. Jobbed(k, d)' <= Jobbed(k, d)
      BY <1>0, <2>1, <2>2, NoMoreJobs DEF JobsInv
    <2>4. Kept(k)
      BY <2>2 DEF Kept
    <2> QED BY <1>0, <1>1, <2>2, <2>3, <2>4, OnceUntouched
  <1>8. CASE RunDue
    <2>1. /\ round.pc = "idle" /\ round'.pc = "rows"
          /\ round'.todo = {i \in Ids : Due(row[i])}
          /\ round'.read = row /\ round'.day = day
          /\ UNCHANGED <<row, jobs, day, excuse>>
      BY <1>8 DEF RunDue
    <2>2. ~InRound(k)
      BY <2>1 DEF InRound
    <2>3. Waiting(k, d)' => Unmarked(k, d) /\ ~Edited(k)'
      BY <2>1, <2>2 DEF Waiting, Unmarked, Edited, Due, Exists
    <2>4. ~Storing(k, d)' /\ (Unmarked(k, d)' => Unmarked(k, d))
      BY <2>1, <2>2 DEF Storing, Unmarked, Exists
    <2> QED BY <1>1, <1>2, <2>1, <2>3, <2>4 DEF OnceAt
  <1>9. ASSUME NEW i \in Ids, NEW committed \in BOOLEAN, NEW ok \in BOOLEAN,
               SubmitNew(i, committed, ok)
        PROVE  OnceAt(k, d)'
    <2>1. NewJob(i).id = i /\ NewJob(i).day = round.day
      BY DEF NewJob
    <2>2. jobs' = jobs \/ jobs' = jobs \cup {NewJob(i)}
      BY <1>9 DEF SubmitNew
    <2>3. /\ Jobbed(k, d)' <= Jobbed(k, d) + 1
          /\ k # i \/ d # round.day => Jobbed(k, d)' = Jobbed(k, d)
      <3>1. CASE jobs' = jobs
        BY <1>1, <1>2, <3>1
      <3>2. CASE jobs' = jobs \cup {NewJob(i)}
        BY <1>0, <2>1, <3>2, OneMoreJob DEF JobsInv
      <3> QED BY <2>2, <3>1, <3>2
    <2>4. /\ Turn(i) /\ Outcome(i, ok)
          /\ \/ excuse' = excuse /\ ok
             \/ ~ok /\ excuse' = [excuse EXCEPT ![i][round.day] = @ + 1]
      BY <1>9 DEF SubmitNew
    <2> QED BY <1>0, <1>1, <2>3, <2>4, OnceSubmitted
  <1>10. ASSUME NEW i \in Ids, SubmitAgain(i)
         PROVE  OnceAt(k, d)'
    <2>1. PICK ok \in BOOLEAN : Outcome(i, ok)
      BY <1>10, AgainOutcome
    <2>2. Turn(i) /\ UNCHANGED <<jobs, excuse>>
      BY <1>10 DEF SubmitAgain
    <2>3. Jobbed(k, d)' = Jobbed(k, d) /\ Jobbed(k, d)' <= Jobbed(k, d) + 1
      BY <1>1, <1>2, <2>2
    <2> QED BY <1>0, <1>1, <2>1, <2>2, <2>3, OnceSubmitted
  <1>11. CASE Store
    BY <1>0, <1>11, OnceStored
  <1>12. CASE Crash
    <2>1. /\ round'.pc = "idle" /\ UNCHANGED <<row, jobs, day>>
          /\ excuse'[k] = IF InRound(k) THEN [excuse[k] EXCEPT ![round.day] = @ + 1]
                          ELSE excuse[k]
      BY <1>12 DEF Crash, NoRound
    <2>2. ~Waiting(k, d)' /\ ~Storing(k, d)'
      BY <2>1 DEF Waiting, Storing
    <2>3. CASE InRound(k) /\ round.day = d
      <3>1. excuse'[k][d] = excuse[k][d] + 1
        BY <2>1, <2>3 DEF TypeInv, TypeOK
      <3> QED BY <1>1, <1>2, <2>1, <2>2, <3>1 DEF OnceAt
    <2>4. CASE ~(InRound(k) /\ round.day = d)
      <3>1. excuse'[k][d] = excuse[k][d]
        BY <2>1, <2>4 DEF TypeInv, TypeOK
      <3>2. Unmarked(k, d)' => Unmarked(k, d)
        BY <2>1, <2>4 DEF Unmarked, Exists
      <3> QED BY <1>1, <1>2, <2>1, <2>2, <3>1, <3>2 DEF OnceAt
    <2> QED BY <2>3, <2>4
  <1>13. ASSUME NEW t \in Times, Later(t)
         PROVE  OnceAt(k, d)'
    BY <1>3, <1>13 DEF Later, Kept
  <1>14. CASE Midnight
    <2>1. day' = day + 1 /\ UNCHANGED <<row, jobs, round, excuse>>
      BY <1>14 DEF Midnight
    <2>2. Unmarked(k, d)' => Jobbed(k, d) = 0
      <3>1. SUFFICES ASSUME d = day + 1
                     PROVE  Jobbed(k, d) = 0
        BY <2>1 DEF Unmarked
      <3>2. \A j \in jobs : j.day <= day /\ j.day \in Nat /\ day \in Nat
        BY <1>0, Numbers DEF JobsInv, TypeInv, TypeOK, Jobs
      <3> QED BY <3>1, <3>2, NoJobs
    <2>3. /\ Waiting(k, d)' <=> Waiting(k, d)
          /\ Storing(k, d)' <=> Storing(k, d)
          /\ Edited(k)' <=> Edited(k)
      BY <2>1 DEF Waiting, Storing, Edited, Exists
    <2> QED BY <1>1, <1>2, <2>1, <2>2, <2>3 DEF OnceAt
  <1>15. ASSUME NEW i \in Ids, RetryComes(i)
         PROVE  OnceAt(k, d)'
    <2> DEFINE r == [row[i] EXCEPT !.wait = FALSE]
    <2>1. row[i] \in Rows
      BY <1>15, ExistsRow DEF RetryComes, TypeInv
    <2>2. /\ r \in Rows /\ r.rev = row[i].rev /\ r.ran = row[i].ran
          /\ r.config = row[i].config
      BY <2>1, RetriedRow
    <2>3. row' = [row EXCEPT ![i] = r] /\ UNCHANGED <<jobs, day, round, excuse>>
      BY <1>15 DEF RetryComes
    <2> HIDE DEF r
    <2>4. Kept(k)
      BY <2>1, <2>2, <2>3 DEF Kept, TypeInv, TypeOK
    <2> QED BY <1>3, <2>3, <2>4
  <1>16. CASE UNCHANGED vars
    BY <1>3, <1>16 DEF vars, Kept
  <1> QED
    BY <1>4, <1>5, <1>6, <1>7, <1>8, <1>9, <1>10, <1>11, <1>12, <1>13, <1>14,
       <1>15, <1>16 DEF Next, Client, Submit

\* A schedule submits one job a day, and one more for every edit, failure or
\* crash that falls between the reading of its row and the storing of its
\* last_run_date.
THEOREM OnceADay ==
  ASSUME ~Upsert
  PROVE  Spec => []OncePerDay
  <1>1. Init => OnceInv
    <2> SUFFICES ASSUME Init PROVE OnceInv
      OBVIOUS
    <2>1. jobs = {} /\ round.pc = "idle"
      BY DEF Init, NoRound
    <2>2. JobsInv
      BY <2>1, FS_EmptySet DEF JobsInv
    <2>3. ASSUME NEW i \in Ids, NEW d \in Days
          PROVE  OnceAt(i, d)
      <3>1. Jobbed(i, d) = 0
        BY <2>1, NoJobs
      <3>2. excuse[i][d] \in Nat
        BY TypeInvInit, ExcuseNat
      <3>3. ~Waiting(i, d) /\ ~Storing(i, d)
        BY <2>1 DEF Waiting, Storing
      <3> QED BY <3>1, <3>2, <3>3 DEF OnceAt
    <2> QED BY <2>2, <2>3 DEF OnceInv
  <1>2. TypeInv /\ RaceInv /\ OnceInv /\ [Next]_vars => OnceInv'
    BY OnceStep
  <1>3. OnceInv => OncePerDay
    BY DEF OnceInv, OnceAt, Jobbed, OncePerDay
  <1> QED BY <1>1, <1>2, <1>3, RaceInvariant, PTL DEF Spec
=============================================================================
