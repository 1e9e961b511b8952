----------------------------- MODULE Schedules -----------------------------
(***************************************************************************)
(* Daily schedules (research/schedules.py): the table schedules, the       *)
(* operations of its clients and the round run_due of the task daemon that *)
(* submits the jobs which are due into the durable queue (runtime.tick,    *)
(* tasks.submit).                                                          *)
(*                                                                         *)
(* A round reads all rows and the clock once.  For each row that is due it *)
(* submits a job under a key made of the schedule, the day and the time,   *)
(* and then stores the outcome unless the row has another revision.        *)
(* Clients edit, delete and pause meanwhile.                               *)
(*                                                                         *)
(* Abstracted: the time of day is a small number; time zones are left out; *)
(* a submission is one step (TaskRuntime splits it); the operation run     *)
(* leaves the table alone and submits under a key of its caller, which is  *)
(* a submission of TaskRuntime.  An edit that gives an old revision is     *)
(* refused and changes nothing, so Edit stands for those accepted.         *)
(***************************************************************************)
EXTENDS Naturals, FiniteSets

CONSTANTS
    Ids,         \* schedules
    Times,       \* times of day
    Bodies,      \* job specifications
    Owners,      \* client_id of the actors who save schedules
    Upsert,      \* may an update reach a schedule that was deleted meanwhile
    MaxDays,     \* bound on the days of a behaviour
    MaxEdits,    \* bound on the edits of a behaviour
    MaxFaults    \* bound on crashes and on submissions that fail for a
                 \* passing reason

ASSUME SchedulesAssumption ==
    /\ Times \subseteq Nat
    /\ Upsert \in BOOLEAN
    /\ MaxDays \in Nat \ {0}
    /\ MaxEdits \in Nat
    /\ MaxFaults \in Nat

VARIABLES
    row,      \* the table schedules
    paused,   \* setting schedules_paused
    jobs,     \* jobs submitted by run_due, with their idempotency keys
    round,    \* run_due: where it is and what it has read
    day, hour, \* the clock
    edits, faults, \* how often so far
    \* history
    wish,     \* what the last client that saved a schedule wanted
    excuse,   \* edits, failures and crashes that hit a submission of a day
    stray     \* jobs submitted since a schedule was switched off

vars == <<row, paused, jobs, round, day, hour, edits, faults, wish, excuse,
          stray>>

clock   == <<day, hour>>
bounds  == <<edits, faults>>
history == <<wish, excuse, stray>>

Days == 1..MaxDays

\* What a client saves: the fields of ScheduleCreate and the actor.
Configs == [time: Times, body: Bodies, owner: Owners, on: BOOLEAN]

\* The payload and the revision; ran is last_run_date, wait a retry_at that
\* has not come.
Rows == [config: Configs, ran: Days \cup {0}, wait: BOOLEAN, rev: 1..MaxEdits + 1]

None == [rev |-> 0]

Deleted == [rev |-> 0, was |-> TRUE]

Absent == {None, Deleted}

Jobs == [id: Ids, day: Days, time: Times, owner: Owners, body: Bodies,
         gone: BOOLEAN]

NoRound == [pc |-> "idle"]

TypeOK ==
    /\ row \in [Ids -> Rows \cup Absent]
    /\ paused \in BOOLEAN
    /\ jobs \subseteq Jobs
    /\ round.pc \in {"idle", "rows", "store"}
    /\ round.pc # "idle" =>
         /\ round.todo \subseteq Ids
         /\ round.read \in [Ids -> Rows \cup Absent]
         /\ round.day \in Days
    /\ round.pc = "store" => round.id \in Ids /\ round.data \in Rows
    /\ day \in Days
    /\ hour \in Times
    /\ edits \in 0..MaxEdits
    /\ faults \in 0..MaxFaults
    /\ wish \in [Ids -> Configs \cup {None}]
    /\ excuse \in [Ids -> [Days -> Nat]]
    /\ stray \in [Ids -> Nat]

Init ==
    /\ row = [i \in Ids |-> None]
    /\ paused = FALSE
    /\ jobs = {}
    /\ round = NoRound
    /\ day = 1
    /\ hour \in {t \in Times: \A u \in Times: t <= u}
    /\ edits = 0
    /\ faults = 0
    /\ wish = [i \in Ids |-> None]
    /\ excuse = [i \in Ids |-> [d \in Days |-> 0]]
    /\ stray = [i \in Ids |-> 0]

Exists(i) == row[i] \notin Absent

-----------------------------------------------------------------------------
(***************************************************************************)
(* Clients.                                                                *)
(***************************************************************************)

\* Schedule i is in the present round and its outcome is not stored.
InRound(i) ==
    \/ round.pc # "idle" /\ i \in round.todo
    \/ round.pc = "store" /\ i = round.id

\* A client has saved c as schedule i.
Saved(i, c) ==
    /\ edits < MaxEdits
    /\ edits' = edits + 1
    /\ wish' = [wish EXCEPT ![i] = c]
    /\ excuse' = IF InRound(i) THEN [excuse EXCEPT ![i][round.day] = @ + 1] ELSE excuse
    /\ stray' = IF c.on THEN [stray EXCEPT ![i] = 0] ELSE stray
    /\ UNCHANGED <<paused, jobs, round, clock, faults>>

\* save without an old row: create, or an update whose schedule is deleted
\* while it is on its way, when require_existing is not given.
Insert(i, c) ==
    /\ ~Exists(i)
    /\ row[i] = Deleted => Upsert
    /\ row' = [row EXCEPT ![i] = [config |-> c, ran |-> 0, wait |-> FALSE, rev |-> 1]]
    /\ Saved(i, c)

\* Mutant: last_run_date is not taken over.
EditForgets(i, c) ==
    /\ Exists(i)
    /\ row' = [row EXCEPT ![i] = [config |-> c, ran |-> 0, wait |-> FALSE,
                                  rev |-> @.rev + 1]]
    /\ Saved(i, c)

\* save with an old row: last_run_date survives, retry_at does not.
Edit(i, c) ==
    /\ Exists(i)
    /\ row' = [row EXCEPT ![i] = [config |-> c, ran |-> @.ran, wait |-> FALSE,
                                  rev |-> @.rev + 1]]
    /\ Saved(i, c)

\* delete
Delete(i) ==
    /\ Exists(i)
    /\ row' = [row EXCEPT ![i] = Deleted]
    /\ wish' = [wish EXCEPT ![i] = None]
    /\ UNCHANGED <<paused, jobs, round, clock, bounds, excuse, stray>>

\* schedule_control: stop and start.
SetPaused(on) ==
    /\ paused # on
    /\ paused' = on
    /\ stray' = IF on THEN stray ELSE [i \in Ids |-> 0]
    /\ UNCHANGED <<row, jobs, round, clock, bounds, wish, excuse>>

\* tasks.delete: the key stays taken.
DeleteJob(j) ==
    /\ j \in jobs
    /\ ~j.gone
    /\ jobs' = (jobs \ {j}) \cup {[j EXCEPT !.gone = TRUE]}
    /\ UNCHANGED <<row, paused, round, clock, bounds, history>>

-----------------------------------------------------------------------------
(***************************************************************************)
(* run_due.                                                                *)
(***************************************************************************)

\* Mutant: enabled is not looked at.
DueAlways(r) ==
    /\ r \notin Absent
    /\ r.ran # day
    /\ r.config.time <= hour
    /\ ~r.wait

\* The tests at the head of the loop.
Due(r) ==
    /\ r \notin Absent
    /\ r.config.on
    /\ r.ran # day
    /\ r.config.time <= hour
    /\ ~r.wait

\* A tick that is not draining reads the rows and the clock.
RunDue ==
    /\ round.pc = "idle"
    /\ ~paused
    /\ round' = [pc |-> "rows", todo |-> {i \in Ids: Due(row[i])}, read |-> row,
                 day |-> day]
    /\ round'.todo # {}
    /\ UNCHANGED <<row, paused, jobs, clock, bounds, history>>

\* The key of the job: client, schedule, day and time.
SameKey(j, i) ==
    /\ j.id = i
    /\ j.day = round.day
    /\ j.time = round.read[i].config.time
    /\ j.owner = round.read[i].config.owner

\* Mutant: the day of the last run instead of today.
NewJobStale(i) == [id |-> i, day |-> round.read[i].ran,
                   time |-> round.read[i].config.time,
                   owner |-> round.read[i].config.owner,
                   body |-> round.read[i].config.body, gone |-> FALSE]

\* What the submission puts into the table jobs.
NewJob(i) == [id |-> i, day |-> round.day, time |-> round.read[i].config.time,
              owner |-> round.read[i].config.owner,
              body |-> round.read[i].config.body, gone |-> FALSE]

\* Mutant: a failure counts as a run.
OutcomeMarked(i, ok) ==
    round' = [pc |-> "store", todo |-> round.todo \ {i}, read |-> round.read,
              day |-> round.day, id |-> i,
              data |-> [round.read[i] EXCEPT !.ran = round.day, !.wait = ~ok]]

\* The row as the submission leaves it in the memory of the round.
Outcome(i, ok) ==
    round' = [pc |-> "store", todo |-> round.todo \ {i}, read |-> round.read,
              day |-> round.day, id |-> i,
              data |-> IF ok THEN [round.read[i] EXCEPT !.ran = round.day, !.wait = FALSE]
                       ELSE [round.read[i] EXCEPT !.wait = TRUE]]

\* Schedule i is not to run.
Off(i) == paused \/ ~Exists(i) \/ ~row[i].config.on

\* The loop comes to schedule i.
Turn(i) ==
    /\ round.pc = "rows"
    /\ i \in round.todo
    /\ UNCHANGED <<row, paused, clock, edits, wish>>

\* tasks.submit under a key that is new.  committed: the job is in the table;
\* ok: nothing was raised before or after.
SubmitNew(i, committed, ok) ==
    /\ Turn(i)
    /\ \A j \in jobs: ~SameKey(j, i)
    /\ ok => committed
    /\ ok \/ faults < MaxFaults
    /\ jobs' = IF committed THEN jobs \cup {NewJob(i)} ELSE jobs
    /\ faults' = IF ok THEN faults ELSE faults + 1
    /\ excuse' = IF ok THEN excuse ELSE [excuse EXCEPT ![i][round.day] = @ + 1]
    /\ stray' = IF committed /\ Off(i) THEN [stray EXCEPT ![i] = @ + 1] ELSE stray
    /\ Outcome(i, ok)

\* _replay: the job is answered again, unless its input was another or it is
\* deleted.
SubmitAgain(i) ==
    /\ Turn(i)
    /\ \E j \in jobs:
         /\ SameKey(j, i)
         /\ Outcome(i, j.body = round.read[i].config.body /\ ~j.gone)
    /\ UNCHANGED <<jobs, faults, excuse, stray>>

\* Mutant: the revision is not compared.
UnchangedRow(i) == Exists(i)

\* WHERE id=? AND revision=?
SameRevision(i) == Exists(i) /\ row[i].rev = round.read[i].rev

\* The UPDATE at the end of the loop.
Store ==
    /\ round.pc = "store"
    /\ row' = IF SameRevision(round.id) THEN [row EXCEPT ![round.id] = round.data]
              ELSE row
    /\ round' = IF round.todo = {} THEN NoRound
                ELSE [pc |-> "rows", todo |-> round.todo, read |-> round.read,
                      day |-> round.day]
    /\ UNCHANGED <<paused, jobs, clock, bounds, history>>

\* The daemon dies in a round; the next one starts again from the table.
Crash ==
    /\ round.pc # "idle"
    /\ faults < MaxFaults
    /\ faults' = faults + 1
    /\ round' = NoRound
    /\ excuse' = [i \in Ids |-> IF InRound(i) THEN [excuse[i] EXCEPT ![round.day] = @ + 1]
                                ELSE excuse[i]]
    /\ UNCHANGED <<row, paused, jobs, clock, edits, wish, stray>>

-----------------------------------------------------------------------------
(***************************************************************************)
(* The clock.                                                              *)
(***************************************************************************)

Later(t) ==
    /\ t > hour
    /\ hour' = t
    /\ UNCHANGED <<row, paused, jobs, round, day, bounds, history>>

Midnight ==
    /\ day < MaxDays
    /\ day' = day + 1
    /\ hour' \in {t \in Times: \A u \in Times: t <= u}
    /\ UNCHANGED <<row, paused, jobs, round, bounds, history>>

\* The minute of retry_at has passed.
RetryComes(i) ==
    /\ Exists(i)
    /\ row[i].wait
    /\ row' = [row EXCEPT ![i].wait = FALSE]
    /\ UNCHANGED <<paused, jobs, round, clock, bounds, history>>

-----------------------------------------------------------------------------
Submit(i) ==
    \/ \E committed, ok \in BOOLEAN: SubmitNew(i, committed, ok)
    \/ SubmitAgain(i)

Client ==
    \/ \E i \in Ids, c \in Configs: Insert(i, c) \/ Edit(i, c)
    \/ \E i \in Ids: Delete(i)
    \/ \E on \in BOOLEAN: SetPaused(on)
    \/ \E j \in jobs: DeleteJob(j)

Next ==
    \/ Client
    \/ RunDue
    \/ \E i \in Ids: Submit(i)
    \/ Store
    \/ Crash
    \/ \E t \in Times: Later(t)
    \/ Midnight
    \/ \E i \in Ids: RetryComes(i)

\* The daemon ticks, a round goes on, and a minute passes.
Fairness ==
    /\ WF_vars(RunDue)
    /\ WF_vars(\E i \in Ids: Submit(i))
    /\ WF_vars(Store)
    /\ \A i \in Ids: WF_vars(RetryComes(i))

Spec == Init /\ [][Next]_vars /\ Fairness

-----------------------------------------------------------------------------
(***************************************************************************)
(* Properties.                                                             *)
(***************************************************************************)

Daily(i, d) == {j \in jobs: j.id = i /\ j.day = d}

\* A schedule submits one job a day ("occurrence idempotency" of the module):
\* an edit of its time, owner or job later that day does not run it again, and
\* neither do restarts.  A second job needs an edit, a failure or a crash that
\* fell between the reading of the row and the storing of its last_run_date.
OncePerDay ==
    \A i \in Ids, d \in Days: Cardinality(Daily(i, d)) <= 1 + excuse[i][d]

\* "Do not overwrite a concurrent GUI edit with stale scheduler data"
\* (run_due): whatever the daemon writes, a schedule is as the last client
\* that saved it wanted it.
EditSurvives ==
    \A i \in Ids: Exists(i) => row[i].config = wish[i]

\* Switching a schedule off, deleting it or pausing all of them takes effect
\* with the round that is under way at the latest: at most the one job that
\* this round has read is still submitted.
AtMostOneStray == \A i \in Ids: stray[i] <= 1

Wanted(i, d) ==
    /\ ~paused
    /\ Exists(i)
    /\ row[i].config.on
    /\ day = d
    /\ row[i].config.time <= hour

\* A schedule whose time has come is run that day, whatever fails meanwhile:
\* through full queues, crashes and races with edits its job is submitted in
\* the end, unless the schedule is switched off or the day is over.
RunsDaily ==
    \A i \in Ids, d \in Days: Wanted(i, d) ~> (Daily(i, d) # {} \/ ~Wanted(i, d))
=============================================================================
