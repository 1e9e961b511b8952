-------------------------- MODULE TaskRuntimeProofs --------------------------
(***************************************************************************)
(* Proofs about TaskRuntime for every set of requests and commands, every  *)
(* assignment of keys and needs, and every bound on crashes and delays.    *)
(***************************************************************************)
EXTENDS TaskRuntime, FiniteSetTheorems, TLAPS

Completions == {"none", "succeeded", "failed"}

\* The rows that reconcile reads, and the row or claim the daemon works on.
Rows == [job : Requests, n : Numbers, status : Active,
         stop : {"none", "queued", "failed", "lost"}, completion : Completions]

Finals == {"queued", "failed", "lost", "cancelled", "succeeded"}

Claims == [job : Requests, n : Numbers, final : {"none"} \cup Finals,
           completion : Completions]

ProcStates == {"none", "booting", "executing", "succeeded", "failed", "exiting", "dead"}

Stopping == {"final", "unconfirmed"}
Starting == {"launch", "identify"}

\* The requests that were prepared, which created_at counts.
Stamped == { q \in Requests : stamp[q] > 0 }

MoreTypes ==
    /\ IsFiniteSet(Stamped)
    /\ snap \subseteq Rows
    /\ dpc \in Stopping \cup Starting => cur \in Claims
    /\ dpc = "release" => cur.job \in Commands
    /\ aged \subseteq Attempts
    /\ slow \in 0..MaxSlow /\ crashes \in 0..MaxCrashes
    /\ ran \in [Requests -> SUBSET Numbers]
    /\ told \in [Requests -> Nat]

TypeInv == TypeOK /\ MoreTypes

-----------------------------------------------------------------------------
(* The attempts of a job *)

Mine(j) == <<j, attempt[j]>>

Live(a) == status[a[1]] \in Active /\ attempt[a[1]] = a[2]

\* A job has an attempt while it is active, the attempt is finished when the
\* job is settled, and only a start that took too long is put back.
AttemptInv ==
    \A j \in Requests :
        /\ status[j] \in {"none", "queued"} => attempt[j] = 0
        /\ status[j] \in Active => attempt[j] \in Numbers /\ Mine(j) \notin finished
        /\ status[j] \in Terminal => attempt[j] = 0 \/ Mine(j) \in finished
        /\ stopFinal[j] # "none" => status[j] = "cancelling"
        /\ stopFinal[j] = "queued" => Mine(j) \in aged

\* The process of an attempt that is not its worker any more, or not yet.
Idle == {"none", "booting", "dead"}

\* Only attempts that are finished or live have left traces; the finished ones
\* and those that have not registered run no code; the others are identified.
ProcInv ==
    \A a \in Attempts :
        /\ proc[a] # "none" \/ a \in aged \/ a \in container => a \in finished \/ Live(a)
        /\ a \in finished \/ (Live(a) /\ status[a[1]] = "starting") =>
               proc[a] \in Idle /\ a \notin container
        /\ proc[a] \notin Idle => a \in identified

\* A row that reconcile has read is of a finished attempt, or the job has gone
\* on from there at most.
RowOK(row) ==
    LET a == <<row.job, row.n>>
    IN  /\ \/ a \in finished
           \/ /\ Live(a)
              /\ row.status = "running" => status[row.job] # "starting"
              /\ row.status = "cancelling" => status[row.job] = "cancelling"
        /\ row.stop # "none" => row.status = "cancelling"
        /\ row.stop = "queued" => a \in aged

RowInv == \A row \in snap : RowOK(row)

\* What the daemon holds in its hands.
StopInv ==
    dpc \in Stopping =>
        LET a == <<cur.job, cur.n>>
        IN  /\ cur.final # "none"
            /\ cur.completion = "succeeded" <=> cur.final = "succeeded"
            /\ a \in finished \/ (Live(a) /\ status[cur.job] # "starting")
            /\ cur.final = "queued" =>
                   a \in aged /\ (a \in finished \/ status[cur.job] = "cancelling")
            /\ dpc = "final" => proc[a] \in Idle /\ a \notin container

StartInv == dpc \in Starting => Live(<<cur.job, cur.n>>)

\* The attempts of a job are numbered without a gap, and every one that was put
\* back or may be is owed to a crash of the daemon or to a slow start.
Used(j) == { n \in Numbers : <<j, n>> \in finished }

Owed(j) ==
    \/ Mine(j) \in aged
    \/ /\ status[j] = "starting"
       /\ \/ proc[Mine(j)] = "dead"
          \/ proc[Mine(j)] = "none" /\ ~(dpc = "launch" /\ cur.job = j)

CountInv ==
    \A j \in Requests :
        /\ status[j] \in {"none", "queued"} =>
               \E m \in 0..(crashes + slow) : Used(j) = 1..m
        /\ status[j] \in Active =>
               /\ Used(j) = 1..(attempt[j] - 1)
               /\ attempt[j] - 1 <= crashes + slow
               /\ Owed(j) => attempt[j] <= crashes + slow

BaseInv == TypeInv /\ AttemptInv /\ ProcInv /\ RowInv /\ StopInv /\ StartInv /\ CountInv

-----------------------------------------------------------------------------
\* A job that has run code is never put back.
RanInv ==
    /\ \A j \in Requests :
          /\ ran[j] = {} \/ \E n \in Numbers : ran[j] = {n}
          /\ ran[j] # {} => status[j] \notin {"none", "queued", "starting"}
                            /\ stopFinal[j] # "queued"
    /\ \A row \in snap :
          row.stop = "queued" /\ <<row.job, row.n>> \notin finished => ran[row.job] = {}
    /\ dpc \in Stopping /\ cur.final = "queued" /\ <<cur.job, cur.n>> \notin finished
           => ran[cur.job] = {}

\* A notification is marked before it is sent, and nothing is noted of a job
\* that is not settled.
ToldInv ==
    \A j \in Requests :
        /\ notify[j] # "none" => status[j] \in Terminal
        /\ j \in outbox \/ told[j] > 0 => notify[j] = "sent"
        /\ j \in outbox => told[j] = 0
        /\ told[j] <= 1

\* The locks of an owner, all of them while it may run.
Holds(o) == \A d \in Needs[o[1]] : [res |-> d[1], owner |-> o, mode |-> d[2]] \in locks

LockInv ==
    /\ NoLeakedLocks
    /\ \A a \in Attempts : Live(a) => Holds(a)
    /\ \A c \in Commands :
          /\ cli[c] \in {"holding", "pending", "dead"} /\ <<c, 0>> \notin finished
                 => Holds(<<c, 0>>)
          /\ cli[c] \in {"idle", "holding"} => <<c, 0>> \notin finished
    /\ \A l, k \in locks :
          l.res = k.res /\ l.owner # k.owner => l.mode = "read" /\ k.mode = "read"

\* The command that reconcile has stopped and is about to release was left.
LeftInv == dpc = "release" => Left(cur.job)

ActiveJobs == { j \in Requests : status[j] \in Active }

CapacityInv == IsFiniteSet(ActiveJobs) /\ Cardinality(ActiveJobs) <= Capacity

PublishedInv == \A j \in Requests : j \in published <=> status[j] = "succeeded"

\* The jobs that wait or are active fit into the queue and the capacity.
LoadInv == IsFiniteSet(Load) /\ LoadBounded

\* A local command that its owner has begun, and a container of a foreground
\* command, runs for an owner that is not finished, and not any more when the
\* daemon has confirmed the stop and is about to finish the owner.
RunInv ==
    /\ \A a \in Attempts :
          child[a] = "running" => Live(a) /\ ~(dpc = "final" /\ a = <<cur.job, cur.n>>)
    /\ \A c \in Commands :
          <<c, 0>> \in container \/ child[<<c, 0>>] = "running" =>
              /\ cli[c] \in {"holding", "pending", "dead"} /\ <<c, 0>> \notin finished
              /\ ~(dpc = "release" /\ c = cur.job)

-----------------------------------------------------------------------------
(***************************************************************************)
(* What a step does to the table of jobs.                                  *)
(***************************************************************************)

\* The steps of the containers and local commands of an owner.
Executes(o) ==
    ContainerStart(o) \/ ContainerEnd(o) \/ ChildCheck(o) \/ ChildRun(o) \/ ChildEnd(o)

SameFinished == \A a \in Attempts : a \in finished' <=> a \in finished

JobsSame == UNCHANGED <<status, attempt, stopFinal>> /\ SameFinished

JobSubmitted(q) ==
    /\ status[q] = "none" /\ status' = [status EXCEPT ![q] = "queued"]
    /\ Cardinality(Queued) < MaxQueued
    /\ UNCHANGED <<attempt, stopFinal, finished>>

JobCancelled(j) ==
    /\ status[j] = "queued" /\ status' = [status EXCEPT ![j] = "cancelled"]
    /\ UNCHANGED <<attempt, stopFinal, finished>>

\* The attempt is to be stopped, by a user, by reconcile or by a failed start.
JobStopped(j) ==
    /\ status[j] \in Active /\ status' = [status EXCEPT ![j] = "cancelling"]
    /\ \E f \in {"none", "queued", "failed", "lost"} :
          /\ stopFinal' = [stopFinal EXCEPT ![j] = f]
          /\ f = "queued" => \/ stopFinal[j] = "queued"
                             \/ status[j] = "starting" /\ Mine(j) \in aged
    /\ UNCHANGED <<attempt, finished>>

JobClaimed(j) ==
    /\ status[j] = "queued" /\ status' = [status EXCEPT ![j] = "starting"]
    /\ attempt' = [attempt EXCEPT ![j] = NextAttempt(j)[2]]
    /\ UNCHANGED <<stopFinal, finished>>

JobRegistered(a) ==
    /\ Live(a) /\ status[a[1]] = "starting"
    /\ status' = [status EXCEPT ![a[1]] = "running"]
    /\ UNCHANGED <<attempt, stopFinal, finished>>

\* finalize settles the job or puts it back.
JobSettled(j, final) ==
    /\ status[j] \in {"running", "cancelling"}
    /\ status' = [status EXCEPT ![j] = final]
    /\ attempt' = [attempt EXCEPT ![j] = IF final = "queued" THEN 0 ELSE attempt[j]]
    /\ stopFinal' = [stopFinal EXCEPT ![j] = "none"]
    /\ finished' = finished \cup {Mine(j)}
    /\ final = "queued" => Mine(j) \in aged
    /\ status[j] = "cancelling" => final # "succeeded"

SettlesCur ==
    /\ cur.job \in Requests /\ cur.n = attempt[cur.job]
    /\ \E f \in Finals : JobSettled(cur.job, f)

\* The steps of clients.
LEMMA ClientJobs ==
    ASSUME BaseInv, Clients \/ Boot
    PROVE  \/ JobsSame
           \/ \E j \in Requests : JobSubmitted(j) \/ JobCancelled(j) \/ JobStopped(j)
  <1>1. TypeOK
    BY DEF BaseInv, TypeInv
  <1>2. ASSUME NEW q \in Requests, SubmitAdmit(q)
        PROVE  JobsSame \/ JobSubmitted(q)
    <2>1. CASE /\ SameKey(q) = {} /\ status' = [status EXCEPT ![q] = "queued"]
               /\ Cardinality(Queued) < MaxQueued
      <3>1. status[q] = "none"
        BY <2>1 DEF SameKey, Jobs
      <3>2. UNCHANGED <<attempt, stopFinal, finished>>
        BY <1>2 DEF SubmitAdmit, tables
      <3> QED BY <2>1, <3>1, <3>2 DEF JobSubmitted
    <2>2. CASE UNCHANGED status
      BY <1>2, <2>2 DEF SubmitAdmit, tables, JobsSame, SameFinished
    <2> QED BY <1>2, <2>1, <2>2 DEF SubmitAdmit
  <1>3. ASSUME NEW j \in Requests, Cancel(j)
        PROVE  JobCancelled(j) \/ JobStopped(j)
    <2>1. CASE status[j] = "queued"
      BY <1>3, <2>1 DEF Cancel, JobCancelled
    <2>2. CASE status[j] # "queued"
      <3>1. status[j] \in Active
        BY <1>1, <1>3, <2>2 DEF TypeOK, Cancel, Jobs, Statuses
      <3>2. /\ status' = [status EXCEPT ![j] = "cancelling"]
            /\ UNCHANGED <<attempt, stopFinal, finished>>
        BY <1>3, <2>2 DEF Cancel
      <3>3. stopFinal' = [stopFinal EXCEPT ![j] = stopFinal[j]]
        BY <1>1, <3>2 DEF TypeOK
      <3>4. stopFinal[j] \in {"none", "queued", "failed", "lost"}
        BY <1>1 DEF TypeOK
      <3> QED BY <3>1, <3>2, <3>3, <3>4 DEF JobStopped
    <2> QED BY <2>1, <2>2
  <1>4. ASSUME \/ \E q \in Requests : SubmitLookup(q) \/ SubmitReturn(q) \/ Delete(q)
               \/ Drain \/ Start \/ Portal \/ Boot
        PROVE  JobsSame
    BY <1>4 DEF SubmitLookup, SubmitReturn, Delete, Drain, Start, Portal, Boot, jobs, tables,
                JobsSame, SameFinished
  <1> QED BY <1>2, <1>3, <1>4 DEF Clients

\* _request_stop for the attempt in hand.
LEMMA RequestJobs ==
    ASSUME BaseInv, NEW j \in Requests, NEW n \in Numbers,
           NEW final \in {"failed", "lost"}, RequestStop(j, n, final),
           UNCHANGED <<attempt, finished>>
    PROVE  JobsSame \/ JobStopped(j)
  <1>1. TypeOK /\ AttemptInv
    BY DEF BaseInv, TypeInv
  <1>2. CASE attempt[j] = n /\ status[j] \notin Terminal
    <2>1. n # 0
      BY DEF Numbers
    <2>2. status[j] \in Active
      BY <1>1, <1>2, <2>1 DEF TypeOK, Statuses, AttemptInv
    <2> DEFINE f == IF status[j] = "cancelling" THEN stopFinal[j] ELSE final
    <2>3. /\ status' = [status EXCEPT ![j] = "cancelling"]
          /\ stopFinal' = [stopFinal EXCEPT ![j] = f]
      BY <1>1, <1>2 DEF RequestStop, TypeOK
    <2>4. /\ f \in {"none", "queued", "failed", "lost"}
          /\ f = "queued" => stopFinal[j] = "queued"
      BY <1>1 DEF TypeOK
    <2> HIDE DEF f
    <2> QED BY <2>2, <2>3, <2>4 DEF JobStopped
  <1>3. CASE ~(attempt[j] = n /\ status[j] \notin Terminal)
    BY <1>3 DEF RequestStop, JobsSame, SameFinished
  <1> QED BY <1>2, <1>3

\* The steps of the daemon that stop an attempt.
LEMMA ScanJobs ==
    ASSUME BaseInv, NEW row \in snap,
           \/ ScanStarting(row) \/ ScanRunning(row) \/ ScanOver(row)
           \/ StopConfirmed(row) \/ StopUnconfirmed(row)
    PROVE  JobsSame \/ JobStopped(row.job)
  <1>1. TypeOK /\ row \in Rows
    BY DEF BaseInv, TypeInv, MoreTypes
  <1>2. row.job \in Requests /\ row.n \in Numbers
    BY <1>1 DEF Rows
  <1>3. CASE ScanStarting(row)
    <2>1. UNCHANGED <<attempt, finished>>
      BY <1>3 DEF ScanStarting, tables
    <2>2. CASE UNCHANGED <<status, stopFinal>>
      BY <2>1, <2>2 DEF JobsSame, SameFinished
    <2>3. CASE ~UNCHANGED <<status, stopFinal>>
      <3>1. /\ <<row.job, row.n>> \in aged
            /\ status[row.job] = "starting" /\ attempt[row.job] = row.n
            /\ status' = [status EXCEPT ![row.job] = "cancelling"]
            /\ stopFinal' = [stopFinal EXCEPT ![row.job] = "queued"]
        BY <1>3, <2>3 DEF ScanStarting
      <3> QED BY <2>1, <3>1 DEF JobStopped, Mine, Active
    <2> QED BY <2>2, <2>3
  <1>4. CASE ScanOver(row)
    <2>1. /\ UNCHANGED <<attempt, finished>>
          /\ RequestStop(row.job, row.n, "failed")
      BY <1>4 DEF ScanOver, tables
    <2> QED BY <1>2, <2>1, RequestJobs
  <1>5. CASE ScanRunning(row) \/ StopConfirmed(row) \/ StopUnconfirmed(row)
    BY <1>5 DEF ScanRunning, StopConfirmed, StopUnconfirmed, StopPartly, jobs, tables, JobsSame, SameFinished
  <1> QED BY <1>3, <1>4, <1>5

\* finalize, when it does not give up, settles the attempt in hand.
LEMMA FinalizeJobs ==
    ASSUME BaseInv, Finalize, Finalizable(cur)
    PROVE  /\ cur.job \in Requests /\ cur.n = attempt[cur.job]
           /\ Settled(cur) \in Finals
           /\ JobSettled(cur.job, Settled(cur))
  <1>1. dpc = "final"
    BY DEF Finalize
  <1>2. TypeOK /\ AttemptInv /\ cur \in Claims
    BY <1>1 DEF BaseInv, TypeInv, MoreTypes, Stopping
  <1>3. /\ cur.job \in Requests /\ cur.n \in Numbers
        /\ cur.final \in {"none"} \cup Finals
    BY <1>2 DEF Claims
  <1> DEFINE j == cur.job
             a == <<cur.job, cur.n>>
  <1>4. /\ cur.final # "none"
        /\ a \in finished \/ (Live(a) /\ status[j] # "starting")
        /\ cur.final = "queued" => a \in aged
    BY <1>1 DEF BaseInv, StopInv, Stopping
  <1>5. attempt[j] = cur.n /\ a = Mine(j) /\ status[j] \notin Terminal
    BY DEF Finalizable, Mine
  <1>6. status[j] \in Active
    BY <1>2, <1>3, <1>5 DEF TypeOK, Statuses, AttemptInv, Numbers
  <1>7. status[j] \in {"running", "cancelling"}
    BY <1>2, <1>3, <1>4, <1>5, <1>6 DEF AttemptInv, Active
  <1>8. stopFinal[j] \in {"none", "queued", "failed", "lost"}
    BY <1>2, <1>3 DEF TypeOK
  <1>9. Settled(cur) \in Finals
    BY <1>3, <1>4, <1>8 DEF Settled, Finals
  <1>10. Settled(cur) = "queued" => Mine(j) \in aged
    BY <1>2, <1>3, <1>4, <1>5 DEF Settled, AttemptInv
  <1>11. status[j] = "cancelling" => Settled(cur) # "succeeded"
    BY <1>8 DEF Settled
  <1>12. /\ status' = [status EXCEPT ![j] = Settled(cur)]
         /\ stopFinal' = [stopFinal EXCEPT ![j] = "none"]
         /\ finished' = finished \cup {<<j, cur.n>>}
         /\ attempt' = [attempt EXCEPT ![j] = IF Settled(cur) = "queued" THEN 0 ELSE attempt[j]]
    BY <1>2, <1>3 DEF Finalize, Release, TypeOK
  <1> QED BY <1>3, <1>5, <1>7, <1>9, <1>10, <1>11, <1>12 DEF JobSettled

\* The steps of the daemon.
LEMMA LoopJobs ==
    ASSUME BaseInv, Loop \/ Crash
    PROVE  \/ JobsSame
           \/ \E j \in Requests : \/ JobStopped(j)
                                  \/ dpc = "dispatch" /\ dpc' = "launch" /\ JobClaimed(j)
           \/ Finalize /\ SettlesCur
  <1>1. TypeOK /\ MoreTypes
    BY DEF BaseInv, TypeInv
  <1>2. ASSUME NEW row \in snap,
               \/ ScanStarting(row) \/ ScanRunning(row) \/ ScanOver(row)
               \/ StopConfirmed(row) \/ StopUnconfirmed(row)
        PROVE  JobsSame \/ \E j \in Requests : JobStopped(j)
    <2>1. row.job \in Requests
      BY <1>1, <1>2 DEF MoreTypes, Rows
    <2> QED BY <1>2, <2>1, ScanJobs
  <1>3. CASE Unconfirmed \/ StartFailed
    <2>1. cur \in Claims
      BY <1>1, <1>3 DEF MoreTypes, Unconfirmed, StartFailed, Stopping, Starting
    <2>2. cur.job \in Requests /\ cur.n \in Numbers
      BY <2>1 DEF Claims
    <2>3. /\ UNCHANGED <<attempt, finished>>
          /\ \E f \in {"failed", "lost"} : RequestStop(cur.job, cur.n, f)
      BY <1>3 DEF Unconfirmed, StartFailed, tables
    <2> QED BY <2>2, <2>3, RequestJobs
  <1>4. CASE Finalize
    <2>1. CASE Finalizable(cur)
      BY <1>4, <2>1, FinalizeJobs DEF SettlesCur
    <2>2. CASE ~Finalizable(cur)
      BY <1>4, <2>2 DEF Finalize, JobsSame, SameFinished
    <2> QED BY <2>1, <2>2
  <1>5. CASE Standalone
    <2>1. UNCHANGED <<status, attempt, stopFinal>>
      BY <1>5 DEF Standalone, StandaloneStop, StandaloneRelease, StandaloneEnd, jobs
    <2>2. finished' = finished \/ finished' = finished \cup {<<cur.job, 0>>}
      BY <1>5 DEF Standalone, StandaloneStop, StandaloneRelease, StandaloneEnd, Release, tables
    <2>3. <<cur.job, 0>> \notin Attempts
      BY DEF Attempts, Numbers
    <2> QED BY <2>1, <2>2, <2>3 DEF JobsSame, SameFinished
  <1>6. ASSUME NEW j \in Requests, Claim(j)
        PROVE  dpc = "dispatch" /\ dpc' = "launch" /\ JobClaimed(j)
    <2>1. status[j] = "queued"
      BY <1>6 DEF Claim, Claimable, Oldest, Queued
    <2> QED BY <1>6, <2>1 DEF Claim, JobClaimed
  <1>7. ASSUME Tick \/ ClaimNone \/ Launch \/ Identify \/ NotifyMark
               \/ (\E j \in Requests : NotifySend(j)) \/ LoopEnd \/ Exit \/ Crash
        PROVE  JobsSame
    BY <1>7 DEF Tick, ClaimNone, Launch, Identify, NotifyMark, NotifySend, LoopEnd, Exit,
                Crash, jobs, tables, JobsSame, SameFinished
  <1> QED BY <1>2, <1>3, <1>4, <1>5, <1>6, <1>7 DEF Loop

\* The steps of processes, commands and the clock.
LEMMA ProcessJobs ==
    ASSUME BaseInv, Processes \/ Executions \/ Foreground \/ Clock
    PROVE  JobsSame \/ \E a \in Attempts : Register(a) /\ JobRegistered(a)
  <1>1. ASSUME NEW a \in Attempts, Register(a)
        PROVE  JobsSame \/ JobRegistered(a)
    <2>1. CASE MayRegister(a)
      BY <1>1, <2>1 DEF Register, MayRegister, Current, JobRegistered, Live, Active
    <2>2. CASE ~MayRegister(a)
      BY <1>1, <2>2 DEF Register, JobsSame, SameFinished
    <2> QED BY <2>1, <2>2
  <1>2. ASSUME NEW a \in Attempts,
               \/ WorkerFinish(a) \/ WorkerCommit(a) \/ WorkerExit(a) \/ WorkerDie(a)
               \/ Age(a)
        PROVE  JobsSame
    BY <1>2 DEF WorkerFinish, WorkerCommit, WorkerExit, WorkerDie, Age, jobs, tables,
                JobsSame, SameFinished
  <1>20. ASSUME NEW o \in Owners, Executes(o)
        PROVE  JobsSame
    BY <1>20 DEF Executes, ContainerStart, ContainerEnd, ChildCheck, ChildRun, ChildEnd,
                jobs, tables, JobsSame, SameFinished
  <1>3. ASSUME NEW c \in Commands, CliHold(c) \/ CliRelease(c) \/ CliDie(c)
        PROVE  JobsSame
    <2>1. UNCHANGED <<status, attempt, stopFinal>>
      BY <1>3 DEF CliHold, CliRelease, CliDie, jobs
    <2>2. finished' = finished \/ finished' = finished \cup {<<c, 0>>}
      BY <1>3 DEF CliHold, CliRelease, CliDie, Release, tables
    <2>3. <<c, 0>> \notin Attempts
      BY DEF Attempts, Numbers
    <2> QED BY <2>1, <2>2, <2>3 DEF JobsSame, SameFinished
  <1> QED BY <1>1, <1>2, <1>3, <1>20 DEF Processes, Executions, Executes, Foreground, Clock

\* Every step has one of these effects.
LEMMA JobEffects ==
    ASSUME BaseInv, [Next]_vars
    PROVE  \/ JobsSame
           \/ \E j \in Requests : \/ JobSubmitted(j) \/ JobCancelled(j) \/ JobStopped(j)
                                  \/ dpc = "dispatch" /\ dpc' = "launch" /\ JobClaimed(j)
           \/ \E a \in Attempts : Register(a) /\ JobRegistered(a)
           \/ Finalize /\ SettlesCur
  <1>1. CASE UNCHANGED vars
    BY <1>1 DEF vars, jobs, tables, JobsSame, SameFinished
  <1> QED BY <1>1, ClientJobs, LoopJobs, ProcessJobs DEF Next

\* The next attempt of a queued job is a new one and its number is in bounds.
LEMMA NextNumber ==
    ASSUME BaseInv, NEW j \in Requests, status[j] = "queued"
    PROVE  /\ NextAttempt(j) = <<j, NextAttempt(j)[2]>>
           /\ NextAttempt(j)[2] \in Numbers
           /\ NextAttempt(j) \notin finished
           /\ Used(j) = 1..(NextAttempt(j)[2] - 1)
           /\ NextAttempt(j)[2] - 1 <= crashes + slow
  <1>1. MoreTypes /\ CountInv
    BY DEF BaseInv, TypeInv
  <1>2. crashes \in 0..MaxCrashes /\ slow \in 0..MaxSlow
    BY <1>1 DEF MoreTypes
  <1>3. MaxCrashes \in Nat /\ MaxSlow \in Nat
    BY RuntimeAssumption
  <1>4. PICK m \in 0..(crashes + slow) : Used(j) = 1..m
    BY <1>1 DEF CountInv
  <1>5. m \in Nat /\ m <= MaxCrashes + MaxSlow
    BY <1>2, <1>3, <1>4
  <1>6. Cardinality(1..m) = m
    BY <1>5, FS_Interval
  <1>7. NextAttempt(j) = <<j, 1 + m>>
    BY <1>4, <1>6 DEF NextAttempt, Used
  <1>8. 1 + m \in Numbers
    BY <1>3, <1>5 DEF Numbers
  <1>9. 1 + m \notin Used(j)
    BY <1>4, <1>5
  <1>10. <<j, 1 + m>> \notin finished
    BY <1>8, <1>9 DEF Used
  <1>11. (1 + m) - 1 = m
    BY <1>5
  <1> QED BY <1>2, <1>3, <1>4, <1>5, <1>7, <1>8, <1>10, <1>11

\* An attempt goes on: a finished one stays finished, a live one stays live or
\* finishes, and it never goes back to its start.
Onward(a) ==
    /\ a \in finished => a \in finished'
    /\ Live(a) => \/ a \in finished'
                  \/ /\ Live(a)'
                     /\ status[a[1]] # "starting" => status'[a[1]] # "starting"
                     /\ status[a[1]] = "cancelling" => status'[a[1]] = "cancelling"

\* No step takes an attempt back.
LEMMA Forward ==
    ASSUME BaseInv, [Next]_vars, NEW a \in Attempts
    PROVE  Onward(a)
  <1>1. TypeOK /\ AttemptInv
    BY DEF BaseInv, TypeInv
  <1>2. a[1] \in Requests /\ a = <<a[1], a[2]>> /\ a[2] \in Numbers
    BY DEF Attempts
  <1>3. CASE JobsSame
    BY <1>3 DEF JobsSame, SameFinished, Onward, Live
  <1>4. ASSUME NEW j \in Requests,
               \/ JobSubmitted(j) \/ JobCancelled(j)
               \/ dpc = "dispatch" /\ dpc' = "launch" /\ JobClaimed(j)
        PROVE  Onward(a)
    <2>1. /\ status[j] \notin Active
          /\ finished' = finished
          /\ \E s : status' = [status EXCEPT ![j] = s]
          /\ \E n : attempt' = [attempt EXCEPT ![j] = n]
      BY <1>1, <1>4 DEF JobSubmitted, JobCancelled, JobClaimed, Active, TypeOK
    <2>2. Live(a) => a[1] # j
      BY <2>1 DEF Live
    <2>3. a[1] # j => attempt'[a[1]] = attempt[a[1]] /\ status'[a[1]] = status[a[1]]
      BY <1>1, <1>2, <2>1 DEF TypeOK
    <2> QED BY <2>1, <2>2, <2>3 DEF Onward, Live
  <1>5. ASSUME NEW j \in Requests, JobStopped(j)
        PROVE  Onward(a)
    <2>1. \A i \in Requests : status'[i] = IF i = j THEN "cancelling" ELSE status[i]
      BY <1>1, <1>5 DEF JobStopped, TypeOK
    <2> QED BY <1>2, <1>5, <2>1 DEF JobStopped, Onward, Live, Active
  <1>6. ASSUME NEW b \in Attempts, JobRegistered(b)
        PROVE  Onward(a)
    <2>1. \A i \in Requests : status'[i] = IF i = b[1] THEN "running" ELSE status[i]
      BY <1>1, <1>6 DEF JobRegistered, TypeOK
    <2> QED BY <1>2, <1>6, <2>1 DEF JobRegistered, Onward, Live, Active
  <1>7. CASE SettlesCur
    <2>1. PICK f \in Finals : JobSettled(cur.job, f)
      BY <1>7 DEF SettlesCur
    <2>2. /\ finished' = finished \cup {Mine(cur.job)}
          /\ status' = [status EXCEPT ![cur.job] = f]
          /\ \E n : attempt' = [attempt EXCEPT ![cur.job] = n]
      BY <2>1 DEF JobSettled
    <2>3. CASE a[1] = cur.job
      BY <1>2, <2>2, <2>3 DEF Onward, Live, Mine
    <2>4. CASE a[1] # cur.job
      <3>1. attempt'[a[1]] = attempt[a[1]] /\ status'[a[1]] = status[a[1]]
        BY <1>1, <1>2, <2>2, <2>4 DEF TypeOK
      <3> QED BY <2>2, <3>1 DEF Onward, Live
    <2> QED BY <2>3, <2>4
  <1> QED BY <1>3, <1>4, <1>5, <1>6, <1>7, JobEffects

\* A step finishes no attempt but the one finalize has in hand.
LEMMA Finishes ==
    ASSUME BaseInv, [Next]_vars, NEW a \in Attempts, a \in finished'
    PROVE  a \in finished \/ (Finalize /\ a = <<cur.job, cur.n>>)
  <1>1. CASE JobsSame
    BY <1>1 DEF JobsSame, SameFinished
  <1>2. CASE finished' = finished
    BY <1>2
  <1>3. CASE Finalize /\ SettlesCur
    BY <1>3 DEF SettlesCur, JobSettled, Mine
  <1> QED BY <1>1, <1>2, <1>3, JobEffects
          DEF JobSubmitted, JobCancelled, JobStopped, JobClaimed, JobRegistered

\* A live attempt was live before, or was claimed in this step.
LEMMA Backward ==
    ASSUME BaseInv, [Next]_vars, NEW a \in Attempts, Live(a)'
    PROVE  \/ Live(a) /\ (status'[a[1]] = "starting" => status[a[1]] = "starting")
           \/ /\ dpc = "dispatch" /\ dpc' = "launch"
              /\ JobClaimed(a[1]) /\ a = NextAttempt(a[1])
  <1>1. TypeOK /\ AttemptInv
    BY DEF BaseInv, TypeInv
  <1>2. a[1] \in Requests /\ a = <<a[1], a[2]>> /\ a[2] \in Numbers
    BY DEF Attempts
  <1>3. CASE JobsSame
    BY <1>3 DEF JobsSame, Live
  <1>4. ASSUME NEW j \in Requests, JobSubmitted(j) \/ JobCancelled(j)
        PROVE  Live(a) /\ (status'[a[1]] = "starting" => status[a[1]] = "starting")
    <2>1. /\ attempt' = attempt
          /\ \A i \in Requests : status'[i] = status[i] \/ status'[i] \in {"queued", "cancelled"}
      BY <1>1, <1>4 DEF JobSubmitted, JobCancelled, TypeOK
    <2> QED BY <1>2, <2>1 DEF Live, Active
  <1>5. ASSUME NEW j \in Requests, JobStopped(j)
        PROVE  Live(a) /\ (status'[a[1]] = "starting" => status[a[1]] = "starting")
    <2>1. \A i \in Requests : status'[i] = IF i = j THEN "cancelling" ELSE status[i]
      BY <1>1, <1>5 DEF JobStopped, TypeOK
    <2> QED BY <1>2, <1>5, <2>1 DEF JobStopped, Live
  <1>6. ASSUME NEW b \in Attempts, JobRegistered(b)
        PROVE  Live(a) /\ (status'[a[1]] = "starting" => status[a[1]] = "starting")
    <2>1. \A i \in Requests : status'[i] = IF i = b[1] THEN "running" ELSE status[i]
      BY <1>1, <1>6 DEF JobRegistered, TypeOK
    <2> QED BY <1>2, <1>6, <2>1 DEF JobRegistered, Live
  <1>7. CASE SettlesCur
    <2>1. PICK f \in Finals : JobSettled(cur.job, f)
      BY <1>7 DEF SettlesCur
    <2>2. \A i \in Requests : i # cur.job => status'[i] = status[i] /\ attempt'[i] = attempt[i]
      BY <1>1, <2>1 DEF JobSettled, TypeOK
    <2>3. status'[cur.job] = f
      BY <1>1, <1>7, <2>1 DEF JobSettled, TypeOK, SettlesCur
    <2>4. f \notin Active
      BY DEF Finals, Active
    <2> QED BY <1>2, <2>2, <2>3, <2>4 DEF Live
  <1>8. ASSUME NEW j \in Requests, dpc = "dispatch", dpc' = "launch", JobClaimed(j)
        PROVE  \/ Live(a)
                    /\ (status'[a[1]] = "starting" => status[a[1]] = "starting")
               \/ JobClaimed(a[1]) /\ a = NextAttempt(a[1])
    <2>1. \A i \in Requests : i # j => status'[i] = status[i] /\ attempt'[i] = attempt[i]
      BY <1>1, <1>8 DEF JobClaimed, TypeOK
    <2>2. attempt'[j] = NextAttempt(j)[2]
      BY <1>1, <1>8 DEF JobClaimed, TypeOK
    <2>3. NextAttempt(j) = <<j, NextAttempt(j)[2]>>
      BY DEF NextAttempt
    <2>4. CASE a[1] = j
      BY <1>2, <1>8, <2>2, <2>3, <2>4 DEF Live
    <2>5. CASE a[1] # j
      BY <1>2, <2>1, <2>5 DEF Live
    <2> QED BY <2>4, <2>5
  <1> QED BY <1>3, <1>4, <1>5, <1>6, <1>7, <1>8, JobEffects

-----------------------------------------------------------------------------
(***************************************************************************)
(* What a step does to the clock and the daemon.                           *)
(***************************************************************************)

\* Only the clock adds to `aged'; time is counted up.
ClockSame == UNCHANGED <<aged, slow, crashes>>

\* Which steps move the clock or count an excuse.
LEMMA ClockEffects ==
    ASSUME [Next]_vars
    PROVE  \/ ClockSame
           \/ \E a \in Attempts : Age(a) \/ WorkerDie(a)
           \/ Crash
  <1>1. ASSUME Clients \/ Boot
        PROVE  ClockSame
    BY <1>1 DEF Clients, SubmitLookup, SubmitAdmit, SubmitReturn, Cancel, Delete, Drain,
                Start, Portal, Boot, world, ClockSame
  <1>2. ASSUME NEW row \in snap,
               \/ ScanStarting(row) \/ ScanRunning(row) \/ ScanOver(row)
               \/ StopConfirmed(row) \/ StopUnconfirmed(row)
        PROVE  ClockSame
    BY <1>2 DEF ScanStarting, ScanRunning, ScanOver, StopConfirmed, StopUnconfirmed, StopPartly, world, ClockSame
  <1>3. ASSUME NEW j \in Requests, Claim(j) \/ NotifySend(j)
        PROVE  ClockSame
    BY <1>3 DEF Claim, NotifySend, world, ClockSame
  <1>4. ASSUME Tick \/ Unconfirmed \/ Finalize \/ Standalone \/ ClaimNone \/ Launch
               \/ Identify \/ StartFailed \/ NotifyMark \/ LoopEnd \/ Exit
        PROVE  ClockSame
    BY <1>4 DEF Tick, Unconfirmed, Finalize, Standalone, StandaloneStop,
                StandaloneRelease, StandaloneEnd, ClaimNone, Launch, Identify,
                StartFailed, NotifyMark, LoopEnd, Exit, world, ClockSame
  <1>5. ASSUME NEW a \in Attempts,
               Register(a) \/ WorkerFinish(a) \/ WorkerCommit(a) \/ WorkerExit(a)
        PROVE  ClockSame
    BY <1>5 DEF Register, WorkerFinish, WorkerCommit, WorkerExit, world, ClockSame
  <1>20. ASSUME NEW o \in Owners, Executes(o)
        PROVE  ClockSame
    BY <1>20 DEF Executes, ContainerStart, ContainerEnd, ChildCheck, ChildRun, ChildEnd,
                world, ClockSame
  <1>6. ASSUME NEW c \in Commands, CliHold(c) \/ CliRelease(c) \/ CliDie(c)
        PROVE  ClockSame
    BY <1>6 DEF CliHold, CliRelease, CliDie, world, ClockSame
  <1>7. CASE UNCHANGED vars
    BY <1>7 DEF vars, world, ClockSame
  <1> QED BY <1>1, <1>2, <1>3, <1>4, <1>5, <1>6, <1>7, <1>20
          DEF Next, Loop, Processes, Executions, Executes, Foreground, Clock

\* A start that took too long stays one.
LEMMA AgedGrows ==
    ASSUME [Next]_vars
    PROVE  aged \subseteq aged'
  BY ClockEffects DEF ClockSame, Age, WorkerDie, Crash

\* The daemon goes on with what it has in hand, or takes a row or a claim.
DaemonSame == UNCHANGED <<dpc, cur>>

\* Which steps change what the daemon has in hand.
LEMMA DaemonEffects ==
    ASSUME [Next]_vars
    PROVE  \/ DaemonSame
           \/ dpc' \notin Stopping \cup Starting \cup {"release"}
           \/ \E c \in Commands : StandaloneStop(c)
           \/ \E row \in snap : StopConfirmed(row) \/ StopUnconfirmed(row)
           \/ \E j \in Requests : Claim(j)
           \/ Launch
  <1>1. ASSUME Clients
        PROVE  DaemonSame
    BY <1>1 DEF Clients, SubmitLookup, SubmitAdmit, SubmitReturn, Cancel, Delete, Drain,
                Start, Portal, daemon, DaemonSame
  <1>2. ASSUME NEW row \in snap, ScanStarting(row) \/ ScanRunning(row) \/ ScanOver(row)
        PROVE  DaemonSame
    BY <1>2 DEF ScanStarting, ScanRunning, ScanOver, DaemonSame
  <1>3. ASSUME NEW j \in Requests, NotifySend(j)
        PROVE  DaemonSame
    BY <1>3 DEF NotifySend, DaemonSame
  <1>4. ASSUME Tick \/ Unconfirmed \/ Finalize \/ StandaloneRelease \/ StandaloneEnd
               \/ ClaimNone \/ Identify \/ StartFailed \/ NotifyMark \/ LoopEnd \/ Exit \/ Crash
        PROVE  dpc' \notin Stopping \cup Starting \cup {"release"}
    BY <1>4 DEF Tick, Unconfirmed, Finalize, StandaloneRelease, StandaloneEnd, ClaimNone,
                Identify, StartFailed, NotifyMark, LoopEnd, Exit, Crash, Stopping, Starting
  <1>5. ASSUME NEW a \in Attempts,
               \/ Register(a) \/ WorkerFinish(a) \/ WorkerCommit(a) \/ WorkerExit(a)
               \/ WorkerDie(a) \/ Age(a)
        PROVE  DaemonSame
    BY <1>5 DEF Register, WorkerFinish, WorkerCommit, WorkerExit, WorkerDie, Age, daemon,
                DaemonSame
  <1>20. ASSUME NEW o \in Owners, Executes(o)
        PROVE  DaemonSame
    BY <1>20 DEF Executes, ContainerStart, ContainerEnd, ChildCheck, ChildRun, ChildEnd,
                daemon, DaemonSame
  <1>6. ASSUME NEW c \in Commands, CliHold(c) \/ CliRelease(c) \/ CliDie(c)
        PROVE  DaemonSame
    BY <1>6 DEF CliHold, CliRelease, CliDie, daemon, DaemonSame
  <1>7. CASE UNCHANGED vars
    BY <1>7 DEF vars, daemon, DaemonSame
  <1>8. CASE Boot
    BY <1>8 DEF Boot, DaemonSame, Stopping, Starting
  <1> QED BY <1>1, <1>2, <1>3, <1>4, <1>5, <1>6, <1>7, <1>8, <1>20
          DEF Next, Loop, Standalone, Processes, Executions, Executes, Foreground, Clock

\* reconcile reads rows in tick, and then only forgets them.
LEMMA SnapEffects ==
    ASSUME [Next]_vars
    PROVE  Tick \/ snap' \subseteq snap
  <1>1. ASSUME Clients \/ Boot
        PROVE  snap' = snap
    BY <1>1 DEF Clients, SubmitLookup, SubmitAdmit, SubmitReturn, Cancel, Delete, Drain,
                Start, Portal, Boot, daemon
  <1>2. ASSUME NEW row \in snap,
               \/ ScanStarting(row) \/ ScanRunning(row) \/ ScanOver(row)
               \/ StopConfirmed(row) \/ StopUnconfirmed(row)
        PROVE  snap' \subseteq snap
    BY <1>2 DEF ScanStarting, ScanRunning, ScanOver, StopConfirmed, StopUnconfirmed, StopPartly, Handled
  <1>3. ASSUME NEW j \in Requests, Claim(j) \/ NotifySend(j)
        PROVE  snap' = snap
    BY <1>3 DEF Claim, NotifySend
  <1>4. ASSUME Unconfirmed \/ Finalize \/ Standalone \/ ClaimNone \/ Launch
               \/ Identify \/ StartFailed \/ NotifyMark \/ LoopEnd \/ Exit \/ Crash
        PROVE  snap' \subseteq snap
    BY <1>4 DEF Unconfirmed, Finalize, Standalone, StandaloneStop,
                StandaloneRelease, StandaloneEnd, ClaimNone, Launch, Identify,
                StartFailed, NotifyMark, LoopEnd, Exit, Crash
  <1>5. ASSUME NEW a \in Attempts,
               \/ Register(a) \/ WorkerFinish(a) \/ WorkerCommit(a) \/ WorkerExit(a)
               \/ WorkerDie(a) \/ Age(a)
        PROVE  snap' = snap
    BY <1>5 DEF Register, WorkerFinish, WorkerCommit, WorkerExit, WorkerDie, Age, daemon
  <1>20. ASSUME NEW o \in Owners, Executes(o)
        PROVE  snap' = snap
    BY <1>20 DEF Executes, ContainerStart, ContainerEnd, ChildCheck, ChildRun, ChildEnd,
                daemon
  <1>6. ASSUME NEW c \in Commands, CliHold(c) \/ CliRelease(c) \/ CliDie(c)
        PROVE  snap' = snap
    BY <1>6 DEF CliHold, CliRelease, CliDie, daemon
  <1>7. CASE UNCHANGED vars
    BY <1>7 DEF vars, daemon
  <1> QED BY <1>1, <1>2, <1>3, <1>4, <1>5, <1>6, <1>7, <1>20
          DEF Next, Loop, Processes, Executions, Executes, Foreground, Clock

\* Processes and containers: started, registered, stopped, or on their own.
ProcSame == UNCHANGED proc /\ \A a \in Attempts : a \in container' <=> a \in container

\* Which steps change processes and containers.
LEMMA ProcEffects ==
    ASSUME [Next]_vars
    PROVE  \/ ProcSame
           \/ Launch
           \/ \E row \in snap : StopConfirmed(row) \/ StopUnconfirmed(row)
           \/ \E a \in Attempts : \/ Register(a) \/ WorkerFinish(a) \/ WorkerCommit(a)
                                  \/ WorkerExit(a) \/ WorkerDie(a)
                                  \/ ContainerStart(a) \/ ContainerEnd(a)
  <1>1. ASSUME Clients \/ Boot
        PROVE  ProcSame
    BY <1>1 DEF Clients, SubmitLookup, SubmitAdmit, SubmitReturn, Cancel, Delete, Drain,
                Start, Portal, Boot, procs, ProcSame
  <1>2. ASSUME NEW row \in snap, ScanStarting(row) \/ ScanRunning(row) \/ ScanOver(row)
        PROVE  ProcSame
    BY <1>2 DEF ScanStarting, ScanRunning, ScanOver, procs, ProcSame
  <1>3. ASSUME NEW j \in Requests, Claim(j) \/ NotifySend(j)
        PROVE  ProcSame
    BY <1>3 DEF Claim, NotifySend, procs, ProcSame
  <1>4. ASSUME Tick \/ Unconfirmed \/ Finalize \/ StandaloneRelease \/ StandaloneEnd
               \/ ClaimNone \/ Identify \/ StartFailed \/ NotifyMark \/ LoopEnd \/ Exit \/ Crash
        PROVE  ProcSame
    BY <1>4 DEF Tick, Unconfirmed, Finalize, StandaloneRelease, StandaloneEnd, ClaimNone,
                Identify, StartFailed, NotifyMark, LoopEnd, Exit, Crash, procs, ProcSame
  <1>5. ASSUME NEW a \in Attempts, Age(a)
        PROVE  ProcSame
    BY <1>5 DEF Age, procs, ProcSame
  <1>6. ASSUME NEW c \in Commands,
               \/ CliHold(c) \/ CliRelease(c) \/ CliDie(c) \/ StandaloneStop(c)
               \/ ContainerStart(<<c, 0>>) \/ ContainerEnd(<<c, 0>>)
        PROVE  ProcSame
    <2>1. /\ UNCHANGED proc
          /\ \A o : o # <<c, 0>> => (o \in container' <=> o \in container)
      BY <1>6 DEF CliHold, CliRelease, CliDie, StandaloneStop, ContainerStart, ContainerEnd
    <2>2. <<c, 0>> \notin Attempts
      BY DEF Attempts, Numbers
    <2> QED BY <2>1, <2>2 DEF ProcSame
  <1>8. ASSUME NEW o \in Owners, ChildCheck(o) \/ ChildRun(o) \/ ChildEnd(o)
        PROVE  ProcSame
    BY <1>8 DEF ChildCheck, ChildRun, ChildEnd, ProcSame
  <1>9. ASSUME NEW o \in Owners, ContainerStart(o) \/ ContainerEnd(o)
        PROVE  ProcSame \/ \E a \in Attempts : ContainerStart(a) \/ ContainerEnd(a)
    <2>1. o \in Attempts \/ \E c \in Commands : o = <<c, 0>>
      BY DEF Owners
    <2> QED BY <1>6, <1>9, <2>1
  <1>7. CASE UNCHANGED vars
    BY <1>7 DEF vars, procs, ProcSame
  <1> QED BY <1>1, <1>2, <1>3, <1>4, <1>5, <1>6, <1>7, <1>8, <1>9
          DEF Next, Loop, Standalone, Processes, Executions, Foreground, Clock

-----------------------------------------------------------------------------
(***************************************************************************)
(* The base invariant is inductive, part by part.                          *)
(***************************************************************************)

AttemptOK(j) ==
    /\ status[j] \in {"none", "queued"} => attempt[j] = 0
    /\ status[j] \in Active => attempt[j] \in Numbers /\ Mine(j) \notin finished
    /\ status[j] \in Terminal => attempt[j] = 0 \/ Mine(j) \in finished
    /\ stopFinal[j] # "none" => status[j] = "cancelling"
    /\ stopFinal[j] = "queued" => Mine(j) \in aged

\* A job that a step does not touch.
LEMMA AttemptOther ==
    ASSUME TypeOK, NEW j \in Requests, AttemptOK(j), aged \subseteq aged',
           status'[j] = status[j], attempt'[j] = attempt[j], stopFinal'[j] = stopFinal[j],
           Mine(j) \in Attempts => (Mine(j) \in finished' <=> Mine(j) \in finished)
    PROVE  AttemptOK(j)'
  <1>1. attempt[j] \in {0} \cup Numbers
    BY DEF TypeOK
  <1>2. attempt[j] # 0 => Mine(j) \in Attempts
    BY <1>1 DEF Mine, Attempts
  <1>3. 0 \notin Numbers
    BY DEF Numbers
  <1> QED BY <1>1, <1>2, <1>3 DEF AttemptOK, Mine

\* The status, the attempt and stop_final of a job stay consistent.
LEMMA AttemptStep ==
    ASSUME BaseInv, [Next]_vars
    PROVE  AttemptInv'
  <1>1. TypeOK /\ AttemptInv
    BY DEF BaseInv, TypeInv
  <1>2. aged \subseteq aged'
    BY AgedGrows
  <1>3. \A i \in Requests : AttemptOK(i)
    BY <1>1 DEF AttemptInv, AttemptOK
  <1> SUFFICES ASSUME NEW i \in Requests
               PROVE  AttemptOK(i)'
    BY DEF AttemptInv, AttemptOK
  <1>4. CASE JobsSame
    BY <1>1, <1>2, <1>3, <1>4, AttemptOther DEF JobsSame, SameFinished
  <1>5. ASSUME NEW j \in Requests, JobSubmitted(j) \/ JobCancelled(j)
        PROVE  AttemptOK(i)'
    <2>1. UNCHANGED <<attempt, stopFinal, finished>>
      BY <1>5 DEF JobSubmitted, JobCancelled
    <2>2. CASE i # j
      <3>1. status'[i] = status[i]
        BY <1>1, <1>5, <2>2 DEF JobSubmitted, JobCancelled, TypeOK
      <3> QED BY <1>1, <1>2, <1>3, <2>1, <3>1, AttemptOther
    <2>3. CASE i = j
      <3>1. status[i] \in {"none", "queued"} /\ status'[i] \in {"queued", "cancelled"}
        BY <1>1, <1>5, <2>3 DEF JobSubmitted, JobCancelled, TypeOK
      <3>2. attempt[i] = 0 /\ stopFinal[i] = "none"
        BY <1>3, <3>1 DEF AttemptOK
      <3> QED BY <2>1, <3>1, <3>2 DEF AttemptOK, Active
    <2> QED BY <2>2, <2>3
  <1>6. ASSUME NEW j \in Requests, JobStopped(j)
        PROVE  AttemptOK(i)'
    <2>1. UNCHANGED <<attempt, finished>>
      BY <1>6 DEF JobStopped
    <2>2. CASE i # j
      <3>1. status'[i] = status[i] /\ stopFinal'[i] = stopFinal[i]
        BY <1>1, <1>6, <2>2 DEF JobStopped, TypeOK
      <3> QED BY <1>1, <1>2, <1>3, <2>1, <3>1, AttemptOther
    <2>3. CASE i = j
      <3>1. status[i] \in Active /\ status'[i] = "cancelling"
        BY <1>1, <1>6, <2>3 DEF JobStopped, TypeOK
      <3>2. stopFinal'[i] = "queued" =>
                stopFinal[i] = "queued" \/ Mine(i) \in aged
        BY <1>1, <1>6, <2>3 DEF JobStopped, TypeOK
      <3> QED BY <1>2, <1>3, <2>1, <3>1, <3>2 DEF AttemptOK, Mine, Active, Terminal
    <2> QED BY <2>2, <2>3
  <1>7. ASSUME NEW j \in Requests, JobClaimed(j)
        PROVE  AttemptOK(i)'
    <2>1. UNCHANGED <<stopFinal, finished>>
      BY <1>7 DEF JobClaimed
    <2>2. CASE i # j
      <3>1. status'[i] = status[i] /\ attempt'[i] = attempt[i]
        BY <1>1, <1>7, <2>2 DEF JobClaimed, TypeOK
      <3> QED BY <1>1, <1>2, <1>3, <2>1, <3>1, AttemptOther
    <2>3. CASE i = j
      <3>1. /\ status[i] = "queued" /\ status'[i] = "starting"
            /\ attempt'[i] = NextAttempt(i)[2]
        BY <1>1, <1>7, <2>3 DEF JobClaimed, TypeOK
      <3>2. stopFinal[i] = "none"
        BY <1>3, <3>1 DEF AttemptOK
      <3>3. attempt'[i] \in Numbers /\ Mine(i)' \notin finished
        BY <3>1, NextNumber DEF Mine
      <3> QED BY <2>1, <3>1, <3>2, <3>3 DEF AttemptOK, Terminal
    <2> QED BY <2>2, <2>3
  <1>8. ASSUME NEW a \in Attempts, JobRegistered(a)
        PROVE  AttemptOK(i)'
    <2>1. UNCHANGED <<attempt, stopFinal, finished>>
      BY <1>8 DEF JobRegistered
    <2>2. a[1] \in Requests
      BY DEF Attempts
    <2>3. CASE i # a[1]
      <3>1. status'[i] = status[i]
        BY <1>1, <1>8, <2>3 DEF JobRegistered, TypeOK
      <3> QED BY <1>1, <1>2, <1>3, <2>1, <3>1, AttemptOther
    <2>4. CASE i = a[1]
      <3>1. status[i] = "starting" /\ status'[i] = "running"
        BY <1>1, <1>8, <2>4 DEF JobRegistered, TypeOK
      <3> QED BY <1>3, <2>1, <3>1 DEF AttemptOK, Mine, Active, Terminal
    <2> QED BY <2>3, <2>4
  <1>9. CASE SettlesCur
    <2>1. PICK f \in Finals : JobSettled(cur.job, f)
      BY <1>9 DEF SettlesCur
    <2> DEFINE j == cur.job
    <2>2. j \in Requests /\ finished' = finished \cup {Mine(j)}
      BY <1>9, <2>1 DEF SettlesCur, JobSettled
    <2>3. CASE i # j
      <3>1. /\ status'[i] = status[i] /\ attempt'[i] = attempt[i]
            /\ stopFinal'[i] = stopFinal[i]
        BY <1>1, <2>1, <2>3 DEF JobSettled, TypeOK
      <3>2. Mine(i) # Mine(j)
        BY <2>3 DEF Mine
      <3> QED BY <1>1, <1>2, <1>3, <2>2, <3>1, <3>2, AttemptOther
    <2>4. CASE i = j
      <3>1. /\ status'[i] = f /\ stopFinal'[i] = "none"
            /\ attempt'[i] = IF f = "queued" THEN 0 ELSE attempt[i]
        BY <1>1, <2>1, <2>4 DEF JobSettled, TypeOK
      <3> QED BY <2>2, <2>4, <3>1 DEF AttemptOK, Mine, Finals, Active, Terminal
    <2> QED BY <2>3, <2>4
  <1> QED BY <1>4, <1>5, <1>6, <1>7, <1>8, <1>9, JobEffects

\* A row that was right stays right.
LEMMA RowKept ==
    ASSUME BaseInv, [Next]_vars, NEW row \in Rows, RowOK(row)
    PROVE  RowOK(row)'
  <1> DEFINE a == <<row.job, row.n>>
  <1>1. a \in Attempts
    BY DEF Rows, Attempts
  <1>2. Onward(a) /\ aged \subseteq aged'
    BY <1>1, Forward, AgedGrows
  <1>3. a[1] = row.job /\ a[2] = row.n
    OBVIOUS
  <1> QED BY <1>2, <1>3 DEF RowOK, Onward

\* The rows that reconcile has read stay right until it handles them.
LEMMA RowStep ==
    ASSUME BaseInv, [Next]_vars
    PROVE  snap' \subseteq Rows /\ RowInv'
  <1>1. TypeOK /\ MoreTypes /\ AttemptInv /\ RowInv
    BY DEF BaseInv, TypeInv
  <1>2. CASE snap' \subseteq snap
    <2>1. \A row \in snap' : row \in Rows /\ RowOK(row)
      BY <1>1, <1>2 DEF MoreTypes, RowInv
    <2>2. \A row \in snap' : RowOK(row)'
      BY <2>1, RowKept
    <2> QED BY <2>1, <2>2 DEF RowInv
  <1>3. CASE Tick
    <2>1. /\ snap' = { Row(j) : j \in { k \in Jobs : status[k] \in Active } }
          /\ UNCHANGED <<status, attempt, stopFinal, finished, aged>>
      BY <1>3 DEF Tick, jobs, tables, world
    <2>2. ASSUME NEW j \in Requests, status[j] \in Active
          PROVE  Row(j) \in Rows /\ RowOK(Row(j))'
      <3>1. /\ attempt[j] \in Numbers
            /\ stopFinal[j] # "none" => status[j] = "cancelling"
            /\ stopFinal[j] = "queued" => Mine(j) \in aged
        BY <1>1, <2>2 DEF AttemptInv
      <3>2. /\ stopFinal[j] \in {"none", "queued", "failed", "lost"}
            /\ completion[j] \in Completions
        BY <1>1, <2>2 DEF TypeOK, Completions
      <3>3. Row(j) \in Rows
        BY <2>2, <3>1, <3>2 DEF Row, Rows
      <3>4. RowOK(Row(j))'
        BY <2>1, <2>2, <3>1 DEF RowOK, Row, Live, Mine
      <3> QED BY <3>3, <3>4
    <2>3. ASSUME NEW row \in snap'
          PROVE  row \in Rows /\ RowOK(row)'
      <3>1. PICK j \in Requests : status[j] \in Active /\ row = Row(j)
        BY <2>1 DEF Jobs
      <3> QED BY <2>1, <2>2, <3>1 DEF RowOK, Row, Live, Mine
    <2> QED BY <2>3 DEF RowInv
  <1> QED BY <1>2, <1>3, SnapEffects

\* What the daemon has in hand stays as it was described.
LEMMA HandKept ==
    ASSUME BaseInv, [Next]_vars, DaemonSame
    PROVE  /\ dpc' \in Stopping \cup Starting => cur' \in Claims
           /\ StartInv'
           /\ dpc' \in Stopping =>
                LET a == <<cur.job, cur.n>>
                IN  /\ a \in finished' \/ (Live(a)' /\ status'[cur.job] # "starting")
                    /\ cur.final = "queued" =>
                           a \in aged' /\ (a \in finished' \/ status'[cur.job] = "cancelling")
  <1>1. MoreTypes /\ StopInv /\ StartInv
    BY DEF BaseInv, TypeInv
  <1>2. dpc' = dpc /\ cur' = cur
    BY DEF DaemonSame
  <1> SUFFICES ASSUME dpc \in Stopping \cup Starting
               PROVE  /\ cur \in Claims
                      /\ StartInv'
                      /\ dpc \in Stopping =>
                           LET a == <<cur.job, cur.n>>
                           IN  /\ a \in finished' \/ (Live(a)' /\ status'[cur.job] # "starting")
                               /\ cur.final = "queued" =>
                                    /\ a \in aged'
                                    /\ a \in finished' \/ status'[cur.job] = "cancelling"
    BY <1>2 DEF StartInv
  <1> DEFINE a == <<cur.job, cur.n>>
  <1>3. cur \in Claims
    BY <1>1 DEF MoreTypes
  <1>4. a \in Attempts /\ a[1] = cur.job /\ a[2] = cur.n
    BY <1>3 DEF Claims, Attempts
  <1>5. Onward(a) /\ aged \subseteq aged'
    BY <1>4, Forward, AgedGrows
  <1>6. CASE dpc \in Starting
    <2>1. Live(a) /\ a \notin finished'
      <3>1. Live(a)
        BY <1>1, <1>6 DEF StartInv
      <3>2. a \notin finished
        BY <1>3, <1>4, <3>1 DEF BaseInv, AttemptInv, Live, Mine, Claims
      <3>3. ~Finalize
        BY <1>6 DEF Finalize, Starting
      <3> QED BY <1>4, <3>1, <3>2, <3>3, Finishes
    <2>2. Live(a)'
      BY <1>5, <2>1 DEF Onward
    <2>3. dpc \notin Stopping
      BY <1>6 DEF Starting, Stopping
    <2> QED BY <1>2, <1>3, <2>2, <2>3 DEF StartInv
  <1>7. CASE dpc \in Stopping
    <2>1. /\ a \in finished \/ (Live(a) /\ status[cur.job] # "starting")
          /\ cur.final = "queued" =>
                 a \in aged /\ (a \in finished \/ status[cur.job] = "cancelling")
      BY <1>1, <1>7 DEF StopInv
    <2>2. dpc' \notin Starting
      BY <1>2, <1>7 DEF Stopping, Starting
    <2> QED BY <1>3, <1>4, <1>5, <2>1, <2>2 DEF Onward, StartInv
  <1> QED BY <1>6, <1>7

\* What a step does to the process and the container of one attempt.
ProcMoves(a) ==
    \/ /\ proc'[a] = proc[a] \/ (proc'[a] = "dead" /\ proc[a] # "none")
       /\ a \in container' => a \in container
    \/ /\ Launch /\ a = <<cur.job, cur.n>>
       /\ proc'[a] = "booting" /\ container' = container
    \/ /\ Register(a) /\ MayRegister(a)
       /\ proc'[a] = "executing" /\ container' = container /\ a \in identified'
    \/ proc[a] \notin Idle

\* Every step moves the process of an attempt in one of these ways.
LEMMA ProcMoved ==
    ASSUME TypeOK, [Next]_vars, NEW a \in Attempts
    PROVE  ProcMoves(a)
  <1>1. CASE ProcSame
    BY <1>1 DEF ProcSame, ProcMoves
  <1>2. CASE Launch
    <2>1. proc' = [proc EXCEPT ![<<cur.job, cur.n>>] = "booting"] /\ container' = container
      BY <1>2 DEF Launch
    <2>2. CASE a = <<cur.job, cur.n>>
      BY <1>2, <2>1, <2>2 DEF ProcMoves, TypeOK
    <2>3. CASE a # <<cur.job, cur.n>>
      <3>1. proc'[a] = proc[a]
        BY <2>1, <2>3 DEF TypeOK
      <3> QED BY <2>1, <3>1 DEF ProcMoves
    <2> QED BY <2>2, <2>3
  <1>3. ASSUME NEW row \in snap, StopConfirmed(row) \/ StopUnconfirmed(row)
        PROVE  ProcMoves(a)
    <2> DEFINE b == <<row.job, row.n>>
    <2>1. /\ \/ proc' = proc
             \/ proc' = [proc EXCEPT ![b] = IF Alive(b) THEN "dead" ELSE proc[b]]
          /\ container' \subseteq container
      BY <1>3 DEF StopConfirmed, StopUnconfirmed, StopPartly
    <2>2. Alive(b) => proc[b] # "none"
      BY DEF Alive
    <2> HIDE DEF b
    <2>3. proc'[a] = proc[a] \/ (proc'[a] = "dead" /\ proc[a] # "none")
      BY <2>1, <2>2 DEF TypeOK
    <2> QED BY <2>1, <2>3 DEF ProcMoves
  <1>4. ASSUME NEW b \in Attempts, Register(b)
        PROVE  ProcMoves(a)
    <2>1. container' = container /\ proc[b] = "booting"
      BY <1>4 DEF Register
    <2>2. CASE MayRegister(b)
      <3>1. proc' = [proc EXCEPT ![b] = "executing"] /\ b \in identified'
        BY <1>4, <2>2 DEF Register
      <3>2. CASE a = b
        <4>1. proc'[a] = "executing"
          BY <3>1, <3>2 DEF TypeOK
        <4> QED BY <1>4, <2>1, <2>2, <3>1, <3>2, <4>1 DEF ProcMoves
      <3>3. CASE a # b
        <4>1. proc'[a] = proc[a]
          BY <3>1, <3>3 DEF TypeOK
        <4> QED BY <2>1, <4>1 DEF ProcMoves
      <3> QED BY <3>2, <3>3
    <2>3. CASE ~MayRegister(b)
      <3>1. proc' = [proc EXCEPT ![b] = "dead"]
        BY <1>4, <2>3 DEF Register
      <3>2. proc'[a] = proc[a] \/ (proc'[a] = "dead" /\ proc[a] # "none")
        BY <2>1, <3>1 DEF TypeOK
      <3> QED BY <2>1, <3>2 DEF ProcMoves
    <2> QED BY <2>2, <2>3
  <1>5. ASSUME NEW b \in Attempts,
               WorkerFinish(b) \/ WorkerCommit(b) \/ ContainerStart(b)
        PROVE  ProcMoves(a)
    <2>1. proc[b] \notin Idle
      BY <1>5 DEF WorkerFinish, WorkerCommit, ContainerStart, Executing, Attempts, Numbers, Idle
    <2>2. /\ \E p : proc' = [proc EXCEPT ![b] = p]
          /\ container' \subseteq container \cup {b}
      BY <1>5 DEF WorkerFinish, WorkerCommit, ContainerStart, TypeOK
    <2>3. CASE a = b
      BY <2>1, <2>3 DEF ProcMoves
    <2>4. CASE a # b
      <3>1. proc'[a] = proc[a]
        BY <2>2, <2>4 DEF TypeOK
      <3> QED BY <2>2, <2>4, <3>1 DEF ProcMoves
    <2> QED BY <2>3, <2>4
  <1>6. ASSUME NEW b \in Attempts, WorkerExit(b) \/ WorkerDie(b) \/ ContainerEnd(b)
        PROVE  ProcMoves(a)
    <2>1. /\ \/ proc' = proc
             \/ proc' = [proc EXCEPT ![b] = "dead"] /\ proc[b] # "none"
          /\ container' \subseteq container
      BY <1>6 DEF WorkerExit, WorkerDie, ContainerEnd
    <2>2. proc'[a] = proc[a] \/ (proc'[a] = "dead" /\ proc[a] # "none")
      BY <2>1 DEF TypeOK
    <2> QED BY <2>1, <2>2 DEF ProcMoves
  <1> QED BY <1>1, <1>2, <1>3, <1>4, <1>5, <1>6, ProcEffects

\* An identity that was recorded stays recorded.
LEMMA IdentifiedGrows ==
    ASSUME [Next]_vars
    PROVE  identified \subseteq identified'
  <1>1. ASSUME Clients \/ Boot
        PROVE  identified' = identified
    BY <1>1 DEF Clients, SubmitLookup, SubmitAdmit, SubmitReturn, Cancel, Delete, Drain,
                Start, Portal, Boot, tables
  <1>2. ASSUME NEW row \in snap,
               \/ ScanStarting(row) \/ ScanRunning(row) \/ ScanOver(row)
               \/ StopConfirmed(row) \/ StopUnconfirmed(row)
        PROVE  identified' = identified
    BY <1>2 DEF ScanStarting, ScanRunning, ScanOver, StopConfirmed, StopUnconfirmed, StopPartly, tables
  <1>3. ASSUME NEW j \in Requests, Claim(j) \/ NotifySend(j)
        PROVE  identified' = identified
    BY <1>3 DEF Claim, NotifySend, tables
  <1>4. ASSUME Tick \/ Unconfirmed \/ Finalize \/ Standalone \/ ClaimNone \/ Launch
               \/ Identify \/ StartFailed \/ NotifyMark \/ LoopEnd \/ Exit \/ Crash
        PROVE  identified \subseteq identified'
    BY <1>4 DEF Tick, Unconfirmed, Finalize, Standalone, StandaloneStop,
                StandaloneRelease, StandaloneEnd, ClaimNone, Launch, Identify,
                StartFailed, NotifyMark, LoopEnd, Exit, Crash, tables
  <1>5. ASSUME NEW a \in Attempts,
               \/ Register(a) \/ WorkerFinish(a) \/ WorkerCommit(a) \/ WorkerExit(a)
               \/ WorkerDie(a) \/ Age(a)
        PROVE  identified \subseteq identified'
    BY <1>5 DEF Register, WorkerFinish, WorkerCommit, WorkerExit, WorkerDie, Age, tables
  <1>20. ASSUME NEW o \in Owners, Executes(o)
        PROVE  identified \subseteq identified'
    BY <1>20 DEF Executes, ContainerStart, ContainerEnd, ChildCheck, ChildRun, ChildEnd,
                tables
  <1>6. ASSUME NEW c \in Commands, CliHold(c) \/ CliRelease(c) \/ CliDie(c)
        PROVE  identified' = identified
    BY <1>6 DEF CliHold, CliRelease, CliDie, tables
  <1>7. CASE UNCHANGED vars
    BY <1>7 DEF vars, tables
  <1> QED BY <1>1, <1>2, <1>3, <1>4, <1>5, <1>6, <1>7, <1>20
          DEF Next, Loop, Processes, Executions, Executes, Foreground, Clock

\* An attempt at rest stays so until it registers.
Rest(a) == proc[a] \in Idle /\ a \notin container

\* Only registering wakes the process of an attempt.
LEMMA RestKept ==
    ASSUME BaseInv, [Next]_vars, NEW a \in Attempts, Rest(a),
           ~(Live(a) /\ status[a[1]] = "starting") \/ ~(Register(a) /\ MayRegister(a))
    PROVE  Rest(a)'
  <1>1. ProcMoves(a)
    BY ProcMoved DEF BaseInv, TypeInv
  <1>2. ~(Register(a) /\ MayRegister(a))
    BY DEF MayRegister, Current, Live, Active
  <1> QED BY <1>1, <1>2 DEF ProcMoves, Rest, Idle

\* Processes stay in step with the attempts they belong to.
LEMMA ProcStep ==
    ASSUME BaseInv, [Next]_vars
    PROVE  ProcInv'
  <1>1. TypeOK /\ AttemptInv /\ ProcInv /\ StopInv /\ StartInv
    BY DEF BaseInv, TypeInv
  <1> SUFFICES ASSUME NEW a \in Attempts
               PROVE  /\ (proc'[a] # "none" \/ a \in aged' \/ a \in container')
                              => (a \in finished' \/ Live(a)')
                      /\ (a \in finished' \/ (Live(a)' /\ status'[a[1]] = "starting"))
                              => Rest(a)'
                      /\ proc'[a] \notin Idle => a \in identified'
    BY DEF ProcInv, Rest
  <1>2. ProcMoves(a)
    BY <1>1, ProcMoved
  <1>3. Onward(a)
    BY Forward
  <1>4. /\ proc[a] # "none" \/ a \in aged \/ a \in container => a \in finished \/ Live(a)
        /\ a \in finished \/ (Live(a) /\ status[a[1]] = "starting") => Rest(a)
        /\ proc[a] \notin Idle => a \in identified
    BY <1>1 DEF ProcInv, Rest
  <1>5. ASSUME proc'[a] # "none" \/ a \in aged' \/ a \in container'
        PROVE  a \in finished' \/ Live(a)'
    <2>1. a \in aged' => a \in aged \/ Live(a)
      <3>1. CASE UNCHANGED aged
        BY <3>1
      <3>2. CASE \E b \in Attempts : Age(b)
        BY <3>2 DEF Age, Current, Live, Active
      <3> QED BY <3>1, <3>2, ClockEffects DEF ClockSame, WorkerDie, Crash
    <2>2. Launch => Live(<<cur.job, cur.n>>)
      BY <1>1 DEF Launch, StartInv, Starting
    <2>3. MayRegister(a) => Live(a)
      BY DEF MayRegister, Current, Live, Active
    <2>4. a \in finished \/ Live(a)
      BY <1>2, <1>4, <1>5, <2>1, <2>2, <2>3 DEF ProcMoves, Idle
    <2> QED BY <1>3, <2>4 DEF Onward
  <1>6. ASSUME a \in finished'
        PROVE  Rest(a)'
    <2>1. CASE a \in finished
      <3>1. ~Live(a)
        BY <1>1, <2>1 DEF AttemptInv, Live, Mine, Attempts
      <3> QED BY <1>4, <2>1, <3>1, RestKept
    <2>2. CASE Finalize /\ a = <<cur.job, cur.n>>
      <3>1. Rest(a)
        BY <1>1, <2>2 DEF Finalize, StopInv, Stopping, Rest
      <3>2. UNCHANGED <<proc, container>>
        BY <2>2 DEF Finalize, procs
      <3> QED BY <3>1, <3>2 DEF Rest
    <2> QED BY <1>6, <2>1, <2>2, Finishes
  <1>7. ASSUME Live(a)', status'[a[1]] = "starting"
        PROVE  Rest(a)'
    <2>1. ~(Register(a) /\ MayRegister(a))
      <3>1. Register(a) /\ MayRegister(a) => status'[a[1]] = "running"
        BY <1>1 DEF Register, TypeOK, Attempts
      <3> QED BY <1>7, <3>1
    <2>2. CASE Live(a) /\ status[a[1]] = "starting"
      BY <1>4, <2>1, <2>2, RestKept
    <2>3. CASE JobClaimed(a[1]) /\ a = NextAttempt(a[1])
      <3>1. a[1] \in Requests /\ status[a[1]] = "queued"
        BY <2>3 DEF JobClaimed, Attempts
      <3>2. a \notin finished /\ ~Live(a)
        BY <2>3, <3>1, NextNumber DEF Live, Active
      <3>3. Rest(a)
        BY <1>4, <3>2 DEF Rest, Idle
      <3> QED BY <2>1, <3>3, RestKept
    <2> QED BY <1>7, <2>2, <2>3, Backward
  <1>8. ASSUME proc'[a] \notin Idle
        PROVE  a \in identified'
    BY <1>2, <1>4, <1>8, IdentifiedGrows DEF ProcMoves, Idle
  <1> QED BY <1>5, <1>6, <1>7, <1>8

\* What reconcile takes in hand is what its row allows.
LEMMA StopTaken ==
    ASSUME BaseInv, NEW row \in snap, StopConfirmed(row) \/ StopUnconfirmed(row)
    PROVE  dpc' \in Stopping /\ cur' \in Claims /\ StopInv'
  <1>1. TypeOK /\ MoreTypes /\ ProcInv /\ RowInv
    BY DEF BaseInv, TypeInv
  <1>2. row \in Rows /\ RowOK(row)
    BY <1>1 DEF MoreTypes, RowInv
  <1>3. /\ row.job \in Requests /\ row.n \in Numbers /\ row.status \in Active
        /\ row.stop \in {"none", "queued", "failed", "lost"}
        /\ row.completion \in Completions
    BY <1>2 DEF Rows
  <1>4. /\ cur' = Verdict(row) /\ dpc' \in Stopping
        /\ row.status \in {"running", "cancelling"}
        /\ UNCHANGED <<status, attempt, finished, aged>>
    BY DEF StopConfirmed, StopUnconfirmed, StopPartly, Stoppable, Stopping, jobs, tables, world
  <1> DEFINE a == <<row.job, row.n>>
  <1>5. a \in Attempts
    BY <1>3 DEF Attempts
  <1>6. Verdict(row) \in Claims
    <2>1. CASE row.status = "cancelling"
      <3> DEFINE f == IF row.stop = "none" THEN "cancelled" ELSE row.stop
      <3>1. f \in Finals
        BY <1>3 DEF Finals
      <3>2. Verdict(row) = [job |-> row.job, n |-> row.n, completion |-> "none", final |-> f]
        BY <2>1 DEF Verdict
      <3> HIDE DEF f
      <3> QED BY <1>3, <3>1, <3>2 DEF Claims, Completions
    <2>2. CASE row.status # "cancelling"
      <3> DEFINE f == IF row.completion = "none" THEN "lost" ELSE row.completion
      <3>1. f \in Finals
        BY <1>3 DEF Finals, Completions
      <3>2. Verdict(row) = [job |-> row.job, n |-> row.n, completion |-> row.completion,
                            final |-> f]
        BY <2>2 DEF Verdict
      <3> HIDE DEF f
      <3> QED BY <1>3, <3>1, <3>2 DEF Claims
    <2> QED BY <2>1, <2>2
  <1>7. /\ cur'.job = row.job /\ cur'.n = row.n
        /\ cur'.final # "none"
        /\ cur'.completion = "succeeded" <=> cur'.final = "succeeded"
        /\ cur'.final = "queued" => row.status = "cancelling" /\ row.stop = "queued"
    BY <1>3, <1>4 DEF Verdict, Completions
  <1>8. /\ a \in finished \/ (Live(a) /\ status[row.job] # "starting")
        /\ row.status = "cancelling" /\ row.stop = "queued" =>
               a \in aged /\ (a \in finished \/ status[row.job] = "cancelling")
    BY <1>2, <1>4 DEF RowOK
  <1>9. Live(a)' <=> Live(a)
    BY <1>4 DEF Live
  <1>10. dpc' = "final" => proc'[a] \in Idle /\ a \notin container'
    <2>1. CASE StopConfirmed(row)
      <3>1. /\ proc' = [proc EXCEPT ![a] = IF Alive(a) THEN "dead" ELSE proc[a]]
            /\ container' = container \ {a}
        BY <2>1 DEF StopConfirmed
      <3>2. ~Alive(a) => proc[a] \in Idle
        BY <1>1, <1>5 DEF Alive, Idle, ProcInv
      <3>3. proc'[a] = IF Alive(a) THEN "dead" ELSE proc[a]
        BY <1>1, <1>5, <3>1 DEF TypeOK
      <3> QED BY <3>1, <3>2, <3>3 DEF Idle
    <2>2. CASE StopUnconfirmed(row)
      BY <2>2 DEF StopUnconfirmed
    <2> QED BY <2>1, <2>2
  <1> QED BY <1>4, <1>6, <1>7, <1>8, <1>9, <1>10 DEF StopInv

\* What the daemon has in hand stays right between its transactions.
LEMMA HandStep ==
    ASSUME BaseInv, [Next]_vars
    PROVE  /\ dpc' \in Stopping \cup Starting => cur' \in Claims
           /\ dpc' = "release" => cur'.job \in Commands
           /\ StopInv' /\ StartInv'
  <1>1. TypeOK /\ MoreTypes /\ StopInv /\ StartInv
    BY DEF BaseInv, TypeInv
  <1>2. CASE DaemonSame
    <2>1. dpc' = dpc /\ cur' = cur
      BY <1>2 DEF DaemonSame
    <2>2. dpc' \in Stopping =>
             LET a == <<cur.job, cur.n>>
             IN  /\ a \in finished' \/ (Live(a)' /\ status'[cur.job] # "starting")
                 /\ cur.final = "queued" =>
                      /\ a \in aged'
                      /\ a \in finished' \/ status'[cur.job] = "cancelling"
      BY <1>2, HandKept
    <2> DEFINE a == <<cur.job, cur.n>>
    <2>3. dpc = "final" => Rest(a)'
      <3> SUFFICES ASSUME dpc = "final"
                   PROVE  Rest(a)'
        OBVIOUS
      <3>1. cur \in Claims
        BY <1>1 DEF MoreTypes, Stopping
      <3>2. a \in Attempts /\ a[1] = cur.job
        BY <3>1 DEF Claims, Attempts
      <3>3. Rest(a) /\ (a \in finished \/ (Live(a) /\ status[cur.job] # "starting"))
        BY <1>1 DEF StopInv, Stopping, Rest
      <3>4. a \in finished => ~Live(a)
        BY <3>2 DEF BaseInv, AttemptInv, Live, Mine, Attempts
      <3>5. ~(Live(a) /\ status[a[1]] = "starting")
        BY <3>2, <3>3, <3>4
      <3>6. ASSUME NEW b \in Attempts, b = a
            PROVE  Rest(b)'
        BY <3>3, <3>5, <3>6, RestKept
      <3> QED BY <2>1, <3>2, <3>6
    <2>4. dpc \in Stopping => /\ cur.final # "none"
                              /\ cur.completion = "succeeded" <=> cur.final = "succeeded"
      BY <1>1 DEF StopInv
    <2>5. StopInv'
      BY <2>1, <2>2, <2>3, <2>4 DEF StopInv, Rest
    <2>6. dpc' = "release" => cur'.job \in Commands
      BY <1>1, <2>1 DEF MoreTypes
    <2> QED BY <1>2, <2>5, <2>6, HandKept
  <1>3. CASE dpc' \notin Stopping \cup Starting \cup {"release"}
    BY <1>3 DEF StopInv, StartInv
  <1>7. ASSUME NEW c \in Commands, StandaloneStop(c)
        PROVE  /\ dpc' \notin Stopping \cup Starting /\ cur'.job \in Commands
               /\ StopInv' /\ StartInv'
    BY <1>7 DEF StandaloneStop, NoRow, StopInv, StartInv, Stopping, Starting
  <1>4. ASSUME NEW row \in snap, StopConfirmed(row) \/ StopUnconfirmed(row)
        PROVE  cur' \in Claims /\ StopInv' /\ StartInv' /\ dpc' # "release"
    BY <1>4, StopTaken DEF StartInv, Starting, Stopping
  <1>5. ASSUME NEW j \in Requests, Claim(j)
        PROVE  cur' \in Claims /\ StopInv' /\ StartInv' /\ dpc' # "release"
    <2> DEFINE n == NextAttempt(j)[2]
    <2>1. /\ cur' = [job |-> j, n |-> n, final |-> "none", completion |-> "none"]
          /\ status' = [status EXCEPT ![j] = "starting"]
          /\ attempt' = [attempt EXCEPT ![j] = n]
          /\ dpc' = "launch" /\ status[j] = "queued"
      BY <1>5 DEF Claim, Claimable, Oldest, Queued
    <2>2. n \in Numbers
      BY <2>1, NextNumber
    <2> HIDE DEF n
    <2>3. cur' \in Claims
      BY <2>1, <2>2 DEF Claims, Completions
    <2>4. cur'.job = j /\ cur'.n = n /\ status'[j] = "starting" /\ attempt'[j] = n
      BY <1>1, <2>1 DEF TypeOK
    <2>5. StartInv'
      BY <2>4 DEF StartInv, Live, Active
    <2> QED BY <2>1, <2>3, <2>5 DEF StopInv, Stopping
  <1>6. CASE Launch
    <2>1. dpc = "launch" /\ dpc' = "identify" /\ UNCHANGED <<cur, status, attempt>>
      BY <1>6 DEF Launch, jobs
    <2>2. cur \in Claims /\ Live(<<cur.job, cur.n>>)
      BY <1>1, <2>1 DEF MoreTypes, StartInv, Starting
    <2> QED BY <2>1, <2>2 DEF StopInv, StartInv, Live, Stopping
  <1> QED BY <1>2, <1>3, <1>4, <1>5, <1>6, <1>7, DaemonEffects

-----------------------------------------------------------------------------
(***************************************************************************)
(* Every attempt but the first is owed to a crash or to a slow start.      *)
(***************************************************************************)

Excuses == crashes + slow

\* The counters are within their bounds and only go up.
LEMMA ExcusesGrow ==
    ASSUME MoreTypes, [Next]_vars
    PROVE  /\ slow' \in 0..MaxSlow /\ crashes' \in 0..MaxCrashes
           /\ Excuses \in Nat /\ Excuses' \in Nat /\ Excuses <= Excuses'
           /\ Crash => Excuses' = Excuses + 1
           /\ slow' = slow + 1 => Excuses' = Excuses + 1
  <1>1. slow \in 0..MaxSlow /\ crashes \in 0..MaxCrashes
    BY DEF MoreTypes
  <1>2. MaxSlow \in Nat /\ MaxCrashes \in Nat
    BY RuntimeAssumption
  <1>3. CASE ClockSame
    <2>1. slow' = slow /\ crashes' = crashes
      BY <1>3 DEF ClockSame
    <2>2. ~Crash
      BY <1>1, <1>2, <2>1 DEF Crash
    <2> QED BY <1>1, <1>2, <2>1, <2>2 DEF Excuses
  <1>4. ASSUME NEW a \in Attempts, Age(a) \/ WorkerDie(a)
        PROVE  /\ crashes' = crashes /\ dpc' = dpc
               /\ slow' = slow \/ (slow < MaxSlow /\ slow' = slow + 1)
    BY <1>4 DEF Age, WorkerDie, daemon
  <1>5. CASE \E a \in Attempts : Age(a) \/ WorkerDie(a)
    <2>1. /\ crashes' = crashes /\ dpc' = dpc
          /\ slow' = slow \/ (slow < MaxSlow /\ slow' = slow + 1)
      BY <1>4, <1>5
    <2>2. ~Crash
      BY <1>1, <1>2, <2>1 DEF Crash
    <2> QED BY <1>1, <1>2, <2>1, <2>2 DEF Excuses
  <1>6. CASE Crash
    <2>1. crashes < MaxCrashes /\ crashes' = crashes + 1 /\ slow' = slow
      BY <1>6 DEF Crash
    <2> QED BY <1>1, <1>2, <2>1 DEF Excuses
  <1> QED BY <1>3, <1>5, <1>6, ClockEffects

\* A process that has not registered and is found dead was killed, which counts
\* as a slow start.
LEMMA DiesSlowly ==
    ASSUME BaseInv, [Next]_vars, NEW a \in Attempts, Live(a),
           status[a[1]] = "starting", status'[a[1]] = "starting",
           proc[a] # "dead", proc'[a] = "dead"
    PROVE  slow' = slow + 1
  <1>1. TypeOK /\ AttemptInv /\ ProcInv /\ MoreTypes /\ RowInv
    BY DEF BaseInv, TypeInv
  <1>2. a[1] \in Requests /\ a = <<a[1], a[2]>> /\ a[2] \in Numbers
    BY DEF Attempts
  <1>3. a \notin finished
    BY <1>1, <1>2 DEF AttemptInv, Live, Mine
  <1>4. proc[a] \in {"none", "booting"}
    BY <1>1 DEF ProcInv, Idle
  <1>5. ASSUME NEW row \in snap, StopConfirmed(row) \/ StopUnconfirmed(row)
        PROVE  FALSE
    <2>1. row \in Rows /\ RowOK(row)
      BY <1>1 DEF MoreTypes, RowInv
    <2>2. row.status \in {"running", "cancelling"}
      BY <1>5 DEF StopConfirmed, StopUnconfirmed, StopPartly, Stoppable
    <2>3. proc' = proc
             \/ proc' = [proc EXCEPT ![<<row.job, row.n>>] =
                            IF Alive(<<row.job, row.n>>) THEN "dead" ELSE proc[<<row.job, row.n>>]]
      BY <1>5 DEF StopConfirmed, StopUnconfirmed, StopPartly
    <2>4. a = <<row.job, row.n>>
      BY <1>1, <2>3 DEF TypeOK
    <2>5. a[1] = row.job /\ a[2] = row.n
      BY <2>4
    <2> QED BY <1>3, <2>1, <2>2, <2>4, <2>5 DEF RowOK
  <1>6. ASSUME NEW b \in Attempts, Register(b)
        PROVE  FALSE
    <2>1. b = a
      BY <1>1, <1>6 DEF Register, TypeOK
    <2>2. MayRegister(a)
      BY DEF MayRegister, Current, Live
    <2>3. proc'[a] = "executing"
      BY <1>1, <1>6, <2>1, <2>2 DEF Register, TypeOK
    <2> QED BY <2>3
  <1>7. ASSUME NEW b \in Attempts,
               \/ WorkerFinish(b) \/ WorkerCommit(b) \/ WorkerExit(b)
               \/ ContainerStart(b) \/ ContainerEnd(b)
        PROVE  FALSE
    <2>1. proc' = proc \/ (proc[b] \notin Idle /\ \E p : proc' = [proc EXCEPT ![b] = p])
      BY <1>7 DEF WorkerFinish, WorkerCommit, WorkerExit, ContainerStart, ContainerEnd, Idle
    <2> QED BY <1>1, <1>4, <2>1 DEF TypeOK, Idle
  <1>8. ASSUME NEW b \in Attempts, WorkerDie(b)
        PROVE  slow' = slow + 1
    <2>1. b = a
      BY <1>1, <1>8 DEF WorkerDie, TypeOK
    <2> QED BY <1>4, <1>8, <2>1 DEF WorkerDie
  <1>9. CASE Launch
    <2>1. proc' = [proc EXCEPT ![<<cur.job, cur.n>>] = "booting"]
      BY <1>9 DEF Launch
    <2> QED BY <1>1, <2>1 DEF TypeOK
  <1> QED BY <1>5, <1>6, <1>7, <1>8, <1>9, ProcEffects DEF ProcSame

\* A claim whose process was never launched is owed to a crash.
LEMMA LostInHand ==
    ASSUME BaseInv, [Next]_vars, NEW j \in Requests, status[j] = "starting",
           status'[j] = "starting", dpc = "launch", cur.job = j,
           proc'[Mine(j)] = "none", ~(dpc' = "launch" /\ cur'.job = j)
    PROVE  Crash
  <1>1. TypeOK /\ MoreTypes /\ StartInv
    BY DEF BaseInv, TypeInv
  <1>2. Live(<<cur.job, cur.n>>) /\ cur \in Claims
    BY <1>1 DEF StartInv, MoreTypes, Starting
  <1>3. Mine(j) = <<cur.job, cur.n>> /\ Mine(j) \in Attempts
    BY <1>2 DEF Live, Mine, Attempts, Claims
  <1>4. ~Launch
    <2>1. Launch => proc'[Mine(j)] = "booting"
      BY <1>1, <1>3 DEF Launch, TypeOK
    <2> QED BY <2>1
  <1>5. ~StartFailed
    <2>1. StartFailed => status'[j] = "cancelling"
      BY <1>1, <1>2 DEF StartFailed, RequestStop, Live, Terminal, TypeOK
    <2> QED BY <2>1
  <1>6. ~Clients /\ ~Boot
    BY DEF Clients, SubmitLookup, SubmitAdmit, SubmitReturn, Cancel, Delete, Drain,
           Start, Portal, Boot, daemon
  <1>7. ASSUME NEW row \in snap
        PROVE  ~(\/ ScanStarting(row) \/ ScanRunning(row) \/ ScanOver(row)
                 \/ StopConfirmed(row) \/ StopUnconfirmed(row))
    BY DEF ScanStarting, ScanRunning, ScanOver, StopConfirmed, StopUnconfirmed, StopPartly, Stoppable
  <1>8. ASSUME NEW k \in Requests
        PROVE  ~(Claim(k) \/ NotifySend(k))
    BY DEF Claim, NotifySend
  <1>9. ~(\/ Tick \/ Unconfirmed \/ Finalize \/ Standalone \/ ClaimNone
          \/ Identify \/ NotifyMark \/ LoopEnd \/ Exit)
    BY DEF Tick, Unconfirmed, Finalize, Standalone, StandaloneStop,
                StandaloneRelease, StandaloneEnd, ClaimNone, Identify, NotifyMark,
           LoopEnd, Exit
  <1>10. ASSUME NEW a \in Attempts
         PROVE  ~(\/ Register(a) \/ WorkerFinish(a) \/ WorkerCommit(a) \/ WorkerExit(a)
                  \/ WorkerDie(a) \/ Age(a))
    BY DEF Register, WorkerFinish, WorkerCommit, WorkerExit, WorkerDie, Age, daemon
  <1>13. ASSUME NEW o \in Owners
         PROVE  ~Executes(o)
    BY DEF Executes, ContainerStart, ContainerEnd, ChildCheck, ChildRun, ChildEnd, daemon
  <1>11. ASSUME NEW c \in Commands
         PROVE  ~(CliHold(c) \/ CliRelease(c) \/ CliDie(c))
    BY DEF CliHold, CliRelease, CliDie, daemon
  <1>12. ~UNCHANGED vars
    BY DEF vars, daemon
  <1> QED BY <1>4, <1>5, <1>6, <1>7, <1>8, <1>9, <1>10, <1>11, <1>12,
             <1>13
          DEF Next, Loop, Processes, Executions, Executes, Foreground, Clock

\* An attempt that becomes owed has an excuse of its own.
LEMMA OwedKept ==
    ASSUME BaseInv, [Next]_vars, NEW j \in Requests, status[j] \in Active,
           status'[j] \in Active, attempt'[j] = attempt[j], Owed(j)'
    PROVE  Owed(j) \/ Excuses' = Excuses + 1
  <1>1. TypeOK /\ MoreTypes /\ AttemptInv /\ ProcInv
    BY DEF BaseInv, TypeInv
  <1> DEFINE a == Mine(j)
  <1>2. a \in Attempts /\ Live(a) /\ a[1] = j /\ Mine(j)' = a
    BY <1>1 DEF AttemptInv, Mine, Live, Attempts
  <1>3. CASE a \in aged'
    <2>1. CASE a \in aged
      BY <2>1 DEF Owed
    <2>2. CASE a \notin aged
      <3>1. Age(a)
        <4>1. ~UNCHANGED aged
          BY <1>3, <2>2
        <4>2. PICK b \in Attempts : Age(b)
          BY <4>1, ClockEffects DEF ClockSame, WorkerDie, Crash
        <4> QED BY <1>3, <2>2, <4>2 DEF Age
      <3>2. CASE proc[a] = "booting"
        BY <1>1, <3>1, <3>2, ExcusesGrow DEF Age
      <3>3. CASE proc[a] # "booting"
        <4>1. status[j] = "starting" /\ ~(dpc = "launch" /\ cur.job = j)
          BY <1>2, <3>1 DEF Age
        <4>2. proc[a] \in {"none", "dead"}
          BY <1>1, <1>2, <3>3, <4>1 DEF ProcInv, Idle
        <4> QED BY <4>1, <4>2 DEF Owed
      <3> QED BY <3>2, <3>3
    <2> QED BY <2>1, <2>2
  <1>4. CASE a \notin aged'
    <2>1. /\ status'[j] = "starting"
          /\ \/ proc'[a] = "dead"
             \/ proc'[a] = "none" /\ ~(dpc' = "launch" /\ cur'.job = j)
      BY <1>2, <1>4 DEF Owed
    <2>2. status[j] = "starting"
      <3>1. Live(a)'
        BY <1>2 DEF Live, Mine
      <3>2. ~JobClaimed(j)
        BY DEF JobClaimed, Active
      <3>3. Live(a) /\ (status'[j] = "starting" => status[j] = "starting")
        BY <1>2, <3>1, <3>2, Backward
      <3> QED BY <2>1, <3>3
    <2>3. CASE proc[a] = "dead"
      BY <2>2, <2>3 DEF Owed
    <2>4. CASE proc[a] # "dead" /\ proc'[a] = "dead"
      BY <1>1, <1>2, <2>1, <2>2, <2>4, DiesSlowly, ExcusesGrow
    <2>5. CASE proc'[a] = "none"
      <3>1. proc[a] = "none"
        <4>1. ProcMoves(a)
          BY <1>1, <1>2, ProcMoved
        <4>2. proc[a] \in Idle
          BY <1>1, <1>2, <2>2 DEF ProcInv
        <4> QED BY <2>5, <4>1, <4>2 DEF ProcMoves
      <3>2. CASE dpc = "launch" /\ cur.job = j
        BY <1>1, <2>1, <2>2, <2>5, <3>2, LostInHand, ExcusesGrow
      <3>3. CASE ~(dpc = "launch" /\ cur.job = j)
        BY <2>2, <3>1, <3>3 DEF Owed
      <3> QED BY <3>2, <3>3
    <2> QED BY <2>1, <2>3, <2>4, <2>5
  <1> QED BY <1>3, <1>4

CountOK(j) ==
    /\ status[j] \in {"none", "queued"} => \E m \in 0..Excuses : Used(j) = 1..m
    /\ status[j] \in Active =>
           /\ Used(j) = 1..(attempt[j] - 1)
           /\ attempt[j] - 1 <= Excuses
           /\ Owed(j) => attempt[j] <= Excuses

\* A job whose attempt goes on.
LEMMA CountOther ==
    ASSUME BaseInv, [Next]_vars, NEW j \in Requests, Used(j)' = Used(j),
           status'[j] \in Active => status[j] \in Active,
           status'[j] \in {"none", "queued"} => status[j] \in {"none", "queued"},
           attempt'[j] = attempt[j]
    PROVE  CountOK(j)'
  <1>1. TypeOK /\ MoreTypes /\ AttemptInv
    BY DEF BaseInv, TypeInv
  <1>2. CountOK(j)
    BY DEF BaseInv, CountInv, CountOK, Excuses
  <1>3. Excuses \in Nat /\ Excuses' \in Nat /\ Excuses <= Excuses'
    BY <1>1, ExcusesGrow
  <1>4. CASE status'[j] \in {"none", "queued"}
    <2>1. PICK m \in 0..Excuses : Used(j) = 1..m
      BY <1>2, <1>4 DEF CountOK
    <2>2. m \in 0..Excuses'
      BY <1>3
    <2>3. Used(j)' = 1..m
      BY <2>1
    <2>4. status'[j] \notin Active
      BY <1>4 DEF Active
    <2> QED BY <2>2, <2>3, <2>4 DEF CountOK
  <1>5. CASE status'[j] \in Active
    <2>1. status[j] \in Active /\ status'[j] \notin {"none", "queued"}
      BY <1>5 DEF Active
    <2>2. /\ Used(j) = 1..(attempt[j] - 1)
          /\ attempt[j] - 1 <= Excuses
          /\ Owed(j) => attempt[j] <= Excuses
      BY <1>2, <2>1 DEF CountOK
    <2>3. attempt[j] \in Nat
      <3>1. attempt[j] \in {0} \cup Numbers
        BY <1>1 DEF TypeOK
      <3>2. MaxCrashes \in Nat /\ MaxSlow \in Nat
        BY RuntimeAssumption
      <3> QED BY <3>1, <3>2 DEF Numbers
    <2>4. Owed(j)' => Owed(j) \/ Excuses' = Excuses + 1
      BY <1>5, <2>1, OwedKept
    <2>5. Owed(j)' => attempt[j] <= Excuses'
      BY <1>3, <2>2, <2>3, <2>4
    <2>6. attempt[j] - 1 <= Excuses'
      BY <1>3, <2>2, <2>3
    <2> QED BY <2>1, <2>2, <2>5, <2>6 DEF CountOK
  <1>6. CASE status'[j] \notin {"none", "queued"} \cup Active
    BY <1>6 DEF CountOK
  <1> QED BY <1>4, <1>5, <1>6

\* The claimed attempt is new: nothing is owed on its account.
LEMMA CountClaimed ==
    ASSUME BaseInv, [Next]_vars, NEW j \in Requests, JobClaimed(j),
           dpc = "dispatch", dpc' = "launch"
    PROVE  CountOK(j)'
  <1>1. TypeOK /\ MoreTypes /\ ProcInv
    BY DEF BaseInv, TypeInv
  <1>2. /\ status[j] = "queued" /\ status'[j] = "starting" /\ finished' = finished
        /\ attempt'[j] = NextAttempt(j)[2]
    BY <1>1 DEF JobClaimed, TypeOK
  <1> DEFINE n == NextAttempt(j)[2]
             a == <<j, n>>
  <1>3. /\ n \in Numbers /\ a \notin finished
        /\ Used(j) = 1..(n - 1) /\ n - 1 <= Excuses
    <2>1. /\ NextAttempt(j) = <<j, NextAttempt(j)[2]>>
          /\ NextAttempt(j)[2] \in Numbers
          /\ NextAttempt(j) \notin finished
          /\ Used(j) = 1..(NextAttempt(j)[2] - 1)
          /\ NextAttempt(j)[2] - 1 <= crashes + slow
      BY <1>2, NextNumber
    <2> QED BY <2>1 DEF Excuses
  <1>4. Used(j)' = Used(j)
    BY <1>2 DEF Used
  <1> HIDE DEF n
  <1>5. a \in Attempts /\ ~Live(a) /\ a[1] = j
    BY <1>2, <1>3 DEF Attempts, Live, Active
  <1>6. proc[a] = "none" /\ a \notin aged
    BY <1>1, <1>3, <1>5 DEF ProcInv
  <1>7. ClockSame
    <2>1. ASSUME NEW b \in Attempts
          PROVE  ~(Age(b) \/ WorkerDie(b))
      BY DEF Age, WorkerDie, daemon
    <2> QED BY <2>1, ClockEffects DEF Crash
  <1>8. Excuses' = Excuses /\ a \notin aged'
    BY <1>6, <1>7 DEF ClockSame, Excuses
  <1>9. proc'[a] = "none"
    <2>1. ProcMoves(a)
      BY <1>1, <1>5, ProcMoved
    <2>2. ~Launch /\ ~MayRegister(a)
      BY <1>2, <1>5 DEF Launch, MayRegister
    <2> QED BY <1>6, <2>1, <2>2 DEF ProcMoves, Idle
  <1>10. cur'.job = j
    <2>1. PICK k \in Requests : Claim(k)
      BY DaemonEffects DEF DaemonSame, StopConfirmed, StopUnconfirmed, StopPartly,
                       StandaloneStop, Launch, Starting
    <2>2. /\ status[k] = "queued" /\ status' = [status EXCEPT ![k] = "starting"]
          /\ cur' = [job |-> k, n |-> NextAttempt(k)[2], final |-> "none", completion |-> "none"]
      BY <2>1 DEF Claim, Claimable, Oldest, Queued
    <2>3. cur'.job = k
      BY <2>2
    <2>4. k # j => status'[j] = "queued"
      BY <1>1, <1>2, <2>2 DEF TypeOK
    <2> QED BY <1>2, <2>3, <2>4
  <1>11. Mine(j)' = a
    BY <1>2 DEF Mine, n
  <1>12. ~Owed(j)'
    BY <1>8, <1>9, <1>10, <1>11 DEF Owed
  <1>13. attempt'[j] = n
    BY <1>2 DEF n
  <1> QED BY <1>2, <1>3, <1>4, <1>8, <1>12, <1>13 DEF CountOK

\* Every attempt but the first keeps its excuse.
LEMMA CountStep ==
    ASSUME BaseInv, [Next]_vars
    PROVE  CountInv'
  <1>1. TypeOK /\ MoreTypes /\ AttemptInv
    BY DEF BaseInv, TypeInv
  <1> SUFFICES ASSUME NEW i \in Requests
               PROVE  CountOK(i)'
    BY DEF CountInv, CountOK, Excuses
  <1>2. ASSUME SameFinished
        PROVE  Used(i)' = Used(i)
    <2>1. \A n \in Numbers : <<i, n>> \in finished' <=> <<i, n>> \in finished
      BY <1>2 DEF SameFinished, Attempts
    <2> QED BY <2>1 DEF Used
  <1>3. CASE JobsSame
    BY <1>2, <1>3, CountOther DEF JobsSame
  <1>4. ASSUME NEW j \in Requests,
               \/ JobSubmitted(j) \/ JobCancelled(j) \/ JobStopped(j)
        PROVE  CountOK(i)'
    <2>1. /\ attempt' = attempt /\ SameFinished
          /\ \E s : status' = [status EXCEPT ![j] = s]
      BY <1>4 DEF JobSubmitted, JobCancelled, JobStopped, SameFinished
    <2>2. i # j => status'[i] = status[i]
      BY <1>1, <2>1 DEF TypeOK
    <2>3. /\ status'[j] \in Active => status[j] \in Active
          /\ status'[j] \in {"none", "queued"} => status[j] \in {"none", "queued"}
      BY <1>1, <1>4 DEF JobSubmitted, JobCancelled, JobStopped, TypeOK, Active
    <2> QED BY <1>2, <2>1, <2>2, <2>3, CountOther
  <1>5. ASSUME NEW j \in Requests, dpc = "dispatch", dpc' = "launch", JobClaimed(j)
        PROVE  CountOK(i)'
    <2>1. CASE i = j
      BY <1>5, <2>1, CountClaimed
    <2>2. CASE i # j
      <3>1. status'[i] = status[i] /\ attempt'[i] = attempt[i] /\ finished' = finished
        BY <1>1, <1>5, <2>2 DEF JobClaimed, TypeOK
      <3> QED BY <1>2, <3>1, CountOther DEF SameFinished
    <2> QED BY <2>1, <2>2
  <1>6. ASSUME NEW a \in Attempts, JobRegistered(a)
        PROVE  CountOK(i)'
    <2>1. attempt' = attempt /\ SameFinished
      BY <1>6 DEF JobRegistered, SameFinished
    <2>2. i # a[1] => status'[i] = status[i]
      BY <1>1, <1>6 DEF JobRegistered, TypeOK
    <2>3. i = a[1] => status[i] \in Active /\ status'[i] = "running"
      BY <1>1, <1>6 DEF JobRegistered, Live, TypeOK
    <2> QED BY <1>2, <2>1, <2>2, <2>3, CountOther DEF Active
  <1>7. CASE SettlesCur
    <2>1. PICK f \in Finals : JobSettled(cur.job, f)
      BY <1>7 DEF SettlesCur
    <2> DEFINE j == cur.job
    <2>2. /\ j \in Requests /\ finished' = finished \cup {Mine(j)}
          /\ status[j] \in {"running", "cancelling"}
          /\ f = "queued" => Mine(j) \in aged
      BY <1>7, <2>1 DEF SettlesCur, JobSettled
    <2>3. CASE i # j
      <3>1. status'[i] = status[i] /\ attempt'[i] = attempt[i]
        BY <1>1, <2>1, <2>3 DEF JobSettled, TypeOK
      <3>2. Used(i)' = Used(i)
        BY <2>2, <2>3 DEF Used, Mine
      <3> QED BY <3>1, <3>2, CountOther
    <2>4. CASE i = j
      <3>1. status'[i] = f
        BY <1>1, <2>1, <2>4 DEF JobSettled, TypeOK
      <3>2. CASE f # "queued"
        BY <3>1, <3>2 DEF CountOK, Finals, Active
      <3>3. CASE f = "queued"
        <4>1. /\ Used(i) = 1..(attempt[i] - 1) /\ attempt[i] <= crashes + slow
              /\ attempt[i] \in Numbers
          BY <1>1, <2>2, <2>4, <3>3 DEF BaseInv, CountInv, AttemptInv, Owed, Active
        <4>2. MaxCrashes \in Nat /\ MaxSlow \in Nat
          BY RuntimeAssumption
        <4>3. Used(i)' = Used(i) \cup {attempt[i]}
          BY <2>2, <2>4, <4>1 DEF Used, Mine
        <4>4. Used(i)' = 1..attempt[i]
          BY <4>1, <4>2, <4>3 DEF Numbers
        <4>5. attempt[i] \in 0..Excuses'
          BY <1>1, <4>1, <4>2, ExcusesGrow DEF Numbers, Excuses
        <4>6. status'[i] \notin Active
          BY <3>1, <3>3 DEF Active
        <4> QED BY <4>4, <4>5, <4>6 DEF CountOK
      <3> QED BY <3>2, <3>3
    <2> QED BY <2>3, <2>4
  <1> QED BY <1>3, <1>4, <1>5, <1>6, <1>7, JobEffects

-----------------------------------------------------------------------------
(***************************************************************************)
(* Types.                                                                  *)
(***************************************************************************)

\* status, attempt and stop_final, from the effects on the table of jobs.
LEMMA JobTypes ==
    ASSUME BaseInv, [Next]_vars
    PROVE  /\ status' \in [Requests -> Statuses]
           /\ attempt' \in [Requests -> {0} \cup Numbers]
           /\ stopFinal' \in [Requests -> {"none", "queued", "failed", "lost"}]
  <1>1. /\ status \in [Requests -> Statuses]
        /\ attempt \in [Requests -> {0} \cup Numbers]
        /\ stopFinal \in [Requests -> {"none", "queued", "failed", "lost"}]
    BY DEF BaseInv, TypeInv, TypeOK
  <1>2. CASE JobsSame
    BY <1>1, <1>2 DEF JobsSame
  <1>3. ASSUME NEW j \in Requests, JobSubmitted(j) \/ JobCancelled(j)
        PROVE  /\ status' \in [Requests -> Statuses] /\ UNCHANGED <<attempt, stopFinal>>
    BY <1>1, <1>3 DEF JobSubmitted, JobCancelled, Statuses, Terminal
  <1>4. ASSUME NEW j \in Requests, JobStopped(j)
        PROVE  /\ status' \in [Requests -> Statuses] /\ attempt' = attempt
               /\ stopFinal' \in [Requests -> {"none", "queued", "failed", "lost"}]
    BY <1>1, <1>4 DEF JobStopped, Statuses, Active
  <1>5. ASSUME NEW j \in Requests, JobClaimed(j)
        PROVE  /\ status' \in [Requests -> Statuses] /\ stopFinal' = stopFinal
               /\ attempt' \in [Requests -> {0} \cup Numbers]
    <2>1. NextAttempt(j)[2] \in Numbers
      BY <1>5, NextNumber DEF JobClaimed
    <2> QED BY <1>1, <1>5, <2>1 DEF JobClaimed, Statuses, Active
  <1>6. ASSUME NEW a \in Attempts, JobRegistered(a)
        PROVE  /\ status' \in [Requests -> Statuses] /\ UNCHANGED <<attempt, stopFinal>>
    BY <1>1, <1>6 DEF JobRegistered, Statuses, Active
  <1>7. CASE SettlesCur
    <2>1. PICK f \in Finals : JobSettled(cur.job, f)
      BY <1>7 DEF SettlesCur
    <2>2. cur.job \in Requests
      BY <1>7 DEF SettlesCur
    <2>3. f \in Statuses
      BY DEF Finals, Statuses, Terminal
    <2> DEFINE n == IF f = "queued" THEN 0 ELSE attempt[cur.job]
    <2>4. n \in {0} \cup Numbers
      BY <1>1, <2>2
    <2>5. /\ status' = [status EXCEPT ![cur.job] = f]
          /\ attempt' = [attempt EXCEPT ![cur.job] = n]
          /\ stopFinal' = [stopFinal EXCEPT ![cur.job] = "none"]
      BY <2>1 DEF JobSettled
    <2> HIDE DEF n
    <2> QED BY <1>1, <2>3, <2>4, <2>5
  <1> QED BY <1>1, <1>2, <1>3, <1>4, <1>5, <1>6, <1>7, JobEffects

\* The other columns of the tables and what clients know.
TableTypes ==
    /\ req \in [Requests -> {"new", "prepared", "admitted"} \cup Answers]
    /\ completion \in [Requests -> {"none", "succeeded", "failed"}]
    /\ deleted \subseteq Requests /\ published \subseteq Requests
    /\ identified \subseteq Attempts
    /\ finished \subseteq Owners
    /\ locks \subseteq [res : Resources, owner : Owners, mode : {"read", "write"}]
    /\ notify \in [Requests -> {"none", "pending", "sent"}]
    /\ drain \in BOOLEAN /\ spawned \in BOOLEAN

\* The daemon, the processes, and the history.
ProcessTypes ==
    /\ dpc \in {"down", "idle", "scan", "final", "unconfirmed", "release", "dispatch",
                "launch", "identify", "notify", "send", "exit"}
    /\ outbox \subseteq Requests
    /\ proc \in [Attempts -> ProcStates]
    /\ container \subseteq Owners
    /\ child \in [Owners -> {"none", "checked", "ended"} \cup Commanding]
    /\ cli \in [Commands -> {"idle", "holding", "released", "pending", "dead"}]
    /\ aged \subseteq Attempts
    /\ ran \in [Requests -> SUBSET Numbers]
    /\ told \in [Requests -> Nat]

\* The locks that acquire_in adds.
LEMMA AcquireType ==
    ASSUME TableTypes, NEW o \in Owners, NEW needs \in SUBSET (Resources \X {"read", "write"}),
           Acquire(o, needs)
    PROVE  locks' \subseteq [res : Resources, owner : Owners, mode : {"read", "write"}]
  <1>1. locks' = locks \cup { [res |-> d[1], owner |-> o, mode |-> d[2]] : d \in needs }
    BY DEF Acquire
  <1>2. \A d \in needs : [res |-> d[1], owner |-> o, mode |-> d[2]]
                            \in [res : Resources, owner : Owners, mode : {"read", "write"}]
    OBVIOUS
  <1> QED BY <1>1, <1>2 DEF TableTypes

\* created_at of a request that is prepared.
LEMMA StampStep ==
    ASSUME BaseInv, [Next]_vars
    PROVE  stamp' \in [Requests -> Nat] /\ IsFiniteSet(Stamped')
  <1>1. stamp \in [Requests -> Nat] /\ IsFiniteSet(Stamped)
    BY DEF BaseInv, TypeInv, TypeOK, MoreTypes
  <1>2. CASE stamp' = stamp
    BY <1>1, <1>2 DEF Stamped
  <1>3. ASSUME NEW q \in Requests, SubmitLookup(q), stamp' # stamp
        PROVE  stamp' \in [Requests -> Nat] /\ IsFiniteSet(Stamped')
    <2> DEFINE c == Cardinality(Stamped)
    <2>1. c \in Nat
      BY <1>1, FS_CardinalityType
    <2>2. stamp' = [stamp EXCEPT ![q] = 1 + c]
      BY <1>3 DEF SubmitLookup, Stamped
    <2> HIDE DEF c
    <2>3. stamp' \in [Requests -> Nat]
      BY <1>1, <2>1, <2>2
    <2>4. \A p \in Requests : stamp'[p] > 0 <=> stamp[p] > 0 \/ p = q
      BY <1>1, <2>1, <2>2
    <2>5. Stamped' = Stamped \cup {q}
      BY <2>4 DEF Stamped
    <2>6. IsFiniteSet(Stamped')
      BY <1>1, <2>5, FS_AddElement
    <2> QED BY <2>3, <2>6
  <1>4. ASSUME Clients, stamp' # stamp
        PROVE  \E q \in Requests : SubmitLookup(q)
    BY <1>4 DEF Clients, SubmitAdmit, SubmitReturn, Cancel, Delete, Drain, Start, Portal, client
  <1>5. ASSUME Boot
        PROVE  stamp' = stamp
    BY <1>5 DEF Boot, client
  <1>6. ASSUME NEW row \in snap,
               \/ ScanStarting(row) \/ ScanRunning(row) \/ ScanOver(row)
               \/ StopConfirmed(row) \/ StopUnconfirmed(row)
        PROVE  stamp' = stamp
    BY <1>6 DEF ScanStarting, ScanRunning, ScanOver, StopConfirmed, StopUnconfirmed, StopPartly, client
  <1>7. ASSUME NEW j \in Requests, Claim(j) \/ NotifySend(j)
        PROVE  stamp' = stamp
    BY <1>7 DEF Claim, NotifySend, client
  <1>8. ASSUME Tick \/ Unconfirmed \/ Finalize \/ Standalone \/ ClaimNone \/ Launch
               \/ Identify \/ StartFailed \/ NotifyMark \/ LoopEnd \/ Exit \/ Crash
        PROVE  stamp' = stamp
    BY <1>8 DEF Tick, Unconfirmed, Finalize, Standalone, StandaloneStop,
                StandaloneRelease, StandaloneEnd, ClaimNone, Launch, Identify,
                StartFailed, NotifyMark, LoopEnd, Exit, Crash, client
  <1>9. ASSUME NEW a \in Attempts,
               \/ Register(a) \/ WorkerFinish(a) \/ WorkerCommit(a) \/ WorkerExit(a)
               \/ WorkerDie(a) \/ Age(a)
        PROVE  stamp' = stamp
    BY <1>9 DEF Register, WorkerFinish, WorkerCommit, WorkerExit, WorkerDie, Age, client
  <1>20. ASSUME NEW o \in Owners, Executes(o)
        PROVE  stamp' = stamp
    BY <1>20 DEF Executes, ContainerStart, ContainerEnd, ChildCheck, ChildRun, ChildEnd,
                client
  <1>10. ASSUME NEW c \in Commands, CliHold(c) \/ CliRelease(c) \/ CliDie(c)
         PROVE  stamp' = stamp
    BY <1>10 DEF CliHold, CliRelease, CliDie, client
  <1>11. CASE UNCHANGED vars
    BY <1>2, <1>11 DEF vars, client
  <1> QED BY <1>2, <1>3, <1>4, <1>5, <1>6, <1>7, <1>8, <1>9, <1>10, <1>11, <1>20
          DEF Next, Loop, Processes, Executions, Executes, Foreground, Clock

\* The other columns of the tables, the daemon's flags and what clients know.
LEMMA TableStep ==
    ASSUME BaseInv, [Next]_vars
    PROVE  TableTypes'
  <1>1. TableTypes /\ TypeOK /\ MoreTypes
    BY DEF BaseInv, TypeInv, TypeOK, TableTypes
  <1>2. CASE UNCHANGED vars
    BY <1>1, <1>2 DEF vars, client, jobs, tables, daemon, TableTypes
  <1>3. ASSUME NEW q \in Requests, SubmitLookup(q) \/ SubmitAdmit(q) \/ SubmitReturn(q)
        PROVE  TableTypes'
    <2>1. \A j \in Requests : Replay(q, j) \in Answers
      BY DEF Replay, Answers
    <2>2. \E r \in {"new", "prepared", "admitted"} \cup Answers : req' = [req EXCEPT ![q] = r]
      BY <1>3, <2>1 DEF SubmitLookup, SubmitAdmit, SubmitReturn, SameKey, Jobs, Answers
    <2>3. req' \in [Requests -> {"new", "prepared", "admitted"} \cup Answers]
      BY <1>1, <2>2 DEF TableTypes
    <2>4. /\ UNCHANGED <<completion, deleted, published, tables>>
          /\ spawned' = spawned \/ EnsureRunning(drain)
      BY <1>3 DEF SubmitLookup, SubmitAdmit, SubmitReturn, jobs, daemon
    <2>5. spawned' \in BOOLEAN
      BY <1>1, <2>4 DEF EnsureRunning, TableTypes
    <2> QED BY <1>1, <2>3, <2>4, <2>5 DEF TableTypes, tables
  <1>4. ASSUME NEW j \in Requests, Cancel(j) \/ Delete(j)
        PROVE  TableTypes'
    <2>1. notify' = notify \/ Note(j)
      BY <1>4 DEF Cancel, Delete, tables
    <2>2. notify' \in [Requests -> {"none", "pending", "sent"}]
      BY <1>1, <2>1 DEF Note, TableTypes
    <2>3. /\ UNCHANGED <<client, completion, published, identified, finished, locks,
                         drain, spawned>>
          /\ deleted' \subseteq deleted \cup {j}
      BY <1>4 DEF Cancel, Delete, tables, daemon
    <2> QED BY <1>1, <2>2, <2>3 DEF TableTypes, client
  <1>5. CASE Drain \/ Start \/ Portal \/ Boot
    <2>1. /\ UNCHANGED <<client, jobs, identified, finished, locks, notify>>
          /\ drain' \in BOOLEAN
      BY <1>1, <1>5 DEF Drain, Start, Portal, Boot, tables, TableTypes
    <2>2. spawned' \in BOOLEAN
      BY <1>1, <1>5 DEF Drain, Start, Portal, Boot, daemon, EnsureRunning, TableTypes
    <2> QED BY <1>1, <2>1, <2>2 DEF TableTypes, client, jobs
  <1>6. ASSUME NEW row \in snap,
               \/ ScanStarting(row) \/ ScanRunning(row) \/ ScanOver(row)
               \/ StopConfirmed(row) \/ StopUnconfirmed(row)
        PROVE  TableTypes'
    <2>1. UNCHANGED <<client, completion, deleted, published, tables, spawned>>
      BY <1>6 DEF ScanStarting, ScanRunning, ScanOver, StopConfirmed, StopUnconfirmed, StopPartly, jobs
    <2> QED BY <1>1, <2>1 DEF TableTypes, client, tables
  <1>7. ASSUME Tick \/ Unconfirmed \/ ClaimNone \/ Launch \/ StartFailed \/ LoopEnd \/ Exit
               \/ \E j \in Requests : NotifySend(j)
        PROVE  TableTypes'
    <2>1. UNCHANGED <<client, completion, deleted, published, tables, spawned>>
      BY <1>7 DEF Tick, Unconfirmed, ClaimNone, Launch, StartFailed, LoopEnd, Exit,
                  NotifySend, jobs
    <2> QED BY <1>1, <2>1 DEF TableTypes, client, tables
  <1>8. CASE Crash
    BY <1>1, <1>8 DEF Crash, TableTypes, client, jobs, tables
  <1>9. CASE Finalize
    <2>1. UNCHANGED <<client, deleted, identified, drain, spawned>>
      BY <1>9 DEF Finalize
    <2>2. CASE ~Finalizable(cur)
      <3>1. UNCHANGED <<completion, published, locks, finished, notify>>
        BY <1>9, <2>2 DEF Finalize
      <3> QED BY <1>1, <2>1, <3>1 DEF TableTypes, client
    <2>3. CASE Finalizable(cur)
      <3>1. cur \in Claims
        BY <1>1, <1>9 DEF Finalize, MoreTypes, Stopping
      <3>2. cur.job \in Requests /\ cur.n \in Numbers
        BY <3>1 DEF Claims
      <3>3. /\ completion' = [completion EXCEPT ![cur.job] = "none"]
            /\ published' \subseteq published \cup {cur.job}
            /\ Release(<<cur.job, cur.n>>)
            /\ notify' = notify \/ Note(cur.job)
        BY <1>9, <2>3 DEF Finalize
      <3>4. finished' \subseteq Owners /\ locks' \subseteq locks
        BY <1>1, <3>2, <3>3 DEF Release, Owners, Attempts, TableTypes
      <3>5. notify' \in [Requests -> {"none", "pending", "sent"}]
        BY <1>1, <3>2, <3>3 DEF Note, TableTypes
      <3>6. /\ completion' \in [Requests -> {"none", "succeeded", "failed"}]
            /\ published' \subseteq Requests
        BY <1>1, <3>2, <3>3 DEF TableTypes
      <3> QED BY <1>1, <2>1, <3>4, <3>5, <3>6 DEF TableTypes, client
    <2> QED BY <2>2, <2>3
  <1>10. CASE Standalone
    <2>1. CASE StandaloneRelease
      <3>1. /\ UNCHANGED <<client, jobs, identified, notify, drain, spawned>>
            /\ locks' \subseteq locks /\ finished' = finished \cup {<<cur.job, 0>>}
        BY <2>1 DEF StandaloneRelease, Release
      <3>2. <<cur.job, 0>> \in Owners
        BY <1>1, <2>1 DEF StandaloneRelease, MoreTypes, Owners
      <3> QED BY <1>1, <3>1, <3>2 DEF TableTypes, client, jobs
    <2>2. ASSUME StandaloneEnd \/ \E c \in Commands : StandaloneStop(c)
          PROVE  TableTypes'
      <3>1. UNCHANGED <<client, jobs, tables, spawned>>
        BY <2>2 DEF StandaloneEnd, StandaloneStop
      <3> QED BY <1>1, <3>1 DEF TableTypes, client, jobs, tables
    <2> QED BY <1>10, <2>1, <2>2 DEF Standalone
  <1>11. ASSUME NEW j \in Requests, Claim(j)
         PROVE  TableTypes'
    <2>1. /\ Acquire(NextAttempt(j), Needs[j])
          /\ UNCHANGED <<client, completion, deleted, published, identified, finished, notify, drain, spawned>>
          /\ status[j] = "queued"
      BY <1>11 DEF Claim, Claimable, Oldest, Queued
    <2>2. NextAttempt(j) \in Owners
      BY <2>1, NextNumber DEF Owners, Attempts
    <2>3. Needs[j] \in SUBSET (Resources \X {"read", "write"})
      BY RuntimeAssumption
    <2>4. locks' \subseteq [res : Resources, owner : Owners, mode : {"read", "write"}]
      BY <1>1, <2>1, <2>2, <2>3, AcquireType
    <2> QED BY <1>1, <2>1, <2>4 DEF TableTypes, client
  <1>12. CASE Identify
    <2>1. /\ identified' = identified \cup {<<cur.job, cur.n>>}
          /\ UNCHANGED <<client, jobs, finished, locks, notify, drain, spawned>>
          /\ cur \in Claims
      BY <1>1, <1>12 DEF Identify, MoreTypes, Starting
    <2>2. <<cur.job, cur.n>> \in Attempts
      BY <2>1 DEF Claims, Attempts
    <2> QED BY <1>1, <2>1, <2>2 DEF TableTypes, client, jobs
  <1>13. CASE NotifyMark
    <2>1. /\ notify' = [j \in Requests |-> IF notify[j] = "pending" THEN "sent" ELSE notify[j]]
          /\ UNCHANGED <<client, jobs, identified, finished, locks, drain, spawned>>
      BY <1>13 DEF NotifyMark
    <2>2. notify' \in [Requests -> {"none", "pending", "sent"}]
      BY <1>1, <2>1 DEF TableTypes
    <2> QED BY <1>1, <2>1, <2>2 DEF TableTypes, client, jobs
  <1>14. ASSUME NEW a \in Attempts,
                \/ Register(a) \/ WorkerFinish(a) \/ WorkerExit(a) \/ WorkerDie(a) \/ Age(a)
         PROVE  TableTypes'
    <2>1. /\ UNCHANGED <<client, completion, deleted, published, finished, locks, notify,
                         drain, spawned>>
          /\ identified' \subseteq identified \cup {a}
      BY <1>14 DEF Register, WorkerFinish, WorkerExit, WorkerDie, Age, jobs, tables, daemon
    <2> QED BY <1>1, <2>1 DEF TableTypes, client
  <1>18. ASSUME NEW o \in Owners, Executes(o)
         PROVE  TableTypes'
    <2>1. UNCHANGED <<client, completion, deleted, published, tables, spawned>>
      BY <1>18 DEF Executes, ContainerStart, ContainerEnd, ChildCheck, ChildRun, ChildEnd,
                   jobs, tables, daemon
    <2> QED BY <1>1, <2>1 DEF TableTypes, client, tables
  <1>15. ASSUME NEW a \in Attempts, WorkerCommit(a)
         PROVE  TableTypes'
    <2>1. /\ UNCHANGED <<client, deleted, published, tables, spawned>>
          /\ completion' = completion \/ completion' = [completion EXCEPT ![a[1]] = proc[a]]
      BY <1>15 DEF WorkerCommit, daemon
    <2>2. proc[a] \in {"succeeded", "failed"}
      BY <1>15 DEF WorkerCommit
    <2>3. completion' \in [Requests -> {"none", "succeeded", "failed"}]
      BY <1>1, <2>1, <2>2 DEF TableTypes
    <2> QED BY <1>1, <2>1, <2>3 DEF TableTypes, client, tables
  <1>16. ASSUME NEW c \in Commands, CliHold(c)
         PROVE  TableTypes'
    <2>1. /\ Acquire(<<c, 0>>, Needs[c])
          /\ UNCHANGED <<client, jobs, identified, finished, notify, drain, spawned>>
      BY <1>16 DEF CliHold, daemon
    <2>2. <<c, 0>> \in Owners /\ Needs[c] \in SUBSET (Resources \X {"read", "write"})
      BY RuntimeAssumption DEF Owners
    <2>3. locks' \subseteq [res : Resources, owner : Owners, mode : {"read", "write"}]
      BY <1>1, <2>1, <2>2, AcquireType
    <2> QED BY <1>1, <2>1, <2>3 DEF TableTypes, client, jobs
  <1>17. ASSUME NEW c \in Commands, CliRelease(c) \/ CliDie(c)
         PROVE  TableTypes'
    <2>1. /\ UNCHANGED <<client, jobs, identified, notify, drain, spawned>>
          /\ locks' \subseteq locks /\ finished' \subseteq finished \cup {<<c, 0>>}
      BY <1>17 DEF CliRelease, CliDie, Release, daemon, tables
    <2>2. <<c, 0>> \in Owners
      BY DEF Owners
    <2> QED BY <1>1, <2>1, <2>2 DEF TableTypes, client, jobs
  <1> QED BY <1>2, <1>3, <1>4, <1>5, <1>6, <1>7, <1>8, <1>9, <1>10, <1>11, <1>12, <1>13,
             <1>14, <1>15, <1>16, <1>17, <1>18
          DEF Next, Clients, Loop, Processes, Executions, Executes, Foreground, Clock

\* The daemon, the processes, the clock and the history.
LEMMA ProcessStep ==
    ASSUME BaseInv, [Next]_vars
    PROVE  ProcessTypes'
  <1>1. ProcessTypes /\ TypeOK /\ MoreTypes
    BY DEF BaseInv, TypeInv, TypeOK, MoreTypes, ProcessTypes, ProcStates
  <1>2. CASE UNCHANGED vars
    BY <1>1, <1>2 DEF vars, daemon, procs, world, history, ProcessTypes
  <1>3. ASSUME Clients \/ Boot
        PROVE  ProcessTypes'
    <2>1. /\ UNCHANGED <<outbox, procs, aged, history>>
          /\ dpc' = dpc \/ dpc' = "idle"
      BY <1>3 DEF Clients, SubmitLookup, SubmitAdmit, SubmitReturn, Cancel, Delete, Drain,
                  Start, Portal, Boot, daemon, world, history
    <2> QED BY <1>1, <2>1 DEF ProcessTypes, procs, history
  <1>4. ASSUME NEW row \in snap, ScanStarting(row) \/ ScanRunning(row) \/ ScanOver(row)
        PROVE  ProcessTypes'
    <2>1. UNCHANGED <<dpc, outbox, procs, aged, history>>
      BY <1>4 DEF ScanStarting, ScanRunning, ScanOver, world
    <2> QED BY <1>1, <2>1 DEF ProcessTypes, procs, history
  <1>5. ASSUME NEW row \in snap, StopConfirmed(row) \/ StopUnconfirmed(row)
        PROVE  ProcessTypes'
    <2> DEFINE a == <<row.job, row.n>>
    <2>1. /\ UNCHANGED <<outbox, cli, aged, history>>
          /\ dpc' \in {"final", "unconfirmed"}
          /\ container' \subseteq container
          /\ proc' = proc \/ proc' = [proc EXCEPT ![a] = IF Alive(a) THEN "dead" ELSE proc[a]]
          /\ child' = child \/ child' = ChildStopped(a)
      BY <1>5 DEF StopConfirmed, StopUnconfirmed, StopPartly, world
    <2> HIDE DEF a
    <2>2. proc' \in [Attempts -> ProcStates]
      BY <1>1, <2>1 DEF ProcessTypes, ProcStates
    <2>3. child' \in [Owners -> {"none", "checked", "ended"} \cup Commanding]
      BY <1>1, <2>1 DEF ProcessTypes, ChildStopped
    <2> QED BY <1>1, <2>1, <2>2, <2>3 DEF ProcessTypes, history
  <1>6. ASSUME Tick \/ Unconfirmed \/ Finalize \/ StandaloneRelease \/ StandaloneEnd
               \/ ClaimNone \/ Identify \/ StartFailed \/ NotifyMark \/ LoopEnd \/ Exit \/ Crash
        PROVE  ProcessTypes'
    <2>1. /\ UNCHANGED <<procs, aged, history>>
          /\ outbox' \subseteq Requests
      BY <1>1, <1>6 DEF Tick, Unconfirmed, Finalize, StandaloneRelease, StandaloneEnd,
                        ClaimNone, Identify, StartFailed, NotifyMark, LoopEnd, Exit, Crash,
                        world, ProcessTypes
    <2>2. dpc' \in {"down", "idle", "scan", "dispatch", "notify", "send", "exit"}
      BY <1>6 DEF Tick, Unconfirmed, Finalize, StandaloneRelease, StandaloneEnd, ClaimNone,
                  Identify, StartFailed, NotifyMark, LoopEnd, Exit, Crash
    <2> QED BY <1>1, <2>1, <2>2 DEF ProcessTypes, procs, history
  <1>13. ASSUME NEW c \in Commands, StandaloneStop(c)
         PROVE  ProcessTypes'
    <2>1. /\ UNCHANGED <<outbox, proc, cli, aged, history>> /\ dpc' = "release"
          /\ container' \subseteq container /\ child' = ChildStopped(<<c, 0>>)
      BY <1>13 DEF StandaloneStop, world
    <2>2. child' \in [Owners -> {"none", "checked", "ended"} \cup Commanding]
      BY <1>1, <2>1 DEF ProcessTypes, ChildStopped
    <2> QED BY <1>1, <2>1, <2>2 DEF ProcessTypes, history
  <1>7. ASSUME NEW j \in Requests, Claim(j)
        PROVE  ProcessTypes'
    <2>1. UNCHANGED <<outbox, procs, aged, history>> /\ dpc' = "launch"
      BY <1>7 DEF Claim, world
    <2> QED BY <1>1, <2>1 DEF ProcessTypes, procs, history
  <1>8. ASSUME NEW j \in Requests, NotifySend(j)
        PROVE  ProcessTypes'
    <2>1. /\ UNCHANGED <<dpc, procs, aged, ran>> /\ outbox' \subseteq outbox
          /\ told' = [told EXCEPT ![j] = told[j] + 1]
      BY <1>1, <1>8 DEF NotifySend, world, ProcessTypes
    <2>2. told' \in [Requests -> Nat]
      BY <1>1, <2>1 DEF ProcessTypes
    <2> QED BY <1>1, <2>1, <2>2 DEF ProcessTypes, procs
  <1>9. CASE Launch
    <2>1. /\ UNCHANGED <<outbox, container, child, cli, aged, history>>
          /\ dpc' = "identify"
          /\ proc' = [proc EXCEPT ![<<cur.job, cur.n>>] = "booting"]
      BY <1>9 DEF Launch, world
    <2>2. proc' \in [Attempts -> ProcStates]
      BY <1>1, <2>1 DEF ProcessTypes, ProcStates
    <2> QED BY <1>1, <2>1, <2>2 DEF ProcessTypes, history
  <1>10. ASSUME NEW a \in Attempts, Register(a)
         PROVE  ProcessTypes'
    <2>1. /\ UNCHANGED <<dpc, outbox, container, child, cli, aged, told>>
          /\ \E p \in {"executing", "dead"} : proc' = [proc EXCEPT ![a] = p]
          /\ ran' = ran \/ ran' = [ran EXCEPT ![a[1]] = ran[a[1]] \cup {a[2]}]
      BY <1>10 DEF Register, daemon, world
    <2>2. ran' \in [Requests -> SUBSET Numbers]
      BY <1>1, <2>1 DEF ProcessTypes, Attempts
    <2>3. proc' \in [Attempts -> ProcStates]
      BY <1>1, <2>1 DEF ProcessTypes, ProcStates
    <2> QED BY <1>1, <2>1, <2>2, <2>3 DEF ProcessTypes
  <1>11. ASSUME NEW a \in Attempts,
                \/ WorkerFinish(a) \/ WorkerCommit(a) \/ WorkerExit(a) \/ WorkerDie(a)
                \/ Age(a)
         PROVE  ProcessTypes'
    <2>1. /\ UNCHANGED <<dpc, outbox, container, child, cli, history>>
          /\ aged' \subseteq aged \cup {a}
          /\ proc' = proc \/ \E p \in {"succeeded", "failed", "exiting", "dead"} :
                                 proc' = [proc EXCEPT ![a] = p]
      BY <1>11 DEF WorkerFinish, WorkerCommit, WorkerExit, WorkerDie, Age, daemon, procs, world
    <2>2. proc' \in [Attempts -> ProcStates]
      BY <1>1, <2>1 DEF ProcessTypes, ProcStates
    <2>3. aged' \subseteq Attempts
      BY <1>1, <2>1 DEF ProcessTypes
    <2> QED BY <1>1, <2>1, <2>2, <2>3 DEF ProcessTypes, history
  <1>14. ASSUME NEW o \in Owners, Executes(o)
         PROVE  ProcessTypes'
    <2>1. /\ UNCHANGED <<dpc, outbox, proc, cli, aged, history>>
          /\ container' \subseteq container \cup {o}
          /\ child' = child \/ \E p \in {"checked", "running", "orphan", "ended"} :
                                 child' = [child EXCEPT ![o] = p]
      BY <1>14 DEF Executes, ContainerStart, ContainerEnd, ChildCheck, ChildRun, ChildEnd,
                   daemon, world
    <2>2. child' \in [Owners -> {"none", "checked", "ended"} \cup Commanding]
      BY <1>1, <2>1 DEF ProcessTypes, Commanding
    <2> QED BY <1>1, <2>1, <2>2 DEF ProcessTypes, history
  <1>12. ASSUME NEW c \in Commands, CliHold(c) \/ CliRelease(c) \/ CliDie(c)
         PROVE  ProcessTypes'
    <2>1. /\ UNCHANGED <<dpc, outbox, proc, child, aged, history>>
          /\ container' \subseteq container
          /\ \E s \in {"holding", "released", "pending", "dead"} : cli' = [cli EXCEPT ![c] = s]
      BY <1>12 DEF CliHold, CliRelease, CliDie, daemon, world
    <2>2. cli' \in [Commands -> {"idle", "holding", "released", "pending", "dead"}]
      BY <1>1, <2>1 DEF ProcessTypes
    <2> QED BY <1>1, <2>1, <2>2 DEF ProcessTypes, history
  <1> QED BY <1>2, <1>3, <1>4, <1>5, <1>6, <1>7, <1>8, <1>9, <1>10, <1>11, <1>12,
             <1>13, <1>14
          DEF Next, Loop, Standalone, Processes, Executions, Executes, Foreground, Clock

\* The base invariant is inductive.
LEMMA BaseStep ==
    ASSUME BaseInv, [Next]_vars
    PROVE  BaseInv'
  <1>1. TypeOK'
    BY JobTypes, StampStep, TableStep, ProcessStep
       DEF TypeOK, TableTypes, ProcessTypes, ProcStates
  <1>2. MoreTypes'
    <2>1. MoreTypes
      BY DEF BaseInv, TypeInv
    <2> QED BY <2>1, StampStep, ProcessStep, RowStep, HandStep, ExcusesGrow
            DEF MoreTypes, ProcessTypes
  <1> QED BY <1>1, <1>2, AttemptStep, ProcStep, RowStep, HandStep, CountStep
          DEF BaseInv, TypeInv

\* The base invariant holds initially.
LEMMA BaseInit ==
    ASSUME Init
    PROVE  BaseInv
  <1>1. MaxCrashes \in Nat /\ MaxSlow \in Nat
    BY RuntimeAssumption
  <1>2. /\ status = [j \in Requests |-> "none"] /\ attempt = [j \in Requests |-> 0]
        /\ stopFinal = [j \in Requests |-> "none"]
        /\ finished = {} /\ dpc = "down" /\ snap = {} /\ aged = {}
        /\ proc = [a \in Attempts |-> "none"] /\ container = {}
        /\ slow = 0 /\ crashes = 0
    BY DEF Init
  <1>3. TypeOK
    BY DEF Init, TypeOK, Statuses
  <1>4. MoreTypes
    <2>1. Stamped = {}
      BY DEF Init, Stamped
    <2>2. IsFiniteSet(Stamped)
      BY <2>1, FS_EmptySet
    <2>3. ran \in [Requests -> SUBSET Numbers] /\ told \in [Requests -> Nat]
      BY DEF Init
    <2> QED BY <1>1, <1>2, <2>2, <2>3 DEF MoreTypes, Stopping, Starting
  <1>5. AttemptInv
    BY <1>2 DEF AttemptInv, Active, Terminal
  <1>6. ProcInv
    BY <1>2 DEF ProcInv, Live, Idle, Attempts, Active
  <1>7. RowInv /\ StopInv /\ StartInv
    BY <1>2 DEF RowInv, StopInv, StartInv, Stopping, Starting
  <1>8. CountInv
    <2>1. \A j \in Requests : Used(j) = 1..0
      BY <1>2 DEF Used
    <2>2. 0 \in 0..(crashes + slow)
      BY <1>2
    <2> QED BY <1>2, <2>1, <2>2 DEF CountInv, Active
  <1> QED BY <1>3, <1>4, <1>5, <1>6, <1>7, <1>8 DEF BaseInv, TypeInv

\* The base invariant holds always.
LEMMA Based == Spec => []BaseInv
  BY BaseInit, BaseStep, PTL DEF Spec

\* Every reachable state of the tables, the daemon, the processes and the
\* commands is one the code knows, for every set of requests and every number of
\* crashes and slow starts: in particular the numbers of attempts stay in bounds.
THEOREM TypeCorrect == Spec => []TypeOK
  <1>1. BaseInv => TypeOK
    BY DEF BaseInv, TypeInv
  <1> QED BY <1>1, Based, PTL

-----------------------------------------------------------------------------
(***************************************************************************)
(* A job runs at most once.                                                *)
(***************************************************************************)

\* Only a worker that registers begins to run its job.
LEMMA RanEffects ==
    ASSUME [Next]_vars
    PROVE  \/ ran' = ran
           \/ \E a \in Attempts : /\ Register(a) /\ MayRegister(a)
                                  /\ ran' = [ran EXCEPT ![a[1]] = ran[a[1]] \cup {a[2]}]
  <1>1. ASSUME Clients \/ Boot
        PROVE  ran' = ran
    BY <1>1 DEF Clients, SubmitLookup, SubmitAdmit, SubmitReturn, Cancel, Delete, Drain,
                Start, Portal, Boot, history
  <1>2. ASSUME NEW row \in snap,
               \/ ScanStarting(row) \/ ScanRunning(row) \/ ScanOver(row)
               \/ StopConfirmed(row) \/ StopUnconfirmed(row)
        PROVE  ran' = ran
    BY <1>2 DEF ScanStarting, ScanRunning, ScanOver, StopConfirmed, StopUnconfirmed, StopPartly, history
  <1>3. ASSUME NEW j \in Requests, Claim(j) \/ NotifySend(j)
        PROVE  ran' = ran
    BY <1>3 DEF Claim, NotifySend, history
  <1>4. ASSUME Tick \/ Unconfirmed \/ Finalize \/ Standalone \/ ClaimNone \/ Launch
               \/ Identify \/ StartFailed \/ NotifyMark \/ LoopEnd \/ Exit \/ Crash
        PROVE  ran' = ran
    BY <1>4 DEF Tick, Unconfirmed, Finalize, Standalone, StandaloneStop,
                StandaloneRelease, StandaloneEnd, ClaimNone, Launch, Identify,
                StartFailed, NotifyMark, LoopEnd, Exit, Crash, history
  <1>5. ASSUME NEW a \in Attempts,
               \/ WorkerFinish(a) \/ WorkerCommit(a) \/ WorkerExit(a) \/ WorkerDie(a)
               \/ Age(a)
        PROVE  ran' = ran
    BY <1>5 DEF WorkerFinish, WorkerCommit, WorkerExit, WorkerDie, Age, history
  <1>20. ASSUME NEW o \in Owners, Executes(o)
        PROVE  ran' = ran
    BY <1>20 DEF Executes, ContainerStart, ContainerEnd, ChildCheck, ChildRun, ChildEnd,
                history
  <1>6. ASSUME NEW a \in Attempts, Register(a)
        PROVE  \/ ran' = ran
               \/ /\ MayRegister(a)
                  /\ ran' = [ran EXCEPT ![a[1]] = ran[a[1]] \cup {a[2]}]
    BY <1>6 DEF Register
  <1>7. ASSUME NEW c \in Commands, CliHold(c) \/ CliRelease(c) \/ CliDie(c)
        PROVE  ran' = ran
    BY <1>7 DEF CliHold, CliRelease, CliDie, history
  <1>8. CASE UNCHANGED vars
    BY <1>8 DEF vars, history
  <1> QED BY <1>1, <1>2, <1>3, <1>4, <1>5, <1>6, <1>7, <1>8, <1>20
          DEF Next, Loop, Processes, Executions, Executes, Foreground, Clock

RanOK(j) == ran[j] # {} => /\ status[j] \notin {"none", "queued", "starting"}
                           /\ stopFinal[j] # "queued"

\* While no worker registers, a job that has run is not put back.
LEMMA RanKept ==
    ASSUME BaseInv, RanInv, [Next]_vars, NEW i \in Requests, ran' = ran
    PROVE  RanOK(i)'
  <1>1. TypeOK /\ AttemptInv /\ StopInv /\ RanOK(i)
    BY DEF BaseInv, TypeInv, RanInv, RanOK
  <1> SUFFICES ASSUME ran[i] # {}
               PROVE  /\ status'[i] \notin {"none", "queued", "starting"}
                      /\ stopFinal'[i] # "queued"
    BY DEF RanOK
  <1>2. status[i] \notin {"none", "queued", "starting"} /\ stopFinal[i] # "queued"
    BY <1>1 DEF RanOK
  <1>3. CASE JobsSame
    BY <1>2, <1>3 DEF JobsSame
  <1>4. ASSUME NEW j \in Requests, JobSubmitted(j) \/ JobCancelled(j) \/ JobClaimed(j)
        PROVE  status'[i] = status[i] /\ stopFinal'[i] = stopFinal[i]
    <2>1. /\ status[j] \in {"none", "queued"} /\ stopFinal' = stopFinal
          /\ \E s : status' = [status EXCEPT ![j] = s]
      BY <1>4 DEF JobSubmitted, JobCancelled, JobClaimed
    <2>2. i # j
      BY <1>2, <2>1
    <2> QED BY <1>1, <2>1, <2>2 DEF TypeOK
  <1>5. ASSUME NEW j \in Requests, JobStopped(j)
        PROVE  /\ status'[i] \notin {"none", "queued", "starting"}
               /\ stopFinal'[i] # "queued"
    <2>1. CASE i # j
      <3>1. status'[i] = status[i] /\ stopFinal'[i] = stopFinal[i]
        BY <1>1, <1>5, <2>1 DEF JobStopped, TypeOK
      <3> QED BY <1>2, <3>1
    <2>2. CASE i = j
      BY <1>1, <1>2, <1>5, <2>2 DEF JobStopped, TypeOK
    <2> QED BY <2>1, <2>2
  <1>6. ASSUME NEW a \in Attempts, JobRegistered(a)
        PROVE  status'[i] = status[i] /\ stopFinal'[i] = stopFinal[i]
    <2>1. i # a[1]
      BY <1>2, <1>6 DEF JobRegistered
    <2> QED BY <1>1, <1>6, <2>1 DEF JobRegistered, TypeOK
  <1>7. CASE Finalize /\ Finalizable(cur)
    <2>1. /\ cur.job \in Requests /\ cur.n = attempt[cur.job]
          /\ Settled(cur) \in Finals
          /\ JobSettled(cur.job, Settled(cur))
      BY <1>7, FinalizeJobs
    <2>2. CASE i # cur.job
      <3>1. status'[i] = status[i] /\ stopFinal'[i] = stopFinal[i]
        BY <1>1, <2>1, <2>2 DEF JobSettled, TypeOK
      <3> QED BY <1>2, <3>1
    <2>3. CASE i = cur.job
      <3>1. status'[i] = Settled(cur) /\ stopFinal'[i] = "none"
        BY <1>1, <2>1, <2>3 DEF JobSettled, TypeOK
      <3>2. Mine(i) \notin finished
        BY <1>1, <2>1, <2>3 DEF AttemptInv, JobSettled, Active
      <3>3. cur.final = "queued" => status[i] = "cancelling"
        BY <1>1, <1>7, <2>1, <2>3, <3>2 DEF StopInv, Finalize, Stopping, Mine
      <3>4. Settled(cur) # "queued"
        BY <1>2, <2>3, <3>3 DEF Settled
      <3> QED BY <2>1, <3>1, <3>4 DEF Finals
    <2> QED BY <2>2, <2>3
  <1>8. CASE Finalize /\ ~Finalizable(cur)
    BY <1>2, <1>8 DEF Finalize
  <1> QED BY <1>2, <1>3, <1>4, <1>5, <1>6, <1>7, <1>8, JobEffects

\* No step lets a job that has run be put back, or run again.
LEMMA RanStep ==
    ASSUME BaseInv, RanInv, [Next]_vars
    PROVE  RanInv'
  <1>1. TypeOK /\ MoreTypes /\ AttemptInv /\ RowInv /\ StopInv
    BY DEF BaseInv, TypeInv
  <1>2. ran \in [Requests -> SUBSET Numbers]
    BY <1>1 DEF MoreTypes
  \* Nobody that could be put back is running code.
  <1>3. \A row \in snap' :
            row.stop = "queued" /\ <<row.job, row.n>> \notin finished' => ran[row.job] = {}
    <2>1. CASE snap' \subseteq snap
      <3>1. ASSUME NEW row \in snap', <<row.job, row.n>> \notin finished'
            PROVE  row \in snap /\ <<row.job, row.n>> \notin finished
        <4>1. <<row.job, row.n>> \in Attempts
          BY <1>1, <2>1, <3>1 DEF MoreTypes, Rows, Attempts
        <4> QED BY <2>1, <3>1, <4>1, Forward DEF Onward
      <3> QED BY <3>1 DEF RanInv
    <2>2. CASE Tick
      <3>1. ASSUME NEW row \in snap'
            PROVE  \E j \in Requests : row.job = j /\ row.stop = stopFinal[j]
        BY <2>2, <3>1 DEF Tick, Jobs, Row
      <3> QED BY <3>1 DEF RanInv
    <2> QED BY <2>1, <2>2, SnapEffects
  <1>4. dpc' \in Stopping /\ cur'.final = "queued" /\ <<cur'.job, cur'.n>> \notin finished'
            => ran[cur'.job] = {}
    <2>1. CASE DaemonSame
      <3>1. dpc' = dpc /\ cur' = cur
        BY <2>1 DEF DaemonSame
      <3>2. dpc \in Stopping => <<cur.job, cur.n>> \in Attempts
        BY <1>1 DEF MoreTypes, Claims, Attempts
      <3>3. dpc \in Stopping /\ <<cur.job, cur.n>> \notin finished'
                => <<cur.job, cur.n>> \notin finished
        BY <3>2, Forward DEF Onward
      <3> QED BY <3>1, <3>3 DEF RanInv
    <2>2. ASSUME NEW row \in snap, StopConfirmed(row) \/ StopUnconfirmed(row),
                 cur'.final = "queued", <<cur'.job, cur'.n>> \notin finished'
          PROVE  ran[cur'.job] = {}
      <3>1. cur' = Verdict(row) /\ finished' = finished /\ row \in Rows
        BY <1>1, <2>2 DEF StopConfirmed, StopUnconfirmed, StopPartly, tables, MoreTypes
      <3>2. row.completion \in Completions
        BY <3>1 DEF Rows
      <3>3. row.stop = "queued" /\ cur'.job = row.job /\ cur'.n = row.n
        BY <2>2, <3>1, <3>2 DEF Verdict, Completions
      <3> QED BY <2>2, <3>1, <3>3 DEF RanInv
    <2>3. CASE dpc' \notin Stopping
      BY <2>3
    <2>4. ASSUME \/ (\E j \in Requests : Claim(j)) \/ Launch
                 \/ (\E c \in Commands : StandaloneStop(c))
          PROVE  dpc' \notin Stopping
      BY <2>4 DEF Claim, Launch, StandaloneStop, Stopping
    <2> QED BY <2>1, <2>2, <2>3, <2>4, DaemonEffects
  <1>5. CASE ran' = ran
    <2>1. \A i \in Requests : RanOK(i)'
      BY <1>5, RanKept
    <2>2. \A j \in Requests : ran'[j] = {} \/ \E n \in Numbers : ran'[j] = {n}
      BY <1>5 DEF RanInv
    <2> QED BY <1>3, <1>4, <1>5, <2>1, <2>2 DEF RanInv, RanOK
  <1>6. ASSUME NEW a \in Attempts, Register(a), MayRegister(a),
               ran' = [ran EXCEPT ![a[1]] = ran[a[1]] \cup {a[2]}]
        PROVE  RanInv'
    <2> DEFINE j == a[1]
               n == a[2]
    <2>1. a = <<j, n>> /\ j \in Requests /\ n \in Numbers
      BY DEF Attempts
    <2>2. status[j] = "starting" /\ attempt[j] = n
      BY <1>6 DEF MayRegister, Current
    <2>3. ran[j] = {} /\ stopFinal[j] # "queued"
      BY <1>1, <2>1, <2>2 DEF RanInv, AttemptInv
    <2>4. /\ UNCHANGED <<stopFinal, snap, dpc, cur, finished>>
          /\ status' = [status EXCEPT ![j] = "running"]
      BY <1>6 DEF Register, daemon
    <2>5. \A i \in Requests : /\ ran'[i] = IF i = j THEN {n} ELSE ran[i]
                              /\ status'[i] = IF i = j THEN "running" ELSE status[i]
      BY <1>1, <1>2, <1>6, <2>3, <2>4 DEF TypeOK
    <2>6. \A i \in Requests :
              /\ ran'[i] = {} \/ \E m \in Numbers : ran'[i] = {m}
              /\ ran'[i] # {} => status'[i] \notin {"none", "queued", "starting"}
                                 /\ stopFinal'[i] # "queued"
      BY <2>1, <2>3, <2>4, <2>5 DEF RanInv
    <2>7. \A row \in snap :
              row.stop = "queued" /\ <<row.job, row.n>> \notin finished => row.job # j
      BY <1>1, <2>2 DEF RowInv, RowOK
    <2>8. dpc \in Stopping /\ cur.final = "queued" /\ <<cur.job, cur.n>> \notin finished
              => cur.job # j
      BY <1>1, <2>2 DEF StopInv
    <2>9. \A row \in snap : row.job \in Requests
      BY <1>1 DEF MoreTypes, Rows
    <2>10. dpc \in Stopping => cur.job \in Requests
      BY <1>1 DEF MoreTypes, Claims
    <2> HIDE DEF j, n
    <2>11. \A row \in snap' :
              row.stop = "queued" /\ <<row.job, row.n>> \notin finished' => ran'[row.job] = {}
      BY <1>3, <2>4, <2>5, <2>7, <2>9
    <2>12. dpc' \in Stopping /\ cur'.final = "queued" /\ <<cur'.job, cur'.n>> \notin finished'
              => ran'[cur'.job] = {}
      BY <1>4, <2>4, <2>5, <2>8, <2>10
    <2> QED BY <2>6, <2>11, <2>12 DEF RanInv
  <1> QED BY <1>5, <1>6, RanEffects

\* RanInv is inductive relative to the base invariant.
LEMMA RanAlways == Spec => []RanInv
  <1>1. Init => RanInv
    <2> SUFFICES ASSUME Init
                 PROVE  RanInv
      OBVIOUS
    <2>1. ran = [j \in Requests |-> {}] /\ snap = {} /\ dpc = "down"
      BY DEF Init
    <2> QED BY <2>1 DEF RanInv, Stopping
  <1>2. BaseInv /\ RanInv /\ [Next]_vars => RanInv'
    BY RanStep
  <1> QED BY <1>1, <1>2, Based, PTL DEF Spec

\* A job runs its business code at most once, whatever crashes, is cancelled or is
\* late: reconcile puts back only an attempt that never registered, and a late
\* worker finds its attempt replaced.
THEOREM RunsOnce == Spec => []RunsAtMostOnce
  <1>1. RanInv => RunsAtMostOnce
    <2> SUFFICES ASSUME RanInv, NEW j \in Requests
                 PROVE  Cardinality(ran[j]) <= 1
      BY DEF RunsAtMostOnce
    <2>1. CASE ran[j] = {}
      BY <2>1, FS_EmptySet
    <2>2. CASE \E n \in Numbers : ran[j] = {n}
      <3>1. PICK n \in Numbers : ran[j] = {n}
        BY <2>2
      <3>2. Cardinality({n}) = 1
        BY FS_Singleton
      <3> QED BY <3>1, <3>2
    <2> QED BY <2>1, <2>2 DEF RanInv
  <1> QED BY <1>1, RanAlways, PTL

-----------------------------------------------------------------------------
(***************************************************************************)
(* Settled jobs and their notifications.                                   *)
(***************************************************************************)

\* A settled job stays as it is, and one that is being cancelled does not succeed.
LEMMA SettledStays ==
    ASSUME BaseInv, [Next]_vars, NEW i \in Requests
    PROVE  /\ status[i] \in Terminal => status'[i] = status[i]
           /\ status[i] = "cancelling" =>
                 status'[i] \in {"cancelling", "queued"} \cup (Terminal \ {"succeeded"})
           /\ status'[i] = "none" => status[i] = "none"
  <1>1. TypeOK
    BY DEF BaseInv, TypeInv
  <1>2. CASE JobsSame
    BY <1>2 DEF JobsSame
  <1>3. ASSUME NEW j \in Requests,
               JobSubmitted(j) \/ JobCancelled(j) \/ JobStopped(j) \/ JobClaimed(j)
        PROVE  \/ status'[i] = status[i]
               \/ /\ status[i] \notin Terminal
                  /\ status'[i] \in {"queued", "cancelled", "cancelling", "starting"}
                  /\ status[i] = "cancelling" => status'[i] = "cancelling"
    BY <1>1, <1>3 DEF JobSubmitted, JobCancelled, JobStopped, JobClaimed, TypeOK, Terminal,
                      Active
  <1>4. ASSUME NEW a \in Attempts, JobRegistered(a)
        PROVE  \/ status'[i] = status[i]
               \/ status[i] \notin Terminal \cup {"cancelling"} /\ status'[i] = "running"
    BY <1>1, <1>4 DEF JobRegistered, TypeOK, Terminal
  <1>5. CASE SettlesCur
    <2>1. PICK f \in Finals : JobSettled(cur.job, f)
      BY <1>5 DEF SettlesCur
    <2> QED BY <1>1, <1>5, <2>1 DEF SettlesCur, JobSettled, TypeOK, Finals, Terminal
  <1> QED BY <1>2, <1>3, <1>4, <1>5, JobEffects DEF Terminal

\* A settled job is not settled again, whatever arrives late, no step turns a
\* cancellation into a success, and the cancellation of a job whose code has begun
\* is final: only the cancellation of a start that never ran may be put back.
THEOREM NeverOverwritten == Spec => NotOverwritten
  <1>1. ASSUME BaseInv, RanInv, [Next]_vars, NEW j \in Requests
        PROVE  /\ status[j] \in Terminal => status'[j] = status[j]
               /\ status[j] = "cancelling" => status'[j] # "succeeded"
               /\ status[j] = "cancelling" /\ ran[j] # {} =>
                      status'[j] \in {"cancelling"} \cup (Terminal \ {"succeeded"})
    <2>1. /\ status[j] \in Terminal => status'[j] = status[j]
          /\ status[j] = "cancelling" =>
                status'[j] \in {"cancelling", "queued"} \cup (Terminal \ {"succeeded"})
      BY <1>1, SettledStays
    <2>2. ran[j] # {} => ran'[j] # {}
      <3>1. ran \in [Requests -> SUBSET Numbers]
        BY <1>1 DEF BaseInv, TypeInv, MoreTypes
      <3>2. CASE ran' = ran
        BY <3>2
      <3>3. ASSUME NEW a \in Attempts,
                   ran' = [ran EXCEPT ![a[1]] = ran[a[1]] \cup {a[2]}]
            PROVE  ran[j] # {} => ran'[j] # {}
        BY <3>1, <3>3
      <3> QED BY <1>1, <3>2, <3>3, RanEffects
    <2>3. ran[j] # {} => status'[j] # "queued"
      BY <1>1, <2>2, RanStep DEF RanInv
    <2> QED BY <2>1, <2>3
  <1>2. BaseInv /\ RanInv /\ [Next]_vars =>
           [\A j \in Requests :
               /\ status[j] \in Terminal => status'[j] = status[j]
               /\ status[j] = "cancelling" => status'[j] # "succeeded"
               /\ status[j] = "cancelling" /\ ran[j] # {} =>
                      status'[j] \in {"cancelling"} \cup (Terminal \ {"succeeded"})]_vars
    BY <1>1
  <1> QED BY <1>2, Based, RanAlways, PTL DEF Spec, NotOverwritten

\* Who writes notifications.
NotesSame == UNCHANGED <<notify, told>> /\ outbox' \subseteq outbox

\* Which steps touch notifications.
LEMMA NoteEffects ==
    ASSUME [Next]_vars
    PROVE  \/ NotesSame
           \/ \E j \in Requests : Cancel(j) \/ NotifySend(j)
           \/ Finalize \/ NotifyMark
  <1>1. ASSUME NEW q \in Requests,
               SubmitLookup(q) \/ SubmitAdmit(q) \/ SubmitReturn(q) \/ Delete(q)
        PROVE  NotesSame
    BY <1>1 DEF SubmitLookup, SubmitAdmit, SubmitReturn, Delete, tables, daemon, history,
                NotesSame
  <1>2. ASSUME Drain \/ Start \/ Portal \/ Boot
        PROVE  NotesSame
    BY <1>2 DEF Drain, Start, Portal, Boot, tables, daemon, history, NotesSame
  <1>3. ASSUME NEW row \in snap,
               \/ ScanStarting(row) \/ ScanRunning(row) \/ ScanOver(row)
               \/ StopConfirmed(row) \/ StopUnconfirmed(row)
        PROVE  NotesSame
    BY <1>3 DEF ScanStarting, ScanRunning, ScanOver, StopConfirmed, StopUnconfirmed, StopPartly, tables, history,
                NotesSame
  <1>4. ASSUME Tick \/ Unconfirmed \/ Standalone \/ ClaimNone \/ Launch
               \/ Identify \/ StartFailed \/ LoopEnd \/ Exit \/ Crash
               \/ \E j \in Requests : Claim(j)
        PROVE  NotesSame
    BY <1>4 DEF Tick, Unconfirmed, Standalone, StandaloneStop,
                StandaloneRelease, StandaloneEnd, ClaimNone, Launch, Identify,
                StartFailed, LoopEnd, Exit, Crash, Claim, tables, history, NotesSame
  <1>5. ASSUME NEW a \in Attempts,
               \/ Register(a) \/ WorkerFinish(a) \/ WorkerCommit(a) \/ WorkerExit(a)
               \/ WorkerDie(a) \/ Age(a)
        PROVE  NotesSame
    BY <1>5 DEF Register, WorkerFinish, WorkerCommit, WorkerExit, WorkerDie, Age, tables,
                daemon, history, NotesSame
  <1>20. ASSUME NEW o \in Owners, Executes(o)
        PROVE  NotesSame
    BY <1>20 DEF Executes, ContainerStart, ContainerEnd, ChildCheck, ChildRun, ChildEnd,
                tables, daemon, history, NotesSame
  <1>6. ASSUME NEW c \in Commands, CliHold(c) \/ CliRelease(c) \/ CliDie(c)
        PROVE  NotesSame
    BY <1>6 DEF CliHold, CliRelease, CliDie, tables, daemon, history, NotesSame
  <1>7. CASE UNCHANGED vars
    BY <1>7 DEF vars, tables, daemon, history, NotesSame
  <1> QED BY <1>1, <1>2, <1>3, <1>4, <1>5, <1>6, <1>7, <1>20
          DEF Next, Clients, Loop, Processes, Executions, Executes, Foreground, Clock

ToldOK(j) ==
    /\ notify[j] # "none" => status[j] \in Terminal
    /\ j \in outbox \/ told[j] > 0 => notify[j] = "sent"
    /\ j \in outbox => told[j] = 0
    /\ told[j] <= 1

\* A job is noted when it is settled, in the same transaction.
LEMMA NoteKept ==
    ASSUME BaseInv, [Next]_vars, NEW i \in Requests, ToldOK(i), NEW j \in Requests, Note(j),
           status'[j] \in Terminal, UNCHANGED <<told, outbox>>
    PROVE  ToldOK(i)'
  <1>1. notify'[i] = IF i = j /\ notify[i] = "none" THEN "pending" ELSE notify[i]
    BY DEF Note, BaseInv, TypeInv, TypeOK
  <1>2. status[i] \in Terminal => status'[i] = status[i]
    BY SettledStays
  <1> QED BY <1>1, <1>2 DEF ToldOK

\* No step lets a job be told twice.
LEMMA ToldStep ==
    ASSUME BaseInv, ToldInv, [Next]_vars
    PROVE  ToldInv'
  <1>1. TypeOK /\ told \in [Requests -> Nat]
    BY DEF BaseInv, TypeInv, MoreTypes
  <1> SUFFICES ASSUME NEW i \in Requests
               PROVE  ToldOK(i)'
    BY DEF ToldInv, ToldOK
  <1>2. ToldOK(i)
    BY DEF ToldInv, ToldOK
  <1>3. status[i] \in Terminal => status'[i] = status[i]
    BY SettledStays
  <1>4. CASE NotesSame
    BY <1>2, <1>3, <1>4 DEF NotesSame, ToldOK
  <1>5. ASSUME NEW j \in Requests, Cancel(j)
        PROVE  ToldOK(i)'
    <2>1. UNCHANGED <<told, outbox>>
      BY <1>5 DEF Cancel, daemon
    <2>2. CASE status[j] = "queued"
      <3>1. Note(j) /\ status'[j] \in Terminal
        BY <1>1, <1>5, <2>2 DEF Cancel, TypeOK, Terminal
      <3> QED BY <1>2, <2>1, <3>1, NoteKept
    <2>3. CASE status[j] # "queued"
      <3>1. notify' = notify
        BY <1>5, <2>3 DEF Cancel
      <3> QED BY <1>2, <1>3, <2>1, <3>1 DEF ToldOK
    <2> QED BY <2>2, <2>3
  <1>6. CASE Finalize
    <2>1. UNCHANGED <<told, outbox>>
      BY <1>6 DEF Finalize, history
    <2>2. CASE Finalizable(cur) /\ Settled(cur) # "queued"
      <3>1. Note(cur.job)
        BY <1>6, <2>2 DEF Finalize
      <3>2. /\ cur.job \in Requests /\ Settled(cur) \in Finals
            /\ JobSettled(cur.job, Settled(cur))
        BY <1>6, <2>2, FinalizeJobs
      <3>3. status'[cur.job] = Settled(cur)
        BY <1>1, <3>2 DEF JobSettled, TypeOK
      <3>4. status'[cur.job] \in Terminal
        BY <2>2, <3>2, <3>3 DEF Finals, Terminal
      <3> QED BY <1>2, <2>1, <3>1, <3>2, <3>4, NoteKept
    <2>3. CASE ~(Finalizable(cur) /\ Settled(cur) # "queued")
      <3>1. notify' = notify
        BY <1>6, <2>3 DEF Finalize
      <3> QED BY <1>2, <1>3, <2>1, <3>1 DEF ToldOK
    <2> QED BY <2>2, <2>3
  <1>7. CASE NotifyMark
    <2>1. /\ UNCHANGED <<told, status>>
          /\ outbox' = { j \in Requests : notify[j] = "pending" }
          /\ notify'[i] = IF notify[i] = "pending" THEN "sent" ELSE notify[i]
      BY <1>7 DEF NotifyMark, history, jobs
    <2>2. told[i] \in Nat
      BY <1>1
    <2> QED BY <1>2, <2>1, <2>2 DEF ToldOK
  <1>8. ASSUME NEW j \in Requests, NotifySend(j)
        PROVE  ToldOK(i)'
    <2>1. /\ UNCHANGED <<notify, status>> /\ j \in outbox /\ outbox' = outbox \ {j}
          /\ told'[i] = IF i = j THEN told[i] + 1 ELSE told[i]
      BY <1>1, <1>8 DEF NotifySend, tables, jobs
    <2>2. told[i] \in Nat
      BY <1>1
    <2> QED BY <1>2, <2>1, <2>2 DEF ToldOK
  <1> QED BY <1>4, <1>5, <1>6, <1>7, <1>8, NoteEffects

\* A notification is sent at most once, and only of a settled job: it is marked
\* before it is sent, and a daemon that crashes in between forgets it.
THEOREM ToldAtMostOnce == Spec => []ToldOnce
  <1>1. Init => ToldInv
    <2> SUFFICES ASSUME Init
                 PROVE  ToldInv
      OBVIOUS
    <2>1. /\ notify = [j \in Requests |-> "none"] /\ outbox = {}
          /\ told = [j \in Requests |-> 0]
      BY DEF Init
    <2> QED BY <2>1 DEF ToldInv
  <1>2. BaseInv /\ ToldInv /\ [Next]_vars => ToldInv'
    BY ToldStep
  <1>3. BaseInv /\ ToldInv => ToldOnce
    <2> SUFFICES ASSUME ToldInv, NEW j \in Requests
                 PROVE  told[j] <= 1 /\ (told[j] = 1 => status[j] \in Terminal)
      BY DEF ToldOnce
    <2>1. told[j] = 1 => told[j] > 0
      OBVIOUS
    <2> QED BY <2>1 DEF ToldInv
  <1> QED BY <1>1, <1>2, <1>3, Based, PTL DEF Spec

-----------------------------------------------------------------------------
(***************************************************************************)
(* Resource locks.                                                         *)
(***************************************************************************)

Compatible ==
    \A l, k \in locks :
        l.res = k.res /\ l.owner # k.owner => l.mode = "read" /\ k.mode = "read"

\* acquire_in gives an owner its locks, next to compatible ones.
LEMMA Acquired ==
    ASSUME NEW o, Compatible, Free(o, Needs[o[1]]), Acquire(o, Needs[o[1]])
    PROVE  /\ Compatible' /\ Holds(o)'
           /\ \A p : Holds(p) => Holds(p)'
           /\ \A l \in locks' : l \in locks \/ l.owner = o
  <1> DEFINE new(d) == [res |-> d[1], owner |-> o, mode |-> d[2]]
  <1>1. locks' = locks \cup { new(d) : d \in Needs[o[1]] }
    BY DEF Acquire
  <1>2. Holds(o)' /\ \A p : Holds(p) => Holds(p)'
    BY <1>1 DEF Holds
  <1>3. \A d \in Needs[o[1]] : new(d).res = d[1] /\ new(d).owner = o /\ new(d).mode = d[2]
    OBVIOUS
  <1> HIDE DEF new
  <1>4. \A l \in locks' : l \in locks \/ \E d \in Needs[o[1]] : l = new(d)
    BY <1>1
  <1>5. ASSUME NEW l \in locks, NEW d \in Needs[o[1]], l.res = d[1], l.owner # o
        PROVE  l.mode = "read" /\ d[2] = "read"
    BY <1>5 DEF Free
  <1>6. Compatible'
    <2> SUFFICES ASSUME NEW l \in locks', NEW k \in locks',
                        l.res = k.res, l.owner # k.owner
                 PROVE  l.mode = "read" /\ k.mode = "read"
      BY DEF Compatible
    <2>1. CASE l \in locks /\ k \in locks
      BY <2>1 DEF Compatible
    <2>2. CASE l \in locks /\ \E d \in Needs[o[1]] : k = new(d)
      BY <1>3, <1>5, <2>2
    <2>3. CASE k \in locks /\ \E d \in Needs[o[1]] : l = new(d)
      BY <1>3, <1>5, <2>3
    <2>4. CASE (\E d \in Needs[o[1]] : l = new(d)) /\ (\E d \in Needs[o[1]] : k = new(d))
      BY <1>3, <2>4
    <2> QED BY <1>4, <2>1, <2>2, <2>3, <2>4
  <1> QED BY <1>2, <1>3, <1>4, <1>6

\* The locks of the owners that are gone are freed, no others.
LEMMA Released ==
    ASSUME NEW gone, Compatible, locks' = { l \in locks : l.owner \notin gone }
    PROVE  /\ Compatible' /\ locks' \subseteq locks
           /\ \A p : Holds(p) /\ p \notin gone => Holds(p)'
           /\ \A l \in locks' : l.owner \notin gone
  <1>1. \A p : Holds(p) /\ p \notin gone => Holds(p)'
    <2> SUFFICES ASSUME NEW p, Holds(p), p \notin gone, NEW d \in Needs[p[1]]
                 PROVE  [res |-> d[1], owner |-> p, mode |-> d[2]] \in locks'
      BY DEF Holds
    <2>1. [res |-> d[1], owner |-> p, mode |-> d[2]] \in locks
      BY DEF Holds
    <2> QED BY <2>1
  <1> QED BY <1>1 DEF Compatible

\* Who takes and frees locks, and finishes executions.
LocksSame == UNCHANGED <<locks, cli, finished>>

\* Which steps touch the locks.
LEMMA LockEffects ==
    ASSUME [Next]_vars
    PROVE  \/ LocksSame
           \/ Finalize \/ StandaloneRelease
           \/ \E j \in Requests : Claim(j)
           \/ \E c \in Commands : CliHold(c) \/ CliRelease(c) \/ CliDie(c)
  <1>1. ASSUME Clients \/ Boot
        PROVE  LocksSame
    BY <1>1 DEF Clients, SubmitLookup, SubmitAdmit, SubmitReturn, Cancel, Delete, Drain,
                Start, Portal, Boot, tables, procs, LocksSame
  <1>2. ASSUME NEW row \in snap,
               \/ ScanStarting(row) \/ ScanRunning(row) \/ ScanOver(row)
               \/ StopConfirmed(row) \/ StopUnconfirmed(row)
        PROVE  LocksSame
    BY <1>2 DEF ScanStarting, ScanRunning, ScanOver, StopConfirmed, StopUnconfirmed, StopPartly, tables, procs,
                LocksSame
  <1>3. ASSUME Tick \/ Unconfirmed \/ ClaimNone \/ Launch \/ Identify \/ StartFailed
               \/ NotifyMark \/ LoopEnd \/ Exit \/ Crash \/ StandaloneEnd
               \/ (\E j \in Requests : NotifySend(j))
               \/ (\E c \in Commands : StandaloneStop(c))
        PROVE  LocksSame
    BY <1>3 DEF Tick, Unconfirmed, ClaimNone, Launch, Identify, StartFailed, NotifyMark,
                LoopEnd, Exit, Crash, NotifySend, StandaloneEnd, StandaloneStop, tables, procs, LocksSame
  <1>4. ASSUME NEW a \in Attempts,
               \/ Register(a) \/ WorkerFinish(a) \/ WorkerCommit(a) \/ WorkerExit(a)
               \/ WorkerDie(a) \/ Age(a)
        PROVE  LocksSame
    BY <1>4 DEF Register, WorkerFinish, WorkerCommit, WorkerExit, WorkerDie, Age, tables,
                procs, LocksSame
  <1>20. ASSUME NEW o \in Owners, Executes(o)
        PROVE  LocksSame
    BY <1>20 DEF Executes, ContainerStart, ContainerEnd, ChildCheck, ChildRun, ChildEnd,
                tables, procs, LocksSame
  <1>5. CASE UNCHANGED vars
    BY <1>5 DEF vars, tables, procs, LocksSame
  <1> QED BY <1>1, <1>2, <1>3, <1>4, <1>5, <1>20
          DEF Next, Loop, Standalone, Processes, Executions, Executes, Foreground, Clock

\* Only a claim makes an attempt live.
LEMMA LiveBefore ==
    ASSUME BaseInv, [Next]_vars, NEW a \in Attempts, Live(a)'
    PROVE  Live(a) \/ (Claim(a[1]) /\ a = NextAttempt(a[1]))
  <1>1. CASE dpc = "dispatch" /\ dpc' = "launch" /\ JobClaimed(a[1]) /\ a = NextAttempt(a[1])
    <2>1. PICK k \in Requests : Claim(k)
      BY <1>1, DaemonEffects DEF DaemonSame, StopConfirmed, StopUnconfirmed, StopPartly,
                       StandaloneStop, Launch, Starting
    <2>2. status' = [status EXCEPT ![k] = "starting"]
      BY <2>1 DEF Claim
    <2>3. a[1] \in Requests /\ status[a[1]] = "queued" /\ status'[a[1]] = "starting"
      BY <1>1 DEF JobClaimed, BaseInv, TypeInv, TypeOK, Attempts
    <2>4. k = a[1]
      BY <2>2, <2>3 DEF BaseInv, TypeInv, TypeOK
    <2> QED BY <1>1, <2>1, <2>4
  <1> QED BY <1>1, Backward

\* A lock that is not freed does not leak: its attempt stays live.
LockOK(l) ==
    /\ l.owner \notin finished
    /\ IF l.owner[2] = 0 THEN cli[l.owner[1]] \in {"holding", "pending", "dead"}
       ELSE Live(l.owner)

CliOK(c) ==
    /\ cli[c] \in {"holding", "pending", "dead"} /\ <<c, 0>> \notin finished => Holds(<<c, 0>>)
    /\ cli[c] \in {"idle", "holding"} => <<c, 0>> \notin finished

\* The lock invariant, lock by lock and owner by owner.
LEMMA LockParts ==
    LockInv <=> /\ \A l \in locks : LockOK(l)
                /\ \A a \in Attempts : Live(a) => Holds(a)
                /\ \A c \in Commands : CliOK(c)
                /\ Compatible
  BY DEF LockInv, NoLeakedLocks, LockOK, Current, Live, CliOK, Compatible

\* The owner of a lock is an attempt or a command, and no attempt is a command.
LEMMA OwnerKinds ==
    ASSUME TypeOK
    PROVE  /\ \A l \in locks : l.owner \in Owners
           /\ \A o \in Owners : IF o[2] = 0 THEN o[1] \in Commands /\ o = <<o[1], 0>>
                                ELSE o \in Attempts
           /\ \A a \in Attempts : a[2] # 0
           /\ \A c \in Commands : <<c, 0>> \notin Attempts
  BY DEF TypeOK, Owners, Attempts, Numbers

\* A lock that is right stays right while its owner is not finished.
LEMMA LockKept ==
    ASSUME BaseInv, [Next]_vars, NEW l \in locks, LockOK(l), l.owner \notin finished',
           l.owner[2] = 0 => cli'[l.owner[1]] \in {"holding", "pending", "dead"}
    PROVE  LockOK(l)'
  <1>1. TypeOK
    BY DEF BaseInv, TypeInv
  <1>2. CASE l.owner[2] = 0
    BY <1>2 DEF LockOK
  <1>3. CASE l.owner[2] # 0
    <2>1. l.owner \in Attempts /\ Live(l.owner)
      BY <1>1, <1>3, OwnerKinds DEF LockOK
    <2>2. Live(l.owner)'
      BY <2>1, Forward DEF Onward
    <2> QED BY <1>3, <2>2 DEF LockOK
  <1> QED BY <1>2, <1>3

\* A command that was left stays left.
LEMMA LeftStep ==
    ASSUME BaseInv, LeftInv, [Next]_vars
    PROVE  LeftInv'
  <1>1. TypeOK /\ MoreTypes
    BY DEF BaseInv, TypeInv
  <1>2. ASSUME NEW c \in Commands, Left(c)
        PROVE  Left(c)'
    <2>1. ASSUME NEW d \in Commands, CliHold(d) \/ CliRelease(d) \/ CliDie(d)
          PROVE  Left(c)'
      <3>1. /\ cli[d] \in {"idle", "holding"}
            /\ \E s : cli' = [cli EXCEPT ![d] = s]
        BY <2>1 DEF CliHold, CliRelease, CliDie
      <3>2. c # d
        BY <1>2, <3>1 DEF Left
      <3>3. cli'[c] = cli[c]
        BY <1>1, <3>1, <3>2 DEF TypeOK
      <3> QED BY <1>2, <3>3 DEF Left
    <2>2. ASSUME cli' = cli
          PROVE  Left(c)'
      BY <1>2, <2>2 DEF Left
    <2>3. ASSUME Finalize \/ StandaloneRelease \/ \E j \in Requests : Claim(j)
          PROVE  cli' = cli
      BY <2>3 DEF Finalize, StandaloneRelease, Claim, procs
    <2> QED BY <2>1, <2>2, <2>3, LockEffects DEF LocksSame
  <1>3. CASE DaemonSame
    BY <1>1, <1>2, <1>3 DEF DaemonSame, LeftInv, MoreTypes
  <1>4. ASSUME NEW c \in Commands, StandaloneStop(c)
        PROVE  LeftInv'
    <2>1. cur'.job = c /\ cli' = cli /\ Left(c)
      BY <1>4 DEF StandaloneStop, NoRow
    <2> QED BY <2>1 DEF LeftInv, Left
  <1>5. ASSUME \/ \E row \in snap : StopConfirmed(row) \/ StopUnconfirmed(row)
               \/ (\E j \in Requests : Claim(j)) \/ Launch
        PROVE  dpc' # "release"
    BY <1>5 DEF StopConfirmed, StopUnconfirmed, Claim, Launch
  <1> QED BY <1>3, <1>4, <1>5, DaemonEffects DEF LeftInv

\* Locks stay with their owners and compatible.
LEMMA LockStep ==
    ASSUME BaseInv, LeftInv, LockInv, [Next]_vars
    PROVE  LockInv'
  <1>1. TypeOK /\ MoreTypes /\ AttemptInv
    BY DEF BaseInv, TypeInv
  <1>2. /\ \A l \in locks : LockOK(l)
        /\ \A a \in Attempts : Live(a) => Holds(a)
        /\ \A c \in Commands : CliOK(c)
        /\ Compatible
    BY LockParts
  <1>3. SUFFICES /\ \A l \in locks' : LockOK(l)'
                 /\ \A a \in Attempts : Live(a)' => Holds(a)'
                 /\ \A c \in Commands : CliOK(c)'
                 /\ Compatible'
    BY DEF LockInv, NoLeakedLocks, LockOK, Current, Live, CliOK, Compatible
  <1>4. ASSUME NEW l \in locks
        PROVE  /\ l.owner \notin finished
               /\ l.owner[2] = 0 => cli[l.owner[1]] \in {"holding", "pending", "dead"}
    BY <1>2 DEF LockOK
  <1>5. CASE \E j \in Requests : Claim(j)
    <2>1. PICK j \in Requests : Claim(j)
      BY <1>5
    <2>2. status[j] = "queued"
      BY <2>1 DEF Claim, Claimable, Oldest, Queued
    <2>3. PICK a \in Attempts : a = NextAttempt(j) /\ a[1] = j /\ a \notin finished
      BY <2>2, NextNumber DEF Attempts
    <2>4. /\ status[j] = "queued" /\ Free(a, Needs[j]) /\ Acquire(a, Needs[j])
          /\ status' = [status EXCEPT ![j] = "starting"]
          /\ attempt' = [attempt EXCEPT ![j] = a[2]]
          /\ UNCHANGED <<finished, cli>>
      BY <2>1, <2>3 DEF Claim, Claimable, Oldest, Queued, procs
    <2>5. a \in Attempts /\ a[1] = j /\ a \notin finished
      BY <2>3
    <2>6. /\ Compatible' /\ Holds(a)'
          /\ \A p : Holds(p) => Holds(p)'
          /\ \A l \in locks' : l \in locks \/ l.owner = a
      BY <1>2, <2>4, <2>5, Acquired
    <2>7. Live(a)'
      BY <1>1, <2>4, <2>5 DEF Live, Active, TypeOK
    <2>8. ASSUME NEW l \in locks'
          PROVE  LockOK(l)'
      <3>1. CASE l \in locks
        BY <1>2, <1>4, <2>4, <3>1, LockKept
      <3>2. CASE l.owner = a
        BY <1>1, <2>4, <2>5, <2>7, <3>2, OwnerKinds DEF LockOK
      <3> QED BY <2>6, <3>1, <3>2
    <2>9. ASSUME NEW b \in Attempts, Live(b)'
          PROVE  Holds(b)'
      <3>1. CASE Live(b)
        BY <1>2, <2>6, <3>1
      <3>2. CASE Claim(b[1]) /\ b = NextAttempt(b[1])
        <4>1. status' = [status EXCEPT ![b[1]] = "starting"] /\ status[b[1]] = "queued"
          BY <3>2 DEF Claim, Claimable, Oldest, Queued
        <4>2. b[1] = j
          <5>1. b[1] \in Requests
            BY DEF Attempts
          <5> QED BY <1>1, <2>4, <4>1, <5>1 DEF TypeOK
        <4> QED BY <2>6, <2>3, <3>2, <4>2
      <3> QED BY <2>9, <3>1, <3>2, LiveBefore
    <2>10. \A c \in Commands : CliOK(c)'
      BY <1>2, <2>4, <2>6 DEF CliOK
    <2> QED BY <2>6, <2>8, <2>9, <2>10
  <1>6. ASSUME ~\E j \in Requests : Claim(j), NEW a \in Attempts, Live(a)'
        PROVE  Live(a) /\ Holds(a)
    <2>1. a[1] \in Requests
      BY DEF Attempts
    <2> QED BY <1>2, <1>6, <2>1, LiveBefore
  <1>7. CASE LocksSame /\ ~\E j \in Requests : Claim(j)
    <2>1. locks' = locks /\ cli' = cli /\ finished' = finished
      BY <1>7 DEF LocksSame
    <2>2. \A l \in locks' : LockOK(l)'
      BY <1>2, <1>4, <2>1, LockKept
    <2>3. \A a \in Attempts : Live(a)' => Holds(a)'
      BY <1>6, <1>7, <2>1 DEF Holds
    <2>4. \A c \in Commands : CliOK(c)'
      BY <1>2, <2>1 DEF CliOK, Holds
    <2> QED BY <1>2, <2>1, <2>2, <2>3, <2>4 DEF Compatible
  <1>8. CASE Finalize /\ Finalizable(cur)
    <2> DEFINE o == <<cur.job, cur.n>>
    <2>1. /\ locks' = { l \in locks : l.owner # o }
          /\ finished' = finished \cup {o} /\ cli' = cli
          /\ ~\E j \in Requests : Claim(j)
      BY <1>8 DEF Finalize, Release, procs, Claim
    <2>2. /\ cur.job \in Requests /\ cur.n = attempt[cur.job]
          /\ Settled(cur) \in Finals
          /\ JobSettled(cur.job, Settled(cur))
      BY <1>8, FinalizeJobs
    <2>3. /\ status'[cur.job] \notin Active
          /\ o \in Attempts
      <3>1. status'[cur.job] = Settled(cur)
        BY <1>1, <2>2 DEF JobSettled, TypeOK
      <3>2. cur.n \in Numbers
        BY <1>1, <2>2 DEF AttemptInv, JobSettled, Active
      <3> QED BY <2>2, <3>1, <3>2 DEF Finals, Active, Attempts
    <2>4. o[1] = cur.job
      OBVIOUS
    <2> HIDE DEF o
    <2>5. locks' = { l \in locks : l.owner \notin {o} }
      BY <2>1
    <2>6. /\ Compatible' /\ locks' \subseteq locks
          /\ \A p : Holds(p) /\ p \notin {o} => Holds(p)'
          /\ \A l \in locks' : l.owner \notin {o}
      BY <1>2, <2>5, Released
    <2>7. \A l \in locks' : LockOK(l)'
      BY <1>2, <1>4, <2>1, <2>6, LockKept
    <2>8. \A a \in Attempts : Live(a)' => Holds(a)'
      BY <1>6, <2>1, <2>3, <2>4, <2>6 DEF Live
    <2>9. \A c \in Commands : CliOK(c)'
      BY <1>1, <1>2, <2>1, <2>3, <2>6, OwnerKinds DEF CliOK
    <2> QED BY <2>6, <2>7, <2>8, <2>9
  <1>9. CASE Finalize /\ ~Finalizable(cur)
    BY <1>7, <1>9 DEF Finalize, LocksSame, procs, Claim
  <1>10. CASE StandaloneRelease
    <2> DEFINE o == <<cur.job, 0>>
    <2>1. /\ locks' = { l \in locks : l.owner \notin {o} }
          /\ finished' = finished \cup {o} /\ cli' = cli
          /\ ~\E j \in Requests : Claim(j)
      BY <1>10 DEF StandaloneRelease, Release, procs, Claim
    <2>2. \A c \in Commands : cli[c] \in {"idle", "holding"} => <<c, 0>> # o
      BY <1>10 DEF StandaloneRelease, LeftInv, Left
    <2>3. \A a \in Attempts : a # o
      BY DEF Attempts, Numbers
    <2> HIDE DEF o
    <2>4. /\ Compatible' /\ locks' \subseteq locks
          /\ \A p : Holds(p) /\ p \notin {o} => Holds(p)'
          /\ \A l \in locks' : l.owner \notin {o}
      BY <1>2, <2>1, Released
    <2>5. \A l \in locks' : LockOK(l)'
      BY <1>2, <1>4, <2>1, <2>4, LockKept
    <2>6. \A a \in Attempts : Live(a)' => Holds(a)'
      BY <1>6, <2>1, <2>3, <2>4
    <2>7. \A c \in Commands : CliOK(c)'
      BY <1>2, <2>1, <2>2, <2>4 DEF CliOK
    <2> QED BY <2>4, <2>5, <2>6, <2>7
  <1>11. ASSUME NEW c \in Commands, CliHold(c)
         PROVE  /\ \A l \in locks' : LockOK(l)'
                /\ \A a \in Attempts : Live(a)' => Holds(a)'
                /\ \A d \in Commands : CliOK(d)'
                /\ Compatible'
    <2> DEFINE o == <<c, 0>>
    <2>1. /\ cli[c] = "idle" /\ Free(o, Needs[c]) /\ Acquire(o, Needs[c])
          /\ cli' = [cli EXCEPT ![c] = "holding"]
          /\ UNCHANGED <<finished, status, attempt, dpc>>
      BY <1>11 DEF CliHold, jobs, daemon
    <2>2. o[1] = c /\ o[2] = 0 /\ o \notin finished
      BY <1>2, <2>1 DEF CliOK
    <2>3. ~\E j \in Requests : Claim(j)
      BY <2>1 DEF Claim
    <2>4. \A d \in Commands : /\ <<d, 0>> = o <=> d = c
                              /\ cli'[d] = IF d = c THEN "holding" ELSE cli[d]
      BY <1>1, <2>1 DEF TypeOK
    <2> HIDE DEF o
    <2>5. /\ Compatible' /\ Holds(o)'
          /\ \A p : Holds(p) => Holds(p)'
          /\ \A l \in locks' : l \in locks \/ l.owner = o
      BY <1>2, <2>1, <2>2, Acquired
    <2>6. ASSUME NEW l \in locks'
          PROVE  LockOK(l)'
      <3>1. CASE l \in locks
        <4>1. l.owner[2] = 0 => l.owner[1] \in Commands
          BY <1>1, <3>1, OwnerKinds
        <4> QED BY <1>2, <1>4, <2>1, <2>4, <3>1, <4>1, LockKept
      <3>2. CASE l.owner = o
        BY <2>1, <2>2, <2>4, <3>2 DEF LockOK
      <3> QED BY <2>5, <3>1, <3>2
    <2>7. \A a \in Attempts : Live(a)' => Holds(a)'
      BY <1>6, <2>3, <2>5
    <2>8. \A d \in Commands : CliOK(d)'
      BY <1>2, <2>1, <2>2, <2>4, <2>5 DEF CliOK
    <2> QED BY <2>5, <2>6, <2>7, <2>8
  <1>12. ASSUME NEW c \in Commands, CliRelease(c) \/ CliDie(c)
         PROVE  /\ \A l \in locks' : LockOK(l)'
                /\ \A a \in Attempts : Live(a)' => Holds(a)'
                /\ \A d \in Commands : CliOK(d)'
                /\ Compatible'
    <2> DEFINE o == <<c, 0>>
    <2>1. ~\E j \in Requests : Claim(j)
      BY <1>12 DEF CliRelease, CliDie, daemon, Claim
    <2>2. CASE Release(o) /\ cli' = [cli EXCEPT ![c] = "released"]
      <3>1. /\ locks' = { l \in locks : l.owner \notin {o} }
            /\ finished' = finished \cup {o}
            /\ \A d \in Commands : cli'[d] = IF d = c THEN "released" ELSE cli[d]
        BY <1>1, <2>2 DEF Release, TypeOK
      <3>2. \A a \in Attempts : a # o
        BY <1>1, OwnerKinds
      <3>3. \A d \in Commands : <<d, 0>> = o <=> d = c
        OBVIOUS
      <3>4. \A p : p[2] = 0 /\ p = <<p[1], 0>> /\ p # o => p[1] # c
        OBVIOUS
      <3> HIDE DEF o
      <3>5. /\ Compatible' /\ locks' \subseteq locks
            /\ \A p : Holds(p) /\ p \notin {o} => Holds(p)'
            /\ \A l \in locks' : l.owner \notin {o}
        BY <1>2, <3>1, Released
      <3>6. ASSUME NEW l \in locks'
            PROVE  LockOK(l)'
        <4>1. /\ l \in locks /\ l.owner # o /\ l.owner \notin finished'
              /\ l.owner[2] = 0 => l.owner[1] \in Commands /\ l.owner[1] # c
          BY <1>1, <1>4, <3>1, <3>4, <3>5, OwnerKinds
        <4> QED BY <1>2, <1>4, <3>1, <4>1, LockKept
      <3>7. \A a \in Attempts : Live(a)' => Holds(a)'
        BY <1>6, <2>1, <3>2, <3>5
      <3>8. \A d \in Commands : CliOK(d)'
        BY <1>2, <3>1, <3>3, <3>5 DEF CliOK
      <3> QED BY <3>5, <3>6, <3>7, <3>8
    <2>3. CASE /\ UNCHANGED <<locks, finished>> /\ cli[c] = "holding"
               /\ \E s \in {"pending", "dead"} : cli' = [cli EXCEPT ![c] = s]
      <3>1. /\ cli'[c] \in {"pending", "dead"}
            /\ \A d \in Commands : d # c => cli'[d] = cli[d]
        BY <1>1, <2>3 DEF TypeOK
      <3>2. ASSUME NEW l \in locks
            PROVE  LockOK(l)'
        <4>1. l.owner[2] = 0 => l.owner[1] \in Commands
          BY <1>1, OwnerKinds
        <4> QED BY <1>2, <1>4, <2>3, <3>1, <4>1, LockKept
      <3>3. \A a \in Attempts : Live(a)' => Holds(a)'
        BY <1>6, <2>1, <2>3 DEF Holds
      <3>4. \A d \in Commands : CliOK(d)'
        BY <1>2, <2>3, <3>1 DEF CliOK, Holds
      <3> QED BY <1>2, <2>3, <3>2, <3>3, <3>4 DEF Compatible
    <2> QED BY <1>12, <2>2, <2>3 DEF CliRelease, CliDie, tables
  <1> QED BY <1>5, <1>7, <1>8, <1>9, <1>10, <1>11, <1>12, LockEffects

\* The locks hold initially.
LEMMA LockInit ==
    ASSUME Init
    PROVE  LockInv
  <1>1. /\ status = [j \in Requests |-> "none"] /\ locks = {} /\ finished = {}
        /\ cli = [c \in Commands |-> "idle"]
    BY DEF Init
  <1>2. \A a \in Attempts : ~Live(a)
    BY <1>1 DEF Live, Active, Attempts
  <1> QED BY <1>1, <1>2 DEF LockInv, NoLeakedLocks

\* The lock invariant holds always.
LEMMA Locked == Spec => []LockInv
  <1>1. Init => LeftInv
    BY DEF Init, LeftInv
  <1> QED BY <1>1, LockInit, LeftStep, LockStep, Based, PTL DEF Spec

\* No lock outlives the attempt or the command it was taken for, whatever crashes
\* or is put back: finalize and release free all of an owner's locks in the
\* transaction that marks it finished.
THEOREM NothingLeaks == Spec => []NoLeakedLocks
  <1>1. LockInv => NoLeakedLocks
    BY DEF LockInv
  <1> QED BY <1>1, Locked, PTL

-----------------------------------------------------------------------------
(***************************************************************************)
(* Who runs business code.  An orphan, a local command whose owner was     *)
(* killed between the check of its wrapper and its commit, may run on; all *)
(* other code runs for an owner that is not finished.                      *)
(***************************************************************************)

\* The steps that begin or end containers and local commands.
ExecSame == UNCHANGED <<container, child>>

\* Which steps touch containers and local commands.
LEMMA ExecEffects ==
    ASSUME [Next]_vars
    PROVE  \/ ExecSame
           \/ \E row \in snap : StopConfirmed(row) \/ StopUnconfirmed(row)
           \/ \E o \in Owners : Executes(o)
           \/ \E c \in Commands : CliRelease(c) \/ StandaloneStop(c)
  <1>1. ASSUME Clients \/ Boot
        PROVE  ExecSame
    BY <1>1 DEF Clients, SubmitLookup, SubmitAdmit, SubmitReturn, Cancel, Delete, Drain,
                Start, Portal, Boot, procs, ExecSame
  <1>2. ASSUME NEW row \in snap, ScanStarting(row) \/ ScanRunning(row) \/ ScanOver(row)
        PROVE  ExecSame
    BY <1>2 DEF ScanStarting, ScanRunning, ScanOver, procs, ExecSame
  <1>3. ASSUME NEW j \in Requests, Claim(j) \/ NotifySend(j)
        PROVE  ExecSame
    BY <1>3 DEF Claim, NotifySend, procs, ExecSame
  <1>4. ASSUME Tick \/ Unconfirmed \/ Finalize \/ StandaloneRelease \/ StandaloneEnd
               \/ ClaimNone \/ Launch \/ Identify \/ StartFailed \/ NotifyMark \/ LoopEnd
               \/ Exit \/ Crash
        PROVE  ExecSame
    BY <1>4 DEF Tick, Unconfirmed, Finalize, StandaloneRelease, StandaloneEnd, ClaimNone,
                Launch, Identify, StartFailed, NotifyMark, LoopEnd, Exit, Crash, procs,
                ExecSame
  <1>5. ASSUME NEW a \in Attempts,
               \/ Register(a) \/ WorkerFinish(a) \/ WorkerCommit(a) \/ WorkerExit(a)
               \/ WorkerDie(a) \/ Age(a)
        PROVE  ExecSame
    BY <1>5 DEF Register, WorkerFinish, WorkerCommit, WorkerExit, WorkerDie, Age, procs,
                ExecSame
  <1>6. ASSUME NEW c \in Commands, CliHold(c) \/ CliDie(c)
        PROVE  ExecSame
    BY <1>6 DEF CliHold, CliDie, ExecSame
  <1>7. CASE UNCHANGED vars
    BY <1>7 DEF vars, procs, ExecSame
  <1> QED BY <1>1, <1>2, <1>3, <1>4, <1>5, <1>6, <1>7
          DEF Next, Loop, Standalone, Processes, Executions, Executes, Foreground, Clock

\* A container and a local command begin on behalf of an owner in its code.
LEMMA Begins ==
    ASSUME TypeOK, [Next]_vars, NEW o \in Owners
    PROVE  /\ o \in container' => o \in container \/ ContainerStart(o)
           /\ child'[o] = "running" => child[o] = "running" \/ (ChildRun(o) /\ Executing(o))
  <1>1. child \in [Owners -> {"none", "checked", "ended"} \cup Commanding]
    BY DEF TypeOK
  <1>2. ASSUME NEW p, child' \in {child, ChildStopped(p)}
        PROVE  child'[o] = "running" => child[o] = "running"
    BY <1>1, <1>2 DEF ChildStopped
  <1>3. CASE ExecSame
    BY <1>3 DEF ExecSame
  <1>4. ASSUME NEW row \in snap, StopConfirmed(row) \/ StopUnconfirmed(row)
        PROVE  /\ o \in container' => o \in container
               /\ child'[o] = "running" => child[o] = "running"
    <2> DEFINE a == <<row.job, row.n>>
    <2>1. container' \subseteq container /\ child' \in {child, ChildStopped(a)}
      BY <1>4 DEF StopConfirmed, StopUnconfirmed, StopPartly
    <2> QED BY <1>2, <2>1
  <1>5. ASSUME NEW c \in Commands, CliRelease(c) \/ StandaloneStop(c)
        PROVE  /\ o \in container' => o \in container
               /\ child'[o] = "running" => child[o] = "running"
    <2>1. container' \subseteq container /\ child' \in {child, ChildStopped(<<c, 0>>)}
      BY <1>5 DEF CliRelease, StandaloneStop
    <2> QED BY <1>2, <2>1
  <1>6. ASSUME NEW p \in Owners, ContainerStart(p) \/ ContainerEnd(p)
        PROVE  /\ o \in container' => o \in container \/ ContainerStart(o)
               /\ child'[o] = child[o]
    BY <1>6 DEF ContainerStart, ContainerEnd
  <1>7. ASSUME NEW p \in Owners, ChildCheck(p) \/ ChildEnd(p)
        PROVE  /\ container' = container
               /\ child'[o] = "running" => child[o] = "running"
    BY <1>1, <1>7 DEF ChildCheck, ChildEnd
  <1>8. ASSUME NEW p \in Owners, ChildRun(p)
        PROVE  /\ container' = container
               /\ child'[o] = "running" =>
                      child[o] = "running" \/ (ChildRun(o) /\ Executing(o))
    <2>1. /\ child' = [child EXCEPT ![p] = IF Executing(p) THEN "running" ELSE "orphan"]
          /\ container' = container
      BY <1>8 DEF ChildRun
    <2>2. CASE o = p
      BY <1>1, <1>8, <2>1, <2>2
    <2>3. CASE o # p
      BY <1>1, <2>1, <2>3
    <2> QED BY <2>2, <2>3
  <1> QED BY <1>3, <1>4, <1>5, <1>6, <1>7, <1>8, ExecEffects DEF Executes

\* The local command of a worker runs for a live attempt.
LEMMA ChildStep ==
    ASSUME BaseInv, RunInv, [Next]_vars, NEW a \in Attempts, child'[a] = "running"
    PROVE  Live(a)' /\ ~(dpc' = "final" /\ a = <<cur'.job, cur'.n>>)
  <1>1. TypeOK /\ ProcInv /\ StopInv /\ a \in Owners /\ a[2] # 0
    BY DEF BaseInv, TypeInv, Owners, Attempts, Numbers
  <1>2. CASE ChildRun(a) /\ Executing(a)
    <2>1. proc[a] = "executing"
      BY <1>1, <1>2 DEF Executing
    <2>2. Live(a) /\ ~(dpc = "final" /\ a = <<cur.job, cur.n>>)
      BY <1>1, <2>1 DEF ProcInv, StopInv, Idle, Stopping
    <2>3. UNCHANGED <<status, attempt, dpc, cur>>
      BY <1>2 DEF ChildRun, jobs, daemon
    <2> QED BY <2>2, <2>3 DEF Live
  <1>3. CASE child[a] = "running"
    <2>1. Live(a) /\ ~(dpc = "final" /\ a = <<cur.job, cur.n>>)
      BY <1>3 DEF RunInv
    <2>2. Live(a)'
      <3>1. a \in finished' => a \in finished
        BY <2>1, Finishes DEF Finalize
      <3>2. a \notin finished
        BY <2>1 DEF BaseInv, AttemptInv, Live, Mine, Attempts
      <3> QED BY <2>1, <3>1, <3>2, Forward DEF Onward
    <2>3. CASE DaemonSame
      BY <2>1, <2>2, <2>3 DEF DaemonSame
    <2>4. ASSUME NEW row \in snap, StopConfirmed(row)
          PROVE  a # <<cur'.job, cur'.n>>
      <3>1. /\ child' = ChildStopped(<<row.job, row.n>>)
            /\ cur'.job = row.job /\ cur'.n = row.n
        BY <2>4 DEF StopConfirmed, Verdict
      <3>2. a # <<row.job, row.n>>
        BY <1>1, <1>3, <3>1 DEF ChildStopped, TypeOK
      <3> QED BY <3>1, <3>2
    <2>5. ASSUME \/ \E row \in snap : StopUnconfirmed(row)
                 \/ \E c \in Commands : StandaloneStop(c)
                 \/ (\E j \in Requests : Claim(j)) \/ Launch
          PROVE  dpc' # "final"
      BY <2>5 DEF StopUnconfirmed, StandaloneStop, Claim, Launch
    <2> QED BY <2>2, <2>3, <2>4, <2>5, DaemonEffects DEF Stopping
  <1> QED BY <1>1, <1>2, <1>3, Begins

\* What a foreground command has begun runs while the command is not released.
LEMMA CommandStep ==
    ASSUME BaseInv, LeftInv, LockInv, RunInv, [Next]_vars, NEW c \in Commands,
           <<c, 0>> \in container' \/ child'[<<c, 0>>] = "running"
    PROVE  /\ cli'[c] \in {"holding", "pending", "dead"} /\ <<c, 0>> \notin finished'
           /\ ~(dpc' = "release" /\ c = cur'.job)
  <1> DEFINE o == <<c, 0>>
  <1>1. TypeOK /\ MoreTypes /\ o \in Owners /\ o[1] = c /\ o[2] = 0 /\ o \notin Attempts
    BY DEF BaseInv, TypeInv, Owners, Attempts, Numbers
  <1>2. /\ cli[c] \in {"holding", "pending", "dead"} /\ o \notin finished
        /\ ~(dpc = "release" /\ c = cur.job)
    <2>1. CASE ContainerStart(o) \/ (ChildRun(o) /\ Executing(o))
      <3>1. cli[c] = "holding"
        BY <1>1, <2>1 DEF ContainerStart, Executing
      <3> QED BY <3>1 DEF LockInv, LeftInv, Left
    <2>2. CASE o \in container \/ child[o] = "running"
      BY <2>2 DEF RunInv
    <2> QED BY <1>1, <2>1, <2>2, Begins
  <1>3. \A d \in Commands : <<d, 0>> = o <=> d = c
    OBVIOUS
  <1>4. ASSUME NEW d \in Commands, CliHold(d) \/ CliRelease(d) \/ CliDie(d)
        PROVE  /\ cli'[c] \in {"holding", "pending", "dead"} /\ o \notin finished'
               /\ UNCHANGED <<dpc, cur>>
    <2>1. UNCHANGED <<dpc, cur>>
      BY <1>4 DEF CliHold, CliRelease, CliDie, daemon
    <2>2. CASE d # c
      <3>1. /\ \E s : cli' = [cli EXCEPT ![d] = s]
            /\ finished' \subseteq finished \cup {<<d, 0>>}
        BY <1>4 DEF CliHold, CliRelease, CliDie, Release, tables
      <3>2. cli'[c] = cli[c]
        BY <1>1, <2>2, <3>1 DEF TypeOK
      <3> QED BY <1>2, <1>3, <2>1, <2>2, <3>1, <3>2
    <2>3. CASE d = c
      <3>1. \/ /\ finished' = finished
               /\ \E s \in {"holding", "pending", "dead"} : cli' = [cli EXCEPT ![c] = s]
            \/ container' = container \ {o} /\ child' = child
                  /\ child[o] \in {"none", "ended"}
        BY <1>4, <2>3 DEF CliHold, CliRelease, CliDie, tables
      <3>2. finished' = finished
               /\ \E s \in {"holding", "pending", "dead"} : cli' = [cli EXCEPT ![c] = s]
        BY <3>1
      <3> QED BY <1>1, <1>2, <2>1, <3>2 DEF TypeOK
    <2> QED BY <2>2, <2>3
  <1>5. CASE Finalize
    <2>1. /\ cli' = cli /\ dpc' = "scan"
          /\ finished' \subseteq finished \cup {<<cur.job, cur.n>>}
      BY <1>5 DEF Finalize, Release, procs
    <2>2. <<cur.job, cur.n>> \in Attempts
      BY <1>1, <1>5 DEF Finalize, MoreTypes, Stopping, Claims, Attempts
    <2> QED BY <1>1, <1>2, <2>1, <2>2
  <1>6. CASE StandaloneRelease
    <2>1. /\ cli' = cli /\ dpc = "release" /\ dpc' = "scan"
          /\ finished' = finished \cup {<<cur.job, 0>>}
      BY <1>6 DEF StandaloneRelease, Release, procs
    <2>2. o # <<cur.job, 0>>
      BY <1>2, <2>1
    <2> QED BY <1>2, <2>1, <2>2
  <1>7. ASSUME NEW j \in Requests, Claim(j)
        PROVE  UNCHANGED <<cli, finished>> /\ dpc' = "launch"
    BY <1>7 DEF Claim, procs
  <1>8. CASE LocksSame
    <2>1. cli' = cli /\ finished' = finished
      BY <1>8 DEF LocksSame
    <2>2. CASE DaemonSame
      BY <1>2, <2>1, <2>2 DEF DaemonSame
    <2>3. ASSUME NEW d \in Commands, StandaloneStop(d)
          PROVE  c # cur'.job
      <3>1. /\ cur'.job = d /\ container' = container \ {<<d, 0>>}
            /\ child' = ChildStopped(<<d, 0>>)
        BY <2>3 DEF StandaloneStop, NoRow
      <3>2. c = d => o \notin container' /\ child'[o] # "running"
        BY <1>1, <3>1 DEF ChildStopped, TypeOK
      <3> QED BY <3>1, <3>2
    <2>4. ASSUME \/ \E row \in snap : StopConfirmed(row) \/ StopUnconfirmed(row)
                 \/ (\E j \in Requests : Claim(j)) \/ Launch
          PROVE  dpc' # "release"
      BY <2>4 DEF StopConfirmed, StopUnconfirmed, Claim, Launch
    <2> QED BY <1>2, <2>1, <2>2, <2>3, <2>4, DaemonEffects
  <1> QED BY <1>2, <1>4, <1>5, <1>6, <1>7, <1>8, LockEffects

\* RunInv holds always.
LEMMA Running == Spec => []RunInv
  <1>1. Init => RunInv
    BY DEF Init, RunInv, Owners
  <1>2. BaseInv /\ LeftInv /\ LockInv /\ RunInv /\ [Next]_vars => RunInv'
    BY ChildStep, CommandStep DEF RunInv
  <1>3. Init => LeftInv
    BY DEF Init, LeftInv
  <1> QED BY <1>1, <1>2, <1>3, LeftStep, Locked, Based, PTL DEF Spec

\* Business code that is no orphan's runs for live attempts only.
LEMMA BusinessLive ==
    ASSUME BaseInv, RunInv, NEW a \in Attempts, Known(a)
    PROVE  Live(a)
  <1>1. a[2] # 0
    BY DEF Attempts, Numbers
  <1>2. CASE proc[a] = "executing" \/ a \in container
    BY <1>2 DEF BaseInv, ProcInv, Idle
  <1>3. CASE child[a] = "running"
    BY <1>3 DEF RunInv
  <1> QED BY <1>1, <1>2, <1>3 DEF Known, Executing

\* No two owners run with conflicting needs, for every set of jobs and commands,
\* whatever crashes, in process, container or local command: who runs holds all its
\* locks, the locks are compatible, and they are freed only after a confirmed stop.
\* Only a local command whose owner was killed between the check of its wrapper and
\* its commit is excepted.
THEOREM AccessExclusive == Spec => []ExclusiveAccess
  <1>1. BaseInv /\ RunInv /\ LockInv => ExclusiveAccess
    <2> SUFFICES ASSUME BaseInv, RunInv, LockInv,
                        NEW o \in Owners, NEW p \in Owners, o # p, Known(o), Known(p),
                        NEW d \in Needs[o[1]], NEW e \in Needs[p[1]], d[1] = e[1]
                 PROVE  d[2] = "read" /\ e[2] = "read"
      BY DEF ExclusiveAccess
    <2>1. ASSUME NEW q \in Owners, Known(q)
          PROVE  Holds(q)
      <3>1. TypeOK
        BY DEF BaseInv, TypeInv
      <3>2. CASE q[2] = 0
        <4>1. q[1] \in Commands /\ q = <<q[1], 0>>
          BY <3>1, <3>2, OwnerKinds
        <4>2. cli[q[1]] = "holding" \/ q \in container \/ child[q] = "running"
          BY <2>1, <3>2 DEF Known, Executing
        <4>3. cli[q[1]] \in {"holding", "pending", "dead"} /\ <<q[1], 0>> \notin finished
          BY <4>1, <4>2 DEF RunInv, LockInv
        <4>4. Holds(<<q[1], 0>>)
          BY <4>1, <4>3 DEF LockInv
        <4> QED BY <4>1, <4>4
      <3>3. CASE q[2] # 0
        <4>1. q \in Attempts
          BY <3>1, <3>3, OwnerKinds
        <4> QED BY <2>1, <4>1, BusinessLive DEF LockInv
      <3> QED BY <3>2, <3>3
    <2> DEFINE l == [res |-> d[1], owner |-> o, mode |-> d[2]]
               k == [res |-> e[1], owner |-> p, mode |-> e[2]]
    <2>2. l \in locks /\ k \in locks
      BY <2>1 DEF Holds
    <2>3. l.res = k.res /\ l.owner # k.owner /\ l.mode = d[2] /\ k.mode = e[2]
      OBVIOUS
    <2> HIDE DEF l, k
    <2> QED BY <2>2, <2>3 DEF LockInv
  <1> QED BY <1>1, Based, Locked, Running, PTL

-----------------------------------------------------------------------------
\* Claims are counted against the capacity in the transaction that makes them.
LEMMA CapacityStep ==
    ASSUME BaseInv, CapacityInv, [Next]_vars
    PROVE  CapacityInv'
  <1>1. TypeOK /\ Capacity \in Nat
    BY RuntimeAssumption DEF BaseInv, TypeInv
  <1>2. CASE ActiveJobs' \subseteq ActiveJobs
    <2>1. IsFiniteSet(ActiveJobs') /\ Cardinality(ActiveJobs') <= Cardinality(ActiveJobs)
      BY <1>2, FS_Subset DEF CapacityInv
    <2>2. Cardinality(ActiveJobs) \in Nat /\ Cardinality(ActiveJobs') \in Nat
      BY <2>1, FS_CardinalityType DEF CapacityInv
    <2> QED BY <1>1, <2>1, <2>2 DEF CapacityInv
  <1>3. ASSUME NEW j \in Requests, Claim(j)
        PROVE  CapacityInv'
    <2>1. ~Busy /\ status' = [status EXCEPT ![j] = "starting"]
      BY <1>3 DEF Claim, Claimable
    <2>2. ActiveJobs' = ActiveJobs \cup {j}
      BY <1>1, <2>1 DEF ActiveJobs, TypeOK, Active
    <2>3. /\ Cardinality(ActiveJobs) \in Nat /\ IsFiniteSet(ActiveJobs')
          /\ \/ Cardinality(ActiveJobs') = Cardinality(ActiveJobs)
             \/ Cardinality(ActiveJobs') = Cardinality(ActiveJobs) + 1
      BY <2>2, FS_CardinalityType, FS_AddElement DEF CapacityInv
    <2>4. ~(Cardinality(ActiveJobs) >= Capacity)
      BY <2>1 DEF Busy, ActiveJobs
    <2>5. Cardinality(ActiveJobs') <= Capacity
      BY <1>1, <2>3, <2>4
    <2> QED BY <2>3, <2>5 DEF CapacityInv
  <1>4. CASE JobsSame
    BY <1>2, <1>4 DEF JobsSame, ActiveJobs
  <1>5. ASSUME NEW j \in Requests, JobSubmitted(j) \/ JobCancelled(j)
        PROVE  ActiveJobs' \subseteq ActiveJobs
    BY <1>1, <1>5 DEF JobSubmitted, JobCancelled, ActiveJobs, Active, TypeOK
  <1>6. ASSUME NEW j \in Requests, JobStopped(j)
        PROVE  ActiveJobs' \subseteq ActiveJobs
    BY <1>1, <1>6 DEF JobStopped, ActiveJobs, TypeOK
  <1>7. ASSUME NEW a \in Attempts, JobRegistered(a)
        PROVE  ActiveJobs' \subseteq ActiveJobs
    BY <1>1, <1>7 DEF JobRegistered, ActiveJobs, Active, TypeOK
  <1>8. ASSUME SettlesCur
        PROVE  ActiveJobs' \subseteq ActiveJobs
    BY <1>1, <1>8 DEF SettlesCur, JobSettled, ActiveJobs, Active, Finals, TypeOK
  <1>9. ASSUME dpc = "dispatch", dpc' = "launch"
        PROVE  \E j \in Requests : Claim(j)
    BY <1>9, DaemonEffects DEF DaemonSame, StopConfirmed, StopUnconfirmed, StopPartly,
                       StandaloneStop, Launch, Starting
  <1> QED BY <1>2, <1>3, <1>4, <1>5, <1>6, <1>7, <1>8, <1>9, JobEffects

\* The capacity is kept.
LEMMA Capped == Spec => []CapacityInv
  <1>1. Init => CapacityInv
    <2>1. Init => ActiveJobs = {}
      BY DEF Init, ActiveJobs, Active
    <2>2. IsFiniteSet({}) /\ Cardinality({}) = 0 /\ 0 <= Capacity
      BY FS_EmptySet, RuntimeAssumption
    <2> QED BY <2>1, <2>2 DEF CapacityInv
  <1>2. BaseInv /\ CapacityInv /\ [Next]_vars => CapacityInv'
    BY CapacityStep
  <1> QED BY <1>1, <1>2, Based, PTL DEF Spec

\* Never more attempts run code than the capacity, for every capacity: every one
\* that runs belongs to an active job, and claim counts the active jobs.  Orphans
\* are not counted.
THEOREM CapacityKept == Spec => []CapacityRespected
  <1>1. BaseInv /\ RunInv /\ CapacityInv => CapacityRespected
    <2> SUFFICES ASSUME BaseInv, RunInv, CapacityInv
                 PROVE  Cardinality({ a \in Attempts : Known(a) }) <= Capacity
      BY DEF CapacityRespected
    <2> DEFINE B == { a \in Attempts : Known(a) }
               f == [a \in B |-> a[1]]
    <2>1. \A a \in B : a[1] \in ActiveJobs /\ a = Mine(a[1])
      <3> SUFFICES ASSUME NEW a \in Attempts, Known(a)
                   PROVE  a[1] \in ActiveJobs /\ a = Mine(a[1])
        OBVIOUS
      <3>1. Live(a) /\ a[1] \in Requests /\ a = <<a[1], a[2]>>
        BY BusinessLive DEF Attempts
      <3> QED BY <3>1 DEF Live, ActiveJobs, Mine
    <2> HIDE DEF B
    <2>2. f \in Injection(B, ActiveJobs)
      <3>1. f \in [B -> ActiveJobs]
        BY <2>1
      <3>2. \A a, b \in B : f[a] = f[b] => a = b
        BY <2>1
      <3> QED BY <3>1, <3>2 DEF Injection, IsInjective
    <2>3. IsFiniteSet(B) /\ Cardinality(B) <= Cardinality(ActiveJobs)
      BY <2>2, FS_Injection DEF CapacityInv
    <2>4. Cardinality(B) \in Nat /\ Cardinality(ActiveJobs) \in Nat /\ Capacity \in Nat
      BY <2>3, FS_CardinalityType, RuntimeAssumption DEF CapacityInv
    <2>5. Cardinality(B) <= Capacity
      BY <2>3, <2>4 DEF CapacityInv
    <2> QED BY <2>5 DEF B
  <1> QED BY <1>1, Based, Capped, Running, PTL

-----------------------------------------------------------------------------
\* The jobs that wait or are active grow by submissions only, and those are counted.
LEMMA LoadStep ==
    ASSUME BaseInv, CapacityInv, LoadInv, [Next]_vars
    PROVE  LoadInv'
  <1>1. TypeOK /\ Capacity \in Nat /\ MaxQueued \in Nat
    BY RuntimeAssumption DEF BaseInv, TypeInv
  <1>2. ASSUME Load' \subseteq Load
        PROVE  LoadInv'
    <2>1. IsFiniteSet(Load') /\ Cardinality(Load') <= Cardinality(Load)
      BY <1>2, FS_Subset DEF LoadInv
    <2>2. Cardinality(Load) \in Nat /\ Cardinality(Load') \in Nat
      BY <2>1, FS_CardinalityType DEF LoadInv
    <2>3. Cardinality(Load') <= MaxQueued + Capacity
      BY <1>1, <2>1, <2>2 DEF LoadInv, LoadBounded
    <2> QED BY <2>1, <2>3 DEF LoadInv, LoadBounded
  <1>3. ASSUME NEW q \in Requests, JobSubmitted(q)
        PROVE  LoadInv'
    <2>1. /\ Load' = Load \cup {q} /\ Load = Queued \cup ActiveJobs
          /\ Cardinality(Queued) < MaxQueued
      BY <1>1, <1>3 DEF JobSubmitted, Load, Queued, ActiveJobs, Active, TypeOK
    <2>2. IsFiniteSet(Queued) /\ IsFiniteSet(Load)
      BY <2>1, FS_Subset DEF LoadInv
    <2>3. /\ Cardinality(Load) =
                Cardinality(Queued) + Cardinality(ActiveJobs)
                    - Cardinality(Queued \cap ActiveJobs)
          /\ IsFiniteSet(Queued \cap ActiveJobs)
      BY <2>1, <2>2, FS_Union, FS_Intersection DEF CapacityInv
    <2>4. /\ IsFiniteSet(Load')
          /\ \/ Cardinality(Load') = Cardinality(Load)
             \/ Cardinality(Load') = Cardinality(Load) + 1
      BY <2>1, <2>2, FS_AddElement
    <2>5. /\ Cardinality(Queued) \in Nat /\ Cardinality(ActiveJobs) \in Nat
          /\ Cardinality(Queued \cap ActiveJobs) \in Nat /\ Cardinality(Load) \in Nat
      BY <2>2, <2>3, FS_CardinalityType DEF CapacityInv
    <2>6. Cardinality(Load') <= MaxQueued + Capacity
      BY <1>1, <2>1, <2>3, <2>4, <2>5 DEF CapacityInv
    <2> QED BY <2>4, <2>6 DEF LoadInv, LoadBounded
  <1>4. CASE JobsSame
    BY <1>2, <1>4 DEF JobsSame, Load
  <1>5. ASSUME NEW j \in Requests, JobCancelled(j) \/ JobStopped(j) \/ JobClaimed(j)
        PROVE  Load' \subseteq Load
    BY <1>1, <1>5 DEF JobCancelled, JobStopped, JobClaimed, Load, Active, TypeOK
  <1>6. ASSUME NEW a \in Attempts, JobRegistered(a)
        PROVE  Load' \subseteq Load
    BY <1>1, <1>6 DEF JobRegistered, Load, Active, TypeOK
  <1>7. ASSUME SettlesCur
        PROVE  Load' \subseteq Load
    BY <1>1, <1>7 DEF SettlesCur, JobSettled, Load, Active, Finals, TypeOK
  <1> QED BY <1>2, <1>3, <1>4, <1>5, <1>6, <1>7, JobEffects

\* Never more jobs wait or are active than the two bounds allow together, for all
\* bounds: submissions that race for the last place do not both get it, and a start
\* that is put back without a test of the queue had its place among the active.
THEOREM LoadKept == Spec => []LoadBounded
  <1>1. Init => LoadInv
    <2>1. Init => Load = {}
      BY DEF Init, Load, Active
    <2>2. IsFiniteSet({}) /\ Cardinality({}) = 0 /\ 0 <= MaxQueued + Capacity
      BY FS_EmptySet, RuntimeAssumption
    <2> QED BY <2>1, <2>2 DEF LoadInv, LoadBounded
  <1>2. BaseInv /\ CapacityInv /\ LoadInv /\ [Next]_vars => LoadInv'
    BY LoadStep
  <1>3. LoadInv => LoadBounded
    BY DEF LoadInv
  <1> QED BY <1>1, <1>2, <1>3, Capped, Based, PTL DEF Spec

-----------------------------------------------------------------------------
\* finalize publishes a result exactly when it settles the job as succeeded.
LEMMA PublishedStep ==
    ASSUME BaseInv, PublishedInv, [Next]_vars
    PROVE  PublishedInv'
  <1>1. TypeOK
    BY DEF BaseInv, TypeInv
  <1>2. CASE Finalize /\ Finalizable(cur)
    <2>1. /\ cur.job \in Requests /\ cur.n = attempt[cur.job]
          /\ Settled(cur) \in Finals
          /\ JobSettled(cur.job, Settled(cur))
      BY <1>2, FinalizeJobs
    <2>2. /\ published' = IF status[cur.job] # "cancelling" /\ cur.completion = "succeeded"
                          THEN published \cup {cur.job} ELSE published
          /\ cur.completion = "succeeded" <=> cur.final = "succeeded"
      BY <1>2 DEF Finalize, BaseInv, StopInv, Stopping
    <2>3. \A i \in Requests : status'[i] = IF i = cur.job THEN Settled(cur) ELSE status[i]
      BY <1>1, <2>1 DEF JobSettled, TypeOK
    <2>4. Settled(cur) = "succeeded" <=>
              status[cur.job] # "cancelling" /\ cur.final = "succeeded"
      BY <1>1, <2>1 DEF Settled, TypeOK
    <2>5. cur.job \notin published
      BY <2>1 DEF PublishedInv, JobSettled
    <2> QED BY <2>1, <2>2, <2>3, <2>4, <2>5 DEF PublishedInv
  <1>3. CASE ~(Finalize /\ Finalizable(cur))
    <2>1. published' = published
      <3>1. ASSUME Clients \/ Boot \/ Crash
            PROVE  published' = published
        BY <3>1 DEF Clients, SubmitLookup, SubmitAdmit, SubmitReturn, Cancel, Delete, Drain,
                    Start, Portal, Boot, Crash, jobs
      <3>2. ASSUME NEW row \in snap,
                   \/ ScanStarting(row) \/ ScanRunning(row) \/ ScanOver(row)
                   \/ StopConfirmed(row) \/ StopUnconfirmed(row)
            PROVE  published' = published
        BY <3>2 DEF ScanStarting, ScanRunning, ScanOver, StopConfirmed, StopUnconfirmed, StopPartly, jobs
      <3>3. ASSUME Tick \/ Unconfirmed \/ Standalone \/ ClaimNone \/ Launch
                   \/ Identify \/ StartFailed \/ NotifyMark \/ LoopEnd \/ Exit
            PROVE  published' = published
        BY <3>3 DEF Tick, Unconfirmed, Standalone, StandaloneStop,
                StandaloneRelease, StandaloneEnd, ClaimNone, Launch, Identify,
                    StartFailed, NotifyMark, LoopEnd, Exit, jobs
      <3>4. ASSUME NEW j \in Requests, Claim(j) \/ NotifySend(j)
            PROVE  published' = published
        BY <3>4 DEF Claim, NotifySend, jobs
      <3>5. ASSUME NEW a \in Attempts,
                   \/ Register(a) \/ WorkerFinish(a) \/ WorkerCommit(a) \/ WorkerExit(a)
                   \/ WorkerDie(a) \/ Age(a)
            PROVE  published' = published
        BY <3>5 DEF Register, WorkerFinish, WorkerCommit, WorkerExit, WorkerDie, Age, jobs
      <3>9. ASSUME NEW o \in Owners, Executes(o)
            PROVE  published' = published
        BY <3>9 DEF Executes, ContainerStart, ContainerEnd, ChildCheck, ChildRun, ChildEnd,
                    jobs
      <3>6. ASSUME NEW c \in Commands, CliHold(c) \/ CliRelease(c) \/ CliDie(c)
            PROVE  published' = published
        BY <3>6 DEF CliHold, CliRelease, CliDie, jobs
      <3>7. CASE Finalize
        BY <1>3, <3>7 DEF Finalize
      <3>8. CASE UNCHANGED vars
        BY <3>8 DEF vars, jobs
      <3> QED BY <3>1, <3>2, <3>3, <3>4, <3>5, <3>6, <3>7, <3>8, <3>9
              DEF Next, Loop, Processes, Executions, Executes, Foreground, Clock
    <2>2. ~SettlesCur \/ JobsSame \/ ~Finalize
      BY <1>3 DEF Finalize, JobsSame, SameFinished
    <2>3. ASSUME NEW i \in Requests
          PROVE  status'[i] = "succeeded" => status[i] = "succeeded"
      <3>1. ASSUME NEW j \in Requests,
                   JobSubmitted(j) \/ JobCancelled(j) \/ JobStopped(j) \/ JobClaimed(j)
            PROVE  status'[i] = "succeeded" => status[i] = "succeeded"
        BY <1>1, <3>1 DEF JobSubmitted, JobCancelled, JobStopped, JobClaimed, TypeOK
      <3>2. ASSUME NEW a \in Attempts, JobRegistered(a)
            PROVE  status'[i] = "succeeded" => status[i] = "succeeded"
        BY <1>1, <3>2 DEF JobRegistered, TypeOK
      <3>3. CASE JobsSame
        BY <3>3 DEF JobsSame
      <3> QED BY <2>2, <3>1, <3>2, <3>3, JobEffects
    <2>4. \A i \in Requests : status[i] = "succeeded" => status'[i] = "succeeded"
      BY SettledStays DEF Terminal
    <2> QED BY <2>1, <2>3, <2>4 DEF PublishedInv
  <1> QED BY <1>2, <1>3

\* A settled job runs no code any more, but that of an orphan, and has a published
\* result exactly when it succeeded: it is settled only after its process, its
\* local command and its containers were confirmed gone.
THEOREM SettledQuiet == Spec => []SettledIsQuiet
  <1>1. Init => PublishedInv
    BY DEF Init, PublishedInv
  <1>2. BaseInv /\ PublishedInv /\ [Next]_vars => PublishedInv'
    BY PublishedStep
  <1>3. BaseInv /\ RunInv /\ PublishedInv => SettledIsQuiet
    <2> SUFFICES ASSUME BaseInv, RunInv, PublishedInv, NEW j \in Requests
                 PROVE  /\ status[j] \in Terminal => \A n \in Numbers : ~Known(<<j, n>>)
                        /\ j \in published <=> status[j] = "succeeded"
      BY DEF SettledIsQuiet
    <2>1. ASSUME NEW n \in Numbers, Known(<<j, n>>)
          PROVE  status[j] \notin Terminal
      <3>1. <<j, n>> \in Attempts
        BY DEF Attempts
      <3>2. Live(<<j, n>>)
        BY <2>1, <3>1, BusinessLive
      <3> QED BY <3>2 DEF Live, Active, Terminal
    <2> QED BY <2>1 DEF PublishedInv
  <1> QED BY <1>1, <1>2, <1>3, Based, Running, PTL DEF Spec

-----------------------------------------------------------------------------
(***************************************************************************)
(* The life of a job: every step of the runtime is a step of JobLife or    *)
(* leaves its variables alone.                                             *)
(***************************************************************************)

\* A running job has begun its code, and what the daemon is about to settle as
\* cancelled was stopped.
LifeInv ==
    /\ \A j \in Requests : status[j] = "running" => ran[j] # {}
    /\ dpc \in Stopping /\ cur.final = "cancelled" =>
           <<cur.job, cur.n>> \in finished \/ status[cur.job] = "cancelling"

\* The variables of JobLife.
StageOf(s) == IF s \in {"starting", "running"} THEN "taken" ELSE s
Stage == [j \in Requests |-> StageOf(status[j])]
Runs == [j \in Requests |-> Cardinality(ran[j])]

\* A job becomes running when its worker registers, and code once begun counts.
LEMMA RunningStep ==
    ASSUME BaseInv, LifeInv, [Next]_vars, NEW i \in Requests, status'[i] = "running"
    PROVE  ran'[i] # {}
  <1>1. TypeOK /\ ran \in [Requests -> SUBSET Numbers]
    BY DEF BaseInv, TypeInv, MoreTypes
  <1>2. ran[i] # {} => ran'[i] # {}
    <2>1. ASSUME NEW a \in Attempts, ran' = [ran EXCEPT ![a[1]] = ran[a[1]] \cup {a[2]}]
          PROVE  ran[i] \subseteq ran'[i]
      BY <1>1, <2>1
    <2> QED BY <2>1, RanEffects
  <1>3. CASE JobsSame
    BY <1>2, <1>3 DEF JobsSame, LifeInv
  <1>4. ASSUME NEW j \in Requests,
               JobSubmitted(j) \/ JobCancelled(j) \/ JobStopped(j) \/ JobClaimed(j)
        PROVE  status[i] = "running"
    BY <1>1, <1>4 DEF JobSubmitted, JobCancelled, JobStopped, JobClaimed, TypeOK
  <1>5. ASSUME NEW a \in Attempts, Register(a), JobRegistered(a)
        PROVE  ran'[i] # {}
    <2>1. CASE i # a[1]
      <3>1. status[i] = "running"
        BY <1>1, <1>5, <2>1 DEF JobRegistered, TypeOK
      <3> QED BY <1>2, <3>1 DEF LifeInv
    <2>2. CASE i = a[1]
      <3>1. MayRegister(a)
        BY <1>5 DEF JobRegistered, Live, MayRegister, Current
      <3>2. ran' = [ran EXCEPT ![a[1]] = ran[a[1]] \cup {a[2]}]
        BY <1>5, <3>1 DEF Register
      <3> QED BY <1>1, <2>2, <3>2
    <2> QED BY <2>1, <2>2
  <1>6. CASE SettlesCur
    <2>1. PICK f \in Finals : JobSettled(cur.job, f)
      BY <1>6 DEF SettlesCur
    <2>2. status[i] = "running"
      BY <1>1, <1>6, <2>1 DEF SettlesCur, JobSettled, TypeOK, Finals
    <2> QED BY <1>2, <2>2 DEF LifeInv
  <1> QED BY <1>2, <1>3, <1>4, <1>5, <1>6, JobEffects DEF LifeInv

\* What is in the daemon's hand to be settled as cancelled stays stopped.
LEMMA LifeInvStep ==
    ASSUME BaseInv, LifeInv, [Next]_vars
    PROVE  LifeInv'
  <1>1. TypeOK /\ MoreTypes /\ RowInv
    BY DEF BaseInv, TypeInv
  <1>2. \A i \in Requests : status'[i] = "running" => ran'[i] # {}
    BY RunningStep
  <1>3. ASSUME dpc' \in Stopping, cur'.final = "cancelled"
        PROVE  <<cur'.job, cur'.n>> \in finished' \/ status'[cur'.job] = "cancelling"
    <2>1. CASE DaemonSame
      <3>1. dpc' = dpc /\ cur' = cur
        BY <2>1 DEF DaemonSame
      <3>2. cur \in Claims
        BY <1>1, <1>3, <3>1 DEF MoreTypes
      <3> DEFINE a == <<cur.job, cur.n>>
      <3>3. a \in Attempts /\ a[1] = cur.job
        BY <3>2 DEF Claims, Attempts
      <3>4. Onward(a)
        BY <3>3, Forward
      <3>5. a \in finished \/ Live(a)
        BY <1>3, <3>1 DEF BaseInv, StopInv
      <3>6. a \in finished \/ status[cur.job] = "cancelling"
        BY <1>3, <3>1 DEF LifeInv
      <3> QED BY <3>1, <3>3, <3>4, <3>5, <3>6 DEF Onward
    <2>2. ASSUME NEW row \in snap, StopConfirmed(row) \/ StopUnconfirmed(row)
          PROVE  <<cur'.job, cur'.n>> \in finished' \/ status'[cur'.job] = "cancelling"
      <3>1. row \in Rows /\ RowOK(row)
        BY <1>1 DEF MoreTypes, RowInv
      <3>2. cur' = Verdict(row) /\ UNCHANGED <<status, finished>>
        BY <2>2 DEF StopConfirmed, StopUnconfirmed, StopPartly, jobs, tables
      <3>3. row.completion \in Completions
        BY <3>1 DEF Rows
      <3>4. cur'.job = row.job /\ cur'.n = row.n /\ row.status = "cancelling"
        BY <1>3, <3>2, <3>3 DEF Verdict, Completions
      <3> QED BY <3>1, <3>2, <3>4 DEF RowOK
    <2>3. ASSUME \/ (\E j \in Requests : Claim(j)) \/ Launch
                 \/ (\E c \in Commands : StandaloneStop(c))
          PROVE  dpc' \notin Stopping
      BY <2>3 DEF Claim, Launch, StandaloneStop, Stopping
    <2> QED BY <1>3, <2>1, <2>2, <2>3, DaemonEffects
  <1> QED BY <1>2, <1>3 DEF LifeInv

\* The code of a job has been begun never or once.
LEMMA RunsCount ==
    ASSUME RanInv, NEW j \in Requests
    PROVE  Runs[j] = IF ran[j] = {} THEN 0 ELSE 1
  <1>1. CASE ran[j] = {}
    BY <1>1, FS_EmptySet DEF Runs
  <1>2. ASSUME NEW n \in Numbers, ran[j] = {n}
        PROVE  Runs[j] = 1 /\ ran[j] # {}
    BY <1>2, FS_Singleton DEF Runs
  <1> QED BY <1>1, <1>2 DEF RanInv

\* A step that changes the status of one job changes one life.
LEMMA OneLife ==
    ASSUME BaseInv, NEW j \in Requests, NEW s, status' = [status EXCEPT ![j] = s]
    PROVE  Stage[j] = StageOf(status[j]) /\ Stage' = [Stage EXCEPT ![j] = StageOf(s)]
  <1>1. status \in [Requests -> Statuses]
    BY DEF BaseInv, TypeInv, TypeOK
  <1>2. \A i \in Requests : StageOf(status'[i]) = IF i = j THEN StageOf(s) ELSE StageOf(status[i])
    BY <1>1
  <1> QED BY <1>2 DEF Stage

\* Code begins in no other step than the one that makes its job run.
LEMMA RanSame ==
    ASSUME BaseInv, [Next]_vars,
           \A i \in Requests : status[i] = "starting" => status'[i] # "running"
    PROVE  ran' = ran
  <1>1. ASSUME NEW a \in Attempts, Register(a), MayRegister(a)
        PROVE  FALSE
    <2>1. status[a[1]] = "starting" /\ status' = [status EXCEPT ![a[1]] = "running"]
      BY <1>1 DEF Register, MayRegister
    <2>2. a[1] \in Requests /\ status \in [Requests -> Statuses]
      BY DEF Attempts, BaseInv, TypeInv, TypeOK
    <2> QED BY <2>1, <2>2
  <1> QED BY <1>1, RanEffects

\* Results are published with success and not otherwise.
LEMMA ResultsSame ==
    ASSUME BaseInv, BaseInv', PublishedInv, PublishedInv',
           \A i \in Requests : status'[i] = "succeeded" <=> status[i] = "succeeded"
    PROVE  published' = published
  <1>1. published \subseteq Requests /\ published' \subseteq Requests
    BY DEF BaseInv, TypeInv, TypeOK
  <1> QED BY <1>1 DEF PublishedInv

\* Only the sending of a notification tells anybody.
LEMMA ToldSame ==
    ASSUME [Next]_vars, ~(\E j \in Requests : NotifySend(j))
    PROVE  told' = told
  <1>1. ASSUME Finalize \/ NotifyMark \/ \E j \in Requests : Cancel(j)
        PROVE  told' = told
    BY <1>1 DEF Finalize, NotifyMark, Cancel, history
  <1> QED BY <1>1, NoteEffects DEF NotesSame

LifeAll == BaseInv /\ RanInv /\ ToldInv /\ PublishedInv /\ LifeInv

\* The conjuncts of LifeAll, before and after a step.
LEMMA LifeAllStep ==
    ASSUME LifeAll, [Next]_vars
    PROVE  LifeAll'
  BY BaseStep, RanStep, ToldStep, PublishedStep, LifeInvStep DEF LifeAll

\* A notification that is sent is Tell.
LEMMA SendIsTell ==
    ASSUME LifeAll, NEW j \in Requests, NotifySend(j)
    PROVE  Life!Tell(j)
  <1>1. told \in [Requests -> Nat]
    BY DEF LifeAll, BaseInv, TypeInv, MoreTypes
  <1>2. /\ j \in outbox /\ told' = [told EXCEPT ![j] = told[j] + 1]
        /\ UNCHANGED <<status, published, ran>>
    BY DEF NotifySend, jobs
  <1>3. told[j] = 0 /\ status[j] \in Terminal
    BY <1>2 DEF LifeAll, ToldInv
  <1>4. told' = [told EXCEPT ![j] = 1]
    BY <1>2, <1>3
  <1>5. StageOf(status[j]) \in Terminal
    BY <1>3 DEF StageOf, Terminal
  <1> QED BY <1>2, <1>3, <1>4, <1>5 DEF Life!Tell, Life!Outcomes, StageOf, Terminal

\* What a user or the daemon does to a job without settling it from an attempt.
LEMMA MoveIsLife ==
    ASSUME LifeAll, LifeAll', [Next]_vars, told' = told, NEW j \in Requests,
           JobSubmitted(j) \/ JobCancelled(j) \/ JobStopped(j) \/ JobClaimed(j)
    PROVE  Life!Next \/ UNCHANGED Life!vars
  <1>1. BaseInv /\ BaseInv' /\ PublishedInv /\ PublishedInv' /\ TypeOK
    BY DEF LifeAll, BaseInv, TypeInv
  <1>2. PICK s \in {"queued", "cancelled", "cancelling", "starting"} :
            status' = [status EXCEPT ![j] = s]
    BY DEF JobSubmitted, JobCancelled, JobStopped, JobClaimed
  <1>3. status[j] \in {"none", "queued"} \cup Active
    BY DEF JobSubmitted, JobCancelled, JobStopped, JobClaimed
  <1>4. ran' = ran
    BY <1>1, <1>2, RanSame DEF TypeOK
  <1>5. published' = published
    <2>1. \A i \in Requests : status'[i] = "succeeded" <=> status[i] = "succeeded"
      BY <1>1, <1>2, <1>3 DEF TypeOK, Active
    <2> QED BY <1>1, <2>1, ResultsSame
  <1>6. UNCHANGED <<Runs, published, told>>
    BY <1>4, <1>5 DEF Runs
  <1>7. CASE JobSubmitted(j)
    <2>1. Stage[j] = "none" /\ Stage' = [Stage EXCEPT ![j] = "queued"]
      BY <1>1, <1>7, OneLife DEF JobSubmitted, StageOf
    <2>2. Life!Submit(j)
      BY <1>6, <2>1 DEF Life!Submit, Life!Becomes, Stage, StageOf, Runs
    <2> QED BY <2>2 DEF Life!Next
  <1>8. CASE JobCancelled(j)
    <2>1. Stage[j] = "queued" /\ Stage' = [Stage EXCEPT ![j] = "cancelled"]
      BY <1>1, <1>8, OneLife DEF JobCancelled, StageOf
    <2>2. Life!End(j)
      BY <1>6, <2>1 DEF Life!End, Life!Becomes, Stage, StageOf, Runs
    <2> QED BY <2>2 DEF Life!Next
  <1>9. CASE JobClaimed(j)
    <2>1. Stage[j] = "queued" /\ Stage' = [Stage EXCEPT ![j] = "taken"]
      BY <1>1, <1>9, OneLife DEF JobClaimed, StageOf
    <2>2. Life!Take(j)
      BY <1>6, <2>1 DEF Life!Take, Life!Becomes, Stage, StageOf, Runs
    <2> QED BY <2>2 DEF Life!Next
  <1>10. CASE JobStopped(j)
    <2>1. Stage[j] = StageOf(status[j]) /\ Stage' = [Stage EXCEPT ![j] = "cancelling"]
      BY <1>1, <1>10, OneLife DEF JobStopped, StageOf
    <2>2. CASE status[j] \in {"starting", "running"}
      <3>1. Stage[j] = "taken"
        BY <2>1, <2>2 DEF StageOf
      <3>2. Life!Stop(j)
        BY <1>6, <2>1, <3>1 DEF Life!Stop, Life!Becomes, Stage, StageOf, Runs
      <3> QED BY <3>2 DEF Life!Next
    <2>3. CASE status[j] = "cancelling"
      <3>1. Stage[j] = "cancelling"
        BY <2>1, <2>3 DEF StageOf
      <3>2. Stage' = Stage
        BY <2>1, <3>1 DEF Stage
      <3> QED BY <1>6, <3>2 DEF Life!vars, Stage, StageOf, Runs
    <2> QED BY <1>10, <2>2, <2>3 DEF JobStopped, Active
  <1> QED BY <1>7, <1>8, <1>9, <1>10

\* The registration of a worker is Run.
LEMMA RegisterIsRun ==
    ASSUME LifeAll, LifeAll', [Next]_vars, told' = told, NEW a \in Attempts,
           Register(a), JobRegistered(a)
    PROVE  Life!Run(a[1])
  <1> DEFINE j == a[1]
  <1>1. BaseInv /\ BaseInv' /\ RanInv /\ RanInv' /\ PublishedInv /\ PublishedInv' /\ TypeOK
    BY DEF LifeAll, BaseInv, TypeInv
  <1>2. j \in Requests /\ ran \in [Requests -> SUBSET Numbers]
    BY <1>1 DEF Attempts, BaseInv, TypeInv, MoreTypes
  <1>3. status[j] = "starting" /\ status' = [status EXCEPT ![j] = "running"]
    BY DEF JobRegistered
  <1>4. ran' = [ran EXCEPT ![j] = ran[j] \cup {a[2]}]
    <2>1. MayRegister(a)
      BY DEF JobRegistered, Live, MayRegister, Current
    <2> QED BY <2>1 DEF Register
  <1>5. ran[j] = {}
    BY <1>1, <1>2, <1>3 DEF RanInv
  <1>6. published' = published
    <2>1. \A i \in Requests : status'[i] = "succeeded" <=> status[i] = "succeeded"
      BY <1>1, <1>2, <1>3 DEF TypeOK
    <2> QED BY <1>1, <2>1, ResultsSame
  <1>7. Stage[j] = "taken" /\ Stage' = Stage
    <2>1. Stage[j] = "taken" /\ Stage' = [Stage EXCEPT ![j] = "taken"]
      BY <1>1, <1>2, <1>3, OneLife DEF StageOf
    <2> QED BY <2>1 DEF Stage
  <1>8. Runs[j] = 0 /\ Runs' = [Runs EXCEPT ![j] = 1]
    <2>1. Runs[j] = 0
      BY <1>1, <1>2, <1>5, RunsCount
    <2>2. Cardinality(ran'[j]) = 1
      BY <1>2, <1>4, <1>5, FS_Singleton
    <2>3. \A i \in Requests : Cardinality(ran'[i]) = IF i = j THEN 1 ELSE Cardinality(ran[i])
      BY <1>2, <1>4, <2>2
    <2> QED BY <2>1, <2>3 DEF Runs
  <1> HIDE DEF j
  <1> QED BY <1>2, <1>6, <1>7, <1>8 DEF Life!Run, Stage, StageOf, Runs, j

\* finalize is Succeed, End or PutBack.
LEMMA SettleIsLife ==
    ASSUME LifeAll, LifeAll', [Next]_vars, told' = told,
           NEW j \in Requests, NEW f \in Finals, JobSettled(j, f),
           f = "cancelled" => status[j] = "cancelling"
    PROVE  Life!Next
  <1>1. /\ BaseInv /\ BaseInv' /\ RanInv /\ RanInv' /\ LifeInv
        /\ PublishedInv /\ PublishedInv' /\ TypeOK
    BY DEF LifeAll, BaseInv, TypeInv
  <1>2. j \in Requests /\ f \in Finals /\ JobSettled(j, f)
    OBVIOUS
  <1>3. /\ status[j] \in {"running", "cancelling"}
        /\ status' = [status EXCEPT ![j] = f]
        /\ status[j] = "cancelling" => f # "succeeded"
    BY <1>2 DEF JobSettled
  <1>4. \A i \in Requests : status'[i] = IF i = j THEN f ELSE status[i]
    BY <1>1, <1>2, <1>3 DEF TypeOK
  <1>5. ran' = ran
    BY <1>1, <1>2, <1>4, RanSame DEF Finals
  <1>6. Runs' = Runs /\ Runs[j] = IF ran[j] = {} THEN 0 ELSE 1
    BY <1>1, <1>2, <1>5, RunsCount DEF Runs
  \* A job that has run is not put back, and only a stopped one is.
  <1>7. f = "queued" => status[j] = "cancelling" /\ Runs[j] = 0
    <2>1. f = "queued" => ran[j] = {}
      BY <1>1, <1>2, <1>4, <1>5 DEF RanInv
    <2> QED BY <1>1, <1>2, <1>3, <1>6, <2>1 DEF LifeInv
  <1>8. status[j] = "running" => Runs[j] = 1
    BY <1>1, <1>2, <1>6 DEF LifeInv
  <1>9. Stage[j] = IF status[j] = "running" THEN "taken" ELSE "cancelling"
    BY <1>1, <1>3, OneLife DEF StageOf
  <1>10. Stage' = [Stage EXCEPT ![j] = f]
    <2>1. Stage' = [Stage EXCEPT ![j] = StageOf(f)]
      BY <1>1, <1>3, OneLife
    <2>2. StageOf(f) = f
      BY <1>2 DEF StageOf, Finals
    <2> QED BY <2>1, <2>2
  <1>11. CASE f = "succeeded"
    <2>1. published \subseteq Requests /\ published' \subseteq Requests
      BY <1>1 DEF BaseInv, TypeInv, TypeOK
    <2>2. published' = published \cup {j}
      BY <1>1, <1>2, <1>4, <1>11, <2>1 DEF PublishedInv
    <2>3. Stage[j] = "taken" /\ Runs[j] = 1 /\ Stage' = [Stage EXCEPT ![j] = "succeeded"]
      BY <1>3, <1>8, <1>9, <1>10, <1>11
    <2>4. Runs' = Runs
      BY <1>6
    <2>5. Life!Succeed(j)
      BY <2>2, <2>3, <2>4 DEF Life!Succeed, Life!Becomes, Stage, StageOf, Runs
    <2> QED BY <2>5 DEF Life!Next
  <1>12. CASE f # "succeeded"
    <2>1. UNCHANGED <<Runs, published, told>>
      <3>1. \A i \in Requests : status'[i] = "succeeded" <=> status[i] = "succeeded"
        BY <1>3, <1>4, <1>12
      <3>2. published' = published
        BY <1>1, <3>1, ResultsSame
      <3> QED BY <1>6, <3>2
    <2>2. CASE f = "queued"
      <3>1. /\ Stage[j] = "cancelling" /\ Runs[j] = 0
            /\ Stage' = [Stage EXCEPT ![j] = "queued"]
        BY <1>7, <1>9, <1>10, <2>2
      <3>2. Life!PutBack(j)
        BY <2>1, <3>1 DEF Life!PutBack, Life!Becomes, Stage, StageOf, Runs
      <3> QED BY <3>2 DEF Life!Next
    <2>3. CASE f # "queued" /\ status[j] = "running"
      <3>1. Stage[j] = "taken" /\ Runs[j] = 1 /\ f \in {"failed", "lost"}
        BY <1>2, <1>8, <1>9, <1>12, <2>3 DEF Finals
      <3>2. Life!End(j)
        BY <1>10, <2>1, <3>1 DEF Life!End, Life!Becomes, Stage, StageOf, Runs
      <3> QED BY <3>2 DEF Life!Next
    <2>4. CASE f # "queued" /\ status[j] = "cancelling"
      <3>1. Stage[j] = "cancelling" /\ f \in {"failed", "cancelled", "lost"}
        BY <1>2, <1>9, <1>12, <2>4 DEF Finals
      <3>2. Life!End(j)
        BY <1>10, <2>1, <3>1 DEF Life!End, Life!Becomes, Life!Outcomes, Stage, StageOf, Runs
      <3> QED BY <3>2 DEF Life!Next
    <2> QED BY <1>3, <2>2, <2>3, <2>4
  <1> QED BY <1>11, <1>12

\* Every step of the runtime is one step in the life of one job, or none.
LEMMA LifeStep ==
    ASSUME LifeAll, [Next]_vars
    PROVE  Life!Next \/ UNCHANGED Life!vars
  <1>1. LifeAll' /\ BaseInv /\ BaseInv' /\ PublishedInv /\ PublishedInv'
    BY LifeAllStep DEF LifeAll
  <1>2. ASSUME NEW j \in Requests, NotifySend(j)
        PROVE  Life!Next
    BY <1>2, SendIsTell DEF Life!Next
  <1>3. ASSUME ~(\E j \in Requests : NotifySend(j))
        PROVE  Life!Next \/ UNCHANGED Life!vars
    <2>1. told' = told
      BY <1>3, ToldSame
    <2>2. CASE UNCHANGED status
      <3>1. ran' = ran
        BY <1>1, <2>2, RanSame
      <3>2. published' = published
        BY <1>1, <2>2, ResultsSame
      <3> QED BY <2>1, <2>2, <3>1, <3>2 DEF Life!vars
    <2>3. ASSUME NEW j \in Requests,
                 JobSubmitted(j) \/ JobCancelled(j) \/ JobStopped(j) \/ JobClaimed(j)
          PROVE  Life!Next \/ UNCHANGED Life!vars
      BY <1>1, <2>1, <2>3, MoveIsLife
    <2>4. ASSUME NEW a \in Attempts, Register(a), JobRegistered(a)
          PROVE  Life!Next
      <3>1. a[1] \in Requests
        BY DEF Attempts
      <3>2. Life!Run(a[1])
        BY <1>1, <2>1, <2>4, RegisterIsRun
      <3> QED BY <3>1, <3>2 DEF Life!Next
    <2>5. CASE Finalize
      <3>1. CASE Finalizable(cur)
        <4>1. /\ cur.job \in Requests /\ cur.n = attempt[cur.job]
              /\ Settled(cur) \in Finals
              /\ JobSettled(cur.job, Settled(cur))
          BY <1>1, <2>5, <3>1, FinalizeJobs
        <4>2. Settled(cur) = "cancelled" => status[cur.job] = "cancelling"
          <5>1. dpc \in Stopping
            BY <2>5 DEF Finalize, Stopping
          <5>2. <<cur.job, cur.n>> \notin finished
            BY <1>1, <4>1 DEF BaseInv, AttemptInv, JobSettled, Mine, Active
          <5>3. cur.final = "cancelled" => status[cur.job] = "cancelling"
            BY <5>1, <5>2 DEF LifeAll, LifeInv
          <5> QED BY <5>3 DEF Settled
        <4>3. PICK j \in Requests, f \in Finals : j = cur.job /\ f = Settled(cur)
          BY <4>1
        <4>4. JobSettled(j, f) /\ (f = "cancelled" => status[j] = "cancelling")
          BY <4>1, <4>2, <4>3
        <4> QED BY <1>1, <2>1, <4>4, SettleIsLife
      <3>2. CASE ~Finalizable(cur)
        <4>1. UNCHANGED status
          BY <2>5, <3>2 DEF Finalize
        <4> QED BY <2>2, <4>1
      <3> QED BY <3>1, <3>2
    <2> QED BY <1>1, <2>2, <2>3, <2>4, <2>5, JobEffects DEF JobsSame
  <1> QED BY <1>2, <1>3

\* The task runtime implements JobLife: whatever crashes, is slow, is cancelled or
\* comes late, what the table of jobs shows is one life per job, in which the code
\* runs at most once, a job that has begun is not put back, one that is being
\* stopped does not succeed, and the outcome is published and told once.
THEOREM LivesKept == Spec => ImplementsLife
  <1>1. Init => LifeAll /\ Life!Init
    <2> SUFFICES ASSUME Init
                 PROVE  LifeAll /\ Life!Init
      OBVIOUS
    <2>1. /\ status = [j \in Requests |-> "none"] /\ ran = [j \in Requests |-> {}]
          /\ told = [j \in Requests |-> 0] /\ published = {}
          /\ notify = [j \in Requests |-> "none"] /\ outbox = {}
          /\ snap = {} /\ dpc = "down"
      BY DEF Init
    <2>2. RanInv /\ ToldInv /\ PublishedInv /\ LifeInv
      BY <2>1 DEF RanInv, ToldInv, PublishedInv, LifeInv, Stopping
    <2>3. Cardinality({}) = 0
      BY FS_EmptySet
    <2>4. Life!Init
      BY <2>1, <2>3 DEF Life!Init
    <2> QED BY <2>2, <2>4, BaseInit DEF LifeAll
  <1>2. LifeAll /\ [Next]_vars => LifeAll'
    BY LifeAllStep
  <1>3. LifeAll /\ [Next]_vars => [Life!Next]_Life!vars
    BY LifeStep
  <1> QED BY <1>1, <1>2, <1>3, PTL DEF Spec, ImplementsLife, Life!Spec

=============================================================================
