---------------------------- MODULE TaskRuntime ----------------------------
(***************************************************************************)
(* The research task runtime (alphapilot/research): a SQLite table of jobs *)
(* that clients fill, one daemon that dispatches the jobs into worker      *)
(* processes, and reader/writer locks on resources shared with foreground  *)
(* commands.                                                               *)
(*                                                                         *)
(*   - TaskService (tasks.py): submit with an idempotency key, cancel,     *)
(*     delete;                                                             *)
(*   - TaskRuntime (runtime.py): claim, tick, reconcile, finalize, the     *)
(*     notifications and the daemon loop with its drain;                   *)
(*   - worker (runtime.py) and the wrapper of local commands (process.py); *)
(*   - ResourceLockService and ExecutionHandle.stop (execution.py).        *)
(*                                                                         *)
(* Every write transaction is one action, and so is every read whose       *)
(* result is used later.  Between two actions of the daemon any client,    *)
(* worker or command may run, the daemon may crash and a process may be    *)
(* killed.                                                                 *)
(*                                                                         *)
(* An attempt (a uuid) is <<job, number>>; a foreground command owns its   *)
(* locks as <<command, 0>>.  A job id is the request that created it.      *)
(* Both run their business code in their own process, in a container or in *)
(* a local command, the default (USE_LOCAL), which the wrapper of          *)
(* process.py registers.  The time limits are the clock's choice: `aged'   *)
(* holds the attempts that are older than 30 seconds, and a running job is *)
(* beyond its budget at some scan.                                         *)
(*                                                                         *)
(* Left out: payloads, progress, run manifests and artifacts; the staged   *)
(* result file, which the worker writes before it commits its completion;  *)
(* nested lock scopes of one owner.                                        *)
(***************************************************************************)
EXTENDS Naturals, FiniteSets

CONSTANTS Requests,      \* submissions; an admitted one is a job
          KeyOf,         \* [Requests -> key], the idempotency keys
          BodyOf,        \* [Requests -> body], what request_hash digests
          Commands,      \* foreground CLI commands
          Resources,
          Needs,         \* [Requests \cup Commands -> set of <<resource, mode>>]
          Capacity,      \* ALPHAPILOT_RESEARCH_MAX_RUNNING
          MaxQueued,     \* ALPHAPILOT_RESEARCH_MAX_QUEUED
          MaxCrashes,    \* bound on crashes of the daemon
          MaxSlow,       \* bound on workers that take 30 seconds to register
          MaxUnconfirmed,\* bound on failures to confirm a stop
          MaxCancels,    \* bound on cancellations by users
          MaxDrains,     \* bound on `task_runtime stop'
          MaxFaults      \* bound on all of these together

ASSUME RuntimeAssumption ==
    /\ Requests \cap Commands = {}
    /\ Needs \in [Requests \cup Commands -> SUBSET (Resources \X {"read", "write"})]
    /\ Capacity \in Nat \ {0} /\ MaxQueued \in Nat \ {0}
    /\ {MaxCrashes, MaxSlow, MaxUnconfirmed, MaxCancels, MaxDrains, MaxFaults}
          \subseteq Nat

VARIABLES
  \* the requests of clients
  req,         \* "new", "prepared", "admitted" or the answer
  stamp,       \* created_at: the number of requests prepared before
  \* table jobs, durable
  status, attempt, stopFinal, completion, deleted,
  published,   \* execution.published_result
  \* tables executions, locks, notifications and metadata, durable
  identified,  \* executions with an identity
  finished,    \* executions with finished = 1
  locks,       \* set of [res, owner, mode]
  notify,      \* "none", "pending" or "sent"
  drain,
  \* the daemon, lost in a crash
  dpc,         \* its place in the loop, "down" when runtime.lock is free
  snap,        \* rows read by reconcile and not yet handled
  cur,         \* the row or the claim it works on
  outbox,      \* notifications marked as sent and not yet sent
  spawned,     \* a launcher has started a daemon that does not hold the lock yet
  \* processes
  proc,        \* attempt -> state of its worker process
  container,   \* owners with a running container
  child,       \* owner -> state of its local command; one stands for all
  cli,         \* command -> state of its hold
  \* the clock and the bounds
  aged, slow, crashes, unconfirmed, cancels, drains,
  \* history
  ran,         \* job -> attempts that ran business code
  told         \* job -> notifications sent

client == <<req, stamp>>
jobs == <<status, attempt, stopFinal, completion, deleted, published>>
tables == <<identified, finished, locks, notify, drain>>
daemon == <<dpc, snap, cur, outbox, spawned>>
procs == <<proc, container, child, cli>>
world == <<aged, slow, crashes, unconfirmed, cancels, drains>>
history == <<ran, told>>
vars == <<client, jobs, tables, daemon, procs, world, history>>

Numbers == 1..(1 + MaxCrashes + MaxSlow)
Attempts == Requests \X Numbers
Owners == Attempts \cup (Commands \X {0})

Active == {"starting", "running", "cancelling"}
Terminal == {"succeeded", "failed", "cancelled", "lost"}
Statuses == {"none", "queued"} \cup Active \cup Terminal
Answers == {"accepted", "replayed", "conflict", "gone", "draining", "full"}

Jobs == { j \in Requests : status[j] # "none" }

Row(j) == [job |-> j, n |-> attempt[j], status |-> status[j],
           stop |-> stopFinal[j], completion |-> completion[j]]
NoRow == [job |-> "none", n |-> 0, final |-> "none", completion |-> "none"]

\* The wrapper of process.py holds the write lock of SQLite while it checks.
Writable == \A o \in Owners : child[o] # "checked"

\* The bound on all faults leaves room for one more.
Spare == slow + crashes + unconfirmed + cancels + drains < MaxFaults

Init ==
    /\ req = [q \in Requests |-> "new"] /\ stamp = [q \in Requests |-> 0]
    /\ status = [j \in Requests |-> "none"] /\ attempt = [j \in Requests |-> 0]
    /\ stopFinal = [j \in Requests |-> "none"]
    /\ completion = [j \in Requests |-> "none"]
    /\ deleted = {} /\ published = {}
    /\ identified = {} /\ finished = {} /\ locks = {}
    /\ notify = [j \in Requests |-> "none"] /\ drain = FALSE
    /\ dpc = "down" /\ snap = {} /\ cur = NoRow /\ outbox = {} /\ spawned = FALSE
    /\ proc = [a \in Attempts |-> "none"]
    /\ container = {} /\ child = [o \in Owners |-> "none"]
    /\ cli = [c \in Commands |-> "idle"]
    /\ aged = {}
    /\ slow = 0 /\ crashes = 0 /\ unconfirmed = 0 /\ cancels = 0 /\ drains = 0
    /\ ran = [j \in Requests |-> {}]
    /\ told = [j \in Requests |-> 0]

-----------------------------------------------------------------------------
(* Clients: submit, cancel, delete, stop and start *)

SameKey(q) == { j \in Jobs : KeyOf[j] = KeyOf[q] }

\* _replay
Replay(q, j) == IF BodyOf[j] # BodyOf[q] THEN "conflict"
                ELSE IF j \in deleted THEN "gone" ELSE "replayed"

\* submit reads the key and the drain flag before it prepares the input.
SubmitLookup(q) ==
    /\ req[q] = "new"
    /\ \/ \E j \in SameKey(q) : req' = [req EXCEPT ![q] = Replay(q, j)] /\ UNCHANGED stamp
       \/ /\ SameKey(q) = {} /\ drain
          /\ req' = [req EXCEPT ![q] = "draining"] /\ UNCHANGED stamp
       \/ /\ SameKey(q) = {} /\ ~drain
          /\ req' = [req EXCEPT ![q] = "prepared"]
          /\ stamp' = [stamp EXCEPT ![q] = 1 + Cardinality({ p \in Requests : stamp[p] > 0 })]
    /\ UNCHANGED <<jobs, tables, daemon, procs, world, history>>

Queued == { j \in Requests : status[j] = "queued" }

\* The admitting transaction reads the key again and counts the queue.  A key
\* that is in the table is answered before the INSERT, which UNIQUE(client_id,
\* idem_key) would refuse.
SubmitAdmit(q) ==
    /\ req[q] = "prepared" /\ Writable
    /\ \/ \E j \in SameKey(q) : req' = [req EXCEPT ![q] = Replay(q, j)] /\ UNCHANGED status
       \/ /\ SameKey(q) = {} /\ Cardinality(Queued) >= MaxQueued
          /\ req' = [req EXCEPT ![q] = "full"] /\ UNCHANGED status
       \/ /\ SameKey(q) = {} /\ Cardinality(Queued) < MaxQueued
          /\ req' = [req EXCEPT ![q] = "admitted"]
          /\ status' = [status EXCEPT ![q] = "queued"]
    /\ UNCHANGED <<stamp, attempt, stopFinal, completion, deleted, published,
                   tables, daemon, procs, world, history>>

\* ensure_running: nothing to do while the lock is held or the runtime drains.
EnsureRunning(draining) == spawned' = (spawned \/ (dpc = "down" /\ ~draining))

SubmitReturn(q) ==
    /\ req[q] = "admitted" /\ req' = [req EXCEPT ![q] = "accepted"]
    /\ EnsureRunning(drain)
    /\ UNCHANGED <<stamp, jobs, tables, dpc, snap, cur, outbox, procs, world, history>>

\* INSERT OR IGNORE INTO notifications
Note(j) == notify' = [notify EXCEPT ![j] = IF @ = "none" THEN "pending" ELSE @]

\* Mutant: a job that has not begun is settled at once.
CancelAtOnce(j) ==
    /\ j \in Jobs \ deleted /\ status[j] \notin Terminal /\ Writable
    /\ cancels < MaxCancels /\ Spare /\ cancels' = cancels + 1
    /\ IF status[j] \in {"queued", "starting"}
       THEN status' = [status EXCEPT ![j] = "cancelled"] /\ Note(j)
       ELSE status' = [status EXCEPT ![j] = "cancelling"] /\ UNCHANGED notify
    /\ UNCHANGED <<client, attempt, stopFinal, completion, deleted, published,
                   identified, finished, locks, drain, daemon, procs,
                   aged, slow, crashes, unconfirmed, drains, ran, told>>

\* TaskService.cancel of a job that is not settled
Cancel(j) ==
    /\ j \in Jobs \ deleted /\ status[j] \notin Terminal /\ Writable
    /\ cancels < MaxCancels /\ Spare /\ cancels' = cancels + 1
    /\ IF status[j] = "queued"
       THEN status' = [status EXCEPT ![j] = "cancelled"] /\ Note(j)
       ELSE status' = [status EXCEPT ![j] = "cancelling"] /\ UNCHANGED notify
    /\ UNCHANGED <<client, attempt, stopFinal, completion, deleted, published,
                   identified, finished, locks, drain, daemon, procs,
                   aged, slow, crashes, unconfirmed, drains, ran, told>>

\* TaskService.delete leaves a tombstone that keeps the key.
Delete(j) ==
    /\ j \in Jobs \ deleted /\ status[j] \in Terminal /\ Writable
    /\ \A n \in Numbers : n = attempt[j] => <<j, n>> \in finished
    /\ deleted' = deleted \cup {j}
    /\ UNCHANGED <<client, status, attempt, stopFinal, completion, published,
                   tables, daemon, procs, world, history>>

\* task_runtime stop
Drain ==
    /\ ~drain /\ drains < MaxDrains /\ Spare /\ Writable
    /\ drain' = TRUE /\ drains' = drains + 1
    /\ UNCHANGED <<client, jobs, identified, finished, locks, notify,
                   daemon, procs, aged, slow, crashes, unconfirmed, cancels, history>>

\* A portal that starts, or a schedule control, calls ensure_running as well.
Portal ==
    /\ ~spawned /\ dpc = "down" /\ ~drain /\ EnsureRunning(drain)
    /\ UNCHANGED <<client, jobs, tables, dpc, snap, cur, outbox, procs, world, history>>

\* task_runtime start of a runtime that drains; otherwise it is as Portal.
Start ==
    /\ drain /\ Writable
    /\ drain' = FALSE /\ EnsureRunning(FALSE)
    /\ UNCHANGED <<client, jobs, identified, finished, locks, notify,
                   dpc, snap, cur, outbox, procs, world, history>>

-----------------------------------------------------------------------------
(* The daemon: start, reconcile *)

\* Only the process that takes runtime.lock dispatches.
Boot ==
    /\ spawned /\ spawned' = FALSE
    /\ dpc' = IF dpc = "down" THEN "idle" ELSE dpc
    /\ UNCHANGED <<client, jobs, tables, snap, cur, outbox, procs, world, history>>

\* tick: reconcile reads all active jobs in one query.
Tick ==
    /\ dpc = "idle" /\ dpc' = "scan"
    /\ snap' = { Row(j) : j \in { k \in Jobs : status[k] \in Active } }
    /\ UNCHANGED <<client, jobs, tables, cur, outbox, spawned, procs, world, history>>

Handled(row) == snap' = snap \ {row}

\* Mutant: the row that reconcile has read is taken for the present one.
ScanStartingStale(row) ==
    /\ dpc = "scan" /\ row \in snap /\ row.status = "starting" /\ Writable
    /\ Handled(row)
    /\ IF <<row.job, row.n>> \in aged
       THEN /\ status' = [status EXCEPT ![row.job] = "cancelling"]
            /\ stopFinal' = [stopFinal EXCEPT ![row.job] = "queued"]
       ELSE UNCHANGED <<status, stopFinal>>
    /\ UNCHANGED <<client, attempt, completion, deleted, published, tables, dpc, cur,
                   outbox, spawned, procs, world, history>>

\* A start that takes 30 seconds is invalidated before it is cleaned up.
ScanStarting(row) ==
    /\ dpc = "scan" /\ row \in snap /\ row.status = "starting" /\ Writable
    /\ Handled(row)
    /\ IF /\ <<row.job, row.n>> \in aged
          /\ status[row.job] = "starting" /\ attempt[row.job] = row.n
       THEN /\ status' = [status EXCEPT ![row.job] = "cancelling"]
            /\ stopFinal' = [stopFinal EXCEPT ![row.job] = "queued"]
       ELSE UNCHANGED <<status, stopFinal>>
    /\ UNCHANGED <<client, attempt, completion, deleted, published, tables, dpc, cur,
                   outbox, spawned, procs, world, history>>

\* Mutant: the default of a user's cancellation is stored.
RequestStopDefaulted(j, n, final) ==
    IF attempt[j] = n /\ status[j] \notin Terminal
    THEN /\ status' = [status EXCEPT ![j] = "cancelling"]
         /\ stopFinal' = [stopFinal EXCEPT ![j] = IF status[j] = "cancelling" THEN "cancelled" ELSE final]
    ELSE UNCHANGED <<status, stopFinal>>

\* _request_stop
RequestStop(j, n, final) ==
    IF attempt[j] = n /\ status[j] \notin Terminal
    THEN /\ status' = [status EXCEPT ![j] = "cancelling"]
         /\ stopFinal' = [stopFinal EXCEPT ![j] = IF status[j] = "cancelling" THEN @ ELSE final]
    ELSE UNCHANGED <<status, stopFinal>>

\* alive: the recorded identity is a running process.
Alive(a) == a \in identified /\ proc[a] \notin {"none", "dead"}

\* A running worker is left alone within its budget.
ScanRunning(row) ==
    /\ dpc = "scan" /\ row \in snap /\ row.status = "running"
    /\ Alive(<<row.job, row.n>>)
    /\ Handled(row)
    /\ UNCHANGED <<client, jobs, tables, dpc, cur, outbox, spawned, procs, world, history>>

\* A running worker beyond its budget is to be stopped.
ScanOver(row) ==
    /\ dpc = "scan" /\ row \in snap /\ row.status = "running" /\ Writable
    /\ Alive(<<row.job, row.n>>)
    /\ Handled(row) /\ RequestStop(row.job, row.n, "failed")
    /\ UNCHANGED <<client, attempt, completion, deleted, published, tables, dpc, cur,
                   outbox, spawned, procs, world, history>>

\* What reconcile will make of a stopped attempt, from the row it has read.
Verdict(row) ==
    IF row.status = "cancelling"
    THEN [job |-> row.job, n |-> row.n, completion |-> "none",
          final |-> IF row.stop = "none" THEN "cancelled" ELSE row.stop]
    ELSE [job |-> row.job, n |-> row.n, completion |-> row.completion,
          final |-> IF row.completion = "none" THEN "lost" ELSE row.completion]

Stoppable(row) ==
    /\ dpc = "scan" /\ row \in snap
    /\ \/ row.status = "cancelling"
       \/ row.status = "running" /\ ~Alive(<<row.job, row.n>>)

\* A local command with a row in child_processes, written before or after its
\* owner died
Commanding == {"running", "orphan"}

\* What ExecutionHandle.stop finds of an owner's local command: the wrapper that
\* has not committed its row is neither a registered command nor, in a session of
\* its own, a member of the group of a dead worker.
ChildStopped(o) == [child EXCEPT ![o] = IF @ = "checked" THEN @ ELSE "none"]

\* Mutant: the rows of child_processes are not read.
StopConfirmedLeader(row) ==
    /\ Stoppable(row)
    /\ LET a == <<row.job, row.n>>
       IN  /\ proc' = [proc EXCEPT ![a] = IF Alive(a) THEN "dead" ELSE @]
           /\ container' = container \ {a}
    /\ Handled(row) /\ cur' = Verdict(row) /\ dpc' = "final"
    /\ UNCHANGED <<client, jobs, tables, outbox, spawned, child, cli, world, history>>

\* ExecutionHandle.stop confirmed: the recorded leader with its descendants, the
\* registered local command and the labelled containers are gone.
StopConfirmed(row) ==
    /\ Stoppable(row)
    /\ LET a == <<row.job, row.n>>
       IN  /\ proc' = [proc EXCEPT ![a] = IF Alive(a) THEN "dead" ELSE @]
           /\ container' = container \ {a}
           /\ child' = ChildStopped(a)
    /\ Handled(row) /\ cur' = Verdict(row) /\ dpc' = "final"
    /\ UNCHANGED <<client, jobs, tables, outbox, spawned, cli, world, history>>

\* stop with one of its parts not confirmed: a process is not accessible or still
\* visible, or Docker does not answer.  The other parts may be gone, and so may be
\* the part in question.  Nothing of an owner without an identity can fail.
StopPartly(row) ==
    /\ Stoppable(row) /\ <<row.job, row.n>> \in identified
    /\ unconfirmed < MaxUnconfirmed /\ Spare /\ unconfirmed' = unconfirmed + 1
    /\ LET a == <<row.job, row.n>>
       IN  /\ proc' \in {proc, [proc EXCEPT ![a] = IF Alive(a) THEN "dead" ELSE @]}
           /\ container' \in {container, container \ {a}}
           /\ child' \in {child, ChildStopped(a)}
    /\ Handled(row) /\ cur' = Verdict(row)
    /\ UNCHANGED <<client, jobs, tables, outbox, spawned, cli,
                   aged, slow, crashes, cancels, drains, history>>

\* Mutant: a stop that cannot be confirmed counts as a stop.
StopUnconfirmedIgnored(row) == StopPartly(row) /\ dpc' = "final"

StopUnconfirmed(row) == StopPartly(row) /\ dpc' = "unconfirmed"

Unconfirmed ==
    /\ dpc = "unconfirmed" /\ Writable /\ dpc' = "scan" /\ cur' = NoRow
    /\ RequestStop(cur.job, cur.n, "lost")
    /\ UNCHANGED <<client, attempt, completion, deleted, published, tables, snap,
                   outbox, spawned, procs, world, history>>

\* The status and the completion finalize uses, given what is in the row now.
Settled(c) == IF status[c.job] # "cancelling" THEN c.final
              ELSE IF stopFinal[c.job] = "none" THEN "cancelled" ELSE stopFinal[c.job]

\* finalize gives up when the attempt is not the job's any more, the job is
\* settled, or a cancellation came before a success.
Finalizable(c) ==
    /\ attempt[c.job] = c.n /\ status[c.job] \notin Terminal
    /\ ~(status[c.job] = "cancelling" /\ c.final = "succeeded")

\* Mutant: the rows of the locks stay.
ReleaseForgetful(owner) == finished' = finished \cup {owner} /\ UNCHANGED locks

Release(owner) ==
    /\ locks' = { l \in locks : l.owner # owner }
    /\ finished' = finished \cup {owner}

\* finalize: one transaction settles or requeues the job and frees its locks.
Finalize ==
    /\ dpc = "final" /\ Writable /\ dpc' = "scan" /\ cur' = NoRow
    /\ LET j == cur.job
           final == Settled(cur)
       IN  IF Finalizable(cur)
           THEN /\ status' = [status EXCEPT ![j] = final]
                /\ attempt' = [attempt EXCEPT ![j] = IF final = "queued" THEN 0 ELSE @]
                /\ completion' = [completion EXCEPT ![j] = "none"]
                /\ stopFinal' = [stopFinal EXCEPT ![j] = "none"]
                /\ published' = IF status[j] # "cancelling" /\ cur.completion = "succeeded"
                                THEN published \cup {j} ELSE published
                /\ Release(<<j, cur.n>>)
                /\ IF final = "queued" THEN UNCHANGED notify ELSE Note(j)
           ELSE UNCHANGED <<status, attempt, completion, stopFinal, published, locks,
                            finished, notify>>
    /\ UNCHANGED <<client, deleted, identified, drain, snap, outbox, spawned,
                   procs, world, history>>

\* Mutant: a command that died is not recognised.
LeftPending(c) == cli[c] = "pending"

\* Commands that died, or left their cleanup to the daemon
Left(c) == cli[c] \in {"dead", "pending"}

\* The registry of foreground commands: one of those left is stopped, and then
\* released in a transaction of its own.
StandaloneStop(c) ==
    /\ dpc = "scan" /\ snap = {} /\ Left(c) /\ <<c, 0>> \notin finished
    /\ container' = container \ {<<c, 0>>} /\ child' = ChildStopped(<<c, 0>>)
    /\ dpc' = "release" /\ cur' = [NoRow EXCEPT !.job = c]
    /\ UNCHANGED <<client, jobs, tables, snap, outbox, spawned, proc, cli, world,
                   history>>

StandaloneRelease ==
    /\ dpc = "release" /\ Writable /\ dpc' = "scan" /\ cur' = NoRow
    /\ Release(<<cur.job, 0>>)
    /\ UNCHANGED <<client, jobs, identified, notify, drain, snap, outbox, spawned,
                   procs, world, history>>

\* reconcile is over; commands whose stop was not confirmed wait for the next
\* tick.  A draining daemon dispatches nothing.
StandaloneEnd ==
    /\ dpc = "scan" /\ snap = {}
    /\ dpc' = IF drain THEN "notify" ELSE "dispatch"
    /\ UNCHANGED <<client, jobs, tables, snap, cur, outbox, spawned, procs, world, history>>

Standalone == (\E c \in Commands : StandaloneStop(c)) \/ StandaloneRelease \/ StandaloneEnd

-----------------------------------------------------------------------------
(* The daemon: claim, launch, notify, drain, crash *)

\* acquire_in: many readers or one writer
Free(owner, needs) ==
    \A l \in locks, d \in needs :
        l.res = d[1] /\ l.owner # owner => l.mode = "read" /\ d[2] = "read"

Acquire(owner, needs) ==
    locks' = locks \cup { [res |-> d[1], owner |-> owner, mode |-> d[2]] : d \in needs }

\* Mutant: a job that is being stopped does not count.
BusyRunning == Cardinality({ k \in Requests : status[k] \in {"starting", "running"} }) >= Capacity

Busy == Cardinality({ k \in Requests : status[k] \in Active }) >= Capacity

Oldest(j) == j \in Queued /\ \A k \in Queued : stamp[j] <= stamp[k]

NextAttempt(j) == <<j, 1 + Cardinality({ n \in Numbers : <<j, n>> \in finished })>>

Claimable(j) == ~Busy /\ Oldest(j) /\ Free(NextAttempt(j), Needs[j])

\* claim: only the oldest queued job is considered.
Claim(j) ==
    /\ dpc = "dispatch" /\ Writable /\ Claimable(j)
    /\ LET a == NextAttempt(j)
       IN  /\ Acquire(a, Needs[j])
           /\ status' = [status EXCEPT ![j] = "starting"]
           /\ attempt' = [attempt EXCEPT ![j] = a[2]]
           /\ cur' = [job |-> j, n |-> a[2], final |-> "none", completion |-> "none"]
    /\ dpc' = "launch"
    /\ UNCHANGED <<client, stopFinal, completion, deleted, published, identified, finished,
                   notify, drain, snap, outbox, spawned, procs, world, history>>

ClaimNone ==
    /\ dpc = "dispatch" /\ ~(\E j \in Requests : Claimable(j)) /\ dpc' = "notify"
    /\ UNCHANGED <<client, jobs, tables, snap, cur, outbox, spawned, procs, world, history>>

Launch ==
    /\ dpc = "launch" /\ dpc' = "identify"
    /\ proc' = [proc EXCEPT ![<<cur.job, cur.n>>] = "booting"]
    /\ UNCHANGED <<client, jobs, tables, snap, cur, outbox, spawned, container,
                   child, cli, world, history>>

\* UPDATE executions SET identity=? WHERE id=? AND identity IS NULL
Identify ==
    /\ dpc = "identify" /\ Writable /\ dpc' = "dispatch" /\ cur' = NoRow
    /\ identified' = identified \cup {<<cur.job, cur.n>>}
    /\ UNCHANGED <<client, jobs, finished, locks, notify, drain, snap, outbox,
                   spawned, procs, world, history>>

\* An exception of the launcher, of identity or of its update
StartFailed ==
    /\ dpc \in {"launch", "identify"} /\ Writable /\ dpc' = "dispatch" /\ cur' = NoRow
    /\ RequestStop(cur.job, cur.n, "failed")
    /\ UNCHANGED <<client, attempt, completion, deleted, published, tables, snap, outbox,
                   spawned, procs, world, history>>

\* deliver_notifications marks every row as sent before it sends one.
NotifyMark ==
    /\ dpc = "notify" /\ Writable /\ dpc' = "send"
    /\ outbox' = { j \in Requests : notify[j] = "pending" }
    /\ notify' = [j \in Requests |-> IF notify[j] = "pending" THEN "sent" ELSE notify[j]]
    /\ UNCHANGED <<client, jobs, identified, finished, locks, drain, snap, cur,
                   spawned, procs, world, history>>

NotifySend(j) ==
    /\ dpc = "send" /\ j \in outbox
    /\ outbox' = outbox \ {j} /\ told' = [told EXCEPT ![j] = @ + 1]
    /\ UNCHANGED <<client, jobs, tables, dpc, snap, cur, spawned, procs, world, ran>>

\* The end of the loop: a draining daemon without active jobs breaks out of it.
LoopEnd ==
    /\ dpc = "send" /\ outbox = {}
    /\ dpc' = IF drain /\ \A j \in Requests : status[j] \notin Active THEN "exit" ELSE "idle"
    /\ UNCHANGED <<client, jobs, tables, snap, cur, outbox, spawned, procs, world, history>>

\* The lock is released.
Exit ==
    /\ dpc = "exit" /\ dpc' = "down"
    /\ UNCHANGED <<client, jobs, tables, snap, cur, outbox, spawned, procs, world, history>>

\* The daemon dies, and stays down until somebody starts one.
Crash ==
    /\ dpc # "down" /\ crashes < MaxCrashes /\ Spare
    /\ crashes' = crashes + 1
    /\ dpc' = "down" /\ snap' = {} /\ cur' = NoRow /\ outbox' = {}
    /\ UNCHANGED <<client, jobs, tables, spawned, procs, aged, slow, unconfirmed, cancels,
                   drains, history>>

-----------------------------------------------------------------------------
(* Worker processes *)

Current(a) == attempt[a[1]] = a[2]

MayRegister(a) == Current(a) /\ status[a[1]] = "starting"

\* The worker's first transaction; a late worker returns.
Register(a) ==
    /\ proc[a] = "booting" /\ Writable
    /\ IF MayRegister(a)
       THEN /\ status' = [status EXCEPT ![a[1]] = "running"]
            /\ identified' = identified \cup {a}
            /\ proc' = [proc EXCEPT ![a] = "executing"]
            /\ ran' = [ran EXCEPT ![a[1]] = @ \cup {a[2]}]
       ELSE /\ proc' = [proc EXCEPT ![a] = "dead"]
            /\ UNCHANGED <<status, identified, ran>>
    /\ UNCHANGED <<client, attempt, stopFinal, completion, deleted, published, finished, locks,
                   notify, drain, daemon, container, child, cli, world, told>>

\* execute returns or raises.
WorkerFinish(a) ==
    /\ proc[a] = "executing" /\ a \notin container /\ child[a] \in {"none", "ended"}
    /\ \E o \in {"succeeded", "failed"} : proc' = [proc EXCEPT ![a] = o]
    /\ UNCHANGED <<client, jobs, tables, daemon, container, child, cli, world, history>>

\* The worker commits its completion while the job is still its own.
WorkerCommit(a) ==
    /\ proc[a] \in {"succeeded", "failed"} /\ Writable
    /\ proc' = [proc EXCEPT ![a] = "exiting"]
    /\ completion' = IF status[a[1]] = "running" /\ Current(a)
                     THEN [completion EXCEPT ![a[1]] = proc[a]] ELSE completion
    /\ UNCHANGED <<client, status, attempt, stopFinal, deleted, published, tables, daemon,
                   container, child, cli, world, history>>

WorkerExit(a) ==
    /\ proc[a] = "exiting" /\ proc' = [proc EXCEPT ![a] = "dead"]
    /\ UNCHANGED <<client, jobs, tables, daemon, container, child, cli, world, history>>

\* The worker is killed; a death before registration counts as a slow start.
WorkerDie(a) ==
    /\ \/ proc[a] \in {"executing", "succeeded", "failed"} /\ UNCHANGED slow
       \/ proc[a] = "booting" /\ slow < MaxSlow /\ Spare /\ slow' = slow + 1
    /\ proc' = [proc EXCEPT ![a] = "dead"]
    /\ UNCHANGED <<client, jobs, tables, daemon, container, child, cli,
                   aged, crashes, unconfirmed, cancels, drains, history>>

-----------------------------------------------------------------------------
(* The containers and local commands of workers and foreground commands *)

\* The owner's own process is in its business code.
Executing(o) == IF o[2] = 0 THEN cli[o[1]] = "holding" ELSE proc[o] = "executing"

\* DockerEnv runs a container, which may outlive its owner.
ContainerStart(o) ==
    /\ Executing(o) /\ o \notin container /\ child[o] = "none"
    /\ container' = container \cup {o}
    /\ UNCHANGED <<client, jobs, tables, daemon, proc, child, cli, world, history>>

ContainerEnd(o) ==
    /\ o \in container /\ container' = container \ {o}
    /\ UNCHANGED <<client, jobs, tables, daemon, proc, child, cli, world, history>>

\* The wrapper of a local command has opened its transaction and found its owner
\* active.
ChildCheck(o) ==
    /\ Writable /\ Executing(o) /\ o \notin container /\ child[o] = "none"
    /\ o \notin finished
    /\ o \in Attempts => Alive(o) /\ Current(o) /\ status[o[1]] = "running"
    /\ child' = [child EXCEPT ![o] = "checked"]
    /\ UNCHANGED <<client, jobs, tables, daemon, proc, container, cli, world, history>>

\* It commits its row and becomes the local command, also when its owner was
\* killed after the check.
ChildRun(o) ==
    /\ child[o] = "checked"
    /\ child' = [child EXCEPT ![o] = IF Executing(o) THEN "running" ELSE "orphan"]
    /\ UNCHANGED <<client, jobs, identified, finished, locks, notify, drain, daemon, proc,
                   container, cli, world, history>>

ChildEnd(o) ==
    /\ child[o] \in Commanding /\ child' = [child EXCEPT ![o] = "ended"]
    /\ UNCHANGED <<client, jobs, tables, daemon, proc, container, cli, world, history>>

-----------------------------------------------------------------------------
(* Foreground commands: ResourceLockService.hold *)

CliHold(c) ==
    /\ cli[c] = "idle" /\ Writable /\ Free(<<c, 0>>, Needs[c])
    /\ Acquire(<<c, 0>>, Needs[c])
    /\ cli' = [cli EXCEPT ![c] = "holding"]
    /\ UNCHANGED <<client, jobs, identified, finished, notify, drain, daemon, proc,
                   container, child, world, history>>

\* The end of the hold, when its local command has returned: the locks go once
\* its containers are confirmed stopped.
CliRelease(c) ==
    /\ cli[c] = "holding" /\ Writable /\ child[<<c, 0>>] \in {"none", "ended"}
    /\ \/ /\ cli' = [cli EXCEPT ![c] = "released"] /\ Release(<<c, 0>>)
          /\ container' = container \ {<<c, 0>>} /\ UNCHANGED unconfirmed
       \/ /\ unconfirmed < MaxUnconfirmed /\ Spare /\ unconfirmed' = unconfirmed + 1
          /\ cli' = [cli EXCEPT ![c] = "pending"] /\ UNCHANGED <<locks, finished, container>>
    /\ UNCHANGED <<client, jobs, identified, notify, drain, daemon, proc, child, aged, slow,
                   crashes, cancels, drains, history>>

CliDie(c) ==
    /\ cli[c] = "holding" /\ cli' = [cli EXCEPT ![c] = "dead"]
    /\ UNCHANGED <<client, jobs, tables, daemon, proc, container, child, world, history>>

-----------------------------------------------------------------------------
(* The clock *)

\* 30 seconds pass after a claim; a worker that is booting may be that slow.
Age(a) ==
    /\ Current(a) /\ status[a[1]] = "starting" /\ a \notin aged
    /\ ~(dpc \in {"launch", "identify"} /\ cur.job = a[1])
    /\ \/ proc[a] = "booting" /\ slow < MaxSlow /\ Spare /\ slow' = slow + 1
       \/ proc[a] # "booting" /\ UNCHANGED slow
    /\ aged' = aged \cup {a}
    /\ UNCHANGED <<client, jobs, tables, daemon, procs, crashes, unconfirmed, cancels,
                   drains, history>>

-----------------------------------------------------------------------------
Clients ==
    \/ \E q \in Requests : SubmitLookup(q) \/ SubmitAdmit(q) \/ SubmitReturn(q)
    \/ \E j \in Requests : Cancel(j) \/ Delete(j)
    \/ Drain \/ Start \/ Portal

Loop ==
    \/ Tick
    \/ \E row \in snap : \/ ScanStarting(row) \/ ScanRunning(row) \/ ScanOver(row)
                         \/ StopConfirmed(row) \/ StopUnconfirmed(row)
    \/ Unconfirmed \/ Finalize \/ Standalone
    \/ \E j \in Requests : Claim(j)
    \/ ClaimNone \/ Launch \/ Identify \/ StartFailed
    \/ NotifyMark \/ (\E j \in Requests : NotifySend(j)) \/ LoopEnd \/ Exit

Processes == \E a \in Attempts :
    \/ Register(a) \/ WorkerFinish(a) \/ WorkerCommit(a) \/ WorkerExit(a) \/ WorkerDie(a)

Executions == \E o \in Owners :
    ContainerStart(o) \/ ContainerEnd(o) \/ ChildCheck(o) \/ ChildRun(o) \/ ChildEnd(o)

Foreground == \E c \in Commands : CliHold(c) \/ CliRelease(c) \/ CliDie(c)

Clock == \E a \in Attempts : Age(a)

Next == Clients \/ Boot \/ Loop \/ Crash \/ Processes \/ Executions \/ Foreground \/ Clock

\* The daemon keeps looping and a spawned one boots, transactions end, a process
\* that was launched and not killed registers, time passes, a foreground command
\* ends, and the stop of one that was left is confirmed at some tick.  Portal is
\* an assumption on operators: no code restarts a daemon that died.  Nothing is
\* assumed of the business code of a job.
Fairness ==
    /\ WF_vars(Loop) /\ WF_vars(Boot) /\ WF_vars(Portal)
    /\ \A q \in Requests : WF_vars(SubmitAdmit(q)) /\ WF_vars(SubmitReturn(q))
    /\ \A a \in Attempts : WF_vars(Register(a)) /\ WF_vars(Age(a))
    /\ \A j \in Requests : SF_vars(\E row \in snap : row.job = j /\ ScanOver(row))
    /\ \A o \in Owners : WF_vars(ChildRun(o))
    /\ \A c \in Commands : /\ WF_vars(CliRelease(c)) /\ WF_vars(ChildEnd(<<c, 0>>))
                           /\ SF_vars(StandaloneStop(c))

Spec == Init /\ [][Next]_vars /\ Fairness

-----------------------------------------------------------------------------
(* Correctness *)

\* Every variable holds a value of its kind: the statuses of common.py, rows
\* keyed by attempts, and a stop_final that _request_stop and reconcile write.
TypeOK ==
    /\ req \in [Requests -> {"new", "prepared", "admitted"} \cup Answers]
    /\ stamp \in [Requests -> Nat]
    /\ status \in [Requests -> Statuses]
    /\ attempt \in [Requests -> {0} \cup Numbers]
    /\ stopFinal \in [Requests -> {"none", "queued", "failed", "lost"}]
    /\ completion \in [Requests -> {"none", "succeeded", "failed"}]
    /\ deleted \subseteq Requests /\ published \subseteq Requests
    /\ identified \subseteq Attempts
    /\ finished \subseteq Owners
    /\ locks \subseteq [res : Resources, owner : Owners, mode : {"read", "write"}]
    /\ notify \in [Requests -> {"none", "pending", "sent"}]
    /\ drain \in BOOLEAN /\ spawned \in BOOLEAN
    /\ dpc \in {"down", "idle", "scan", "final", "unconfirmed", "release", "dispatch",
                "launch", "identify", "notify", "send", "exit"}
    /\ outbox \subseteq Requests
    /\ proc \in [Attempts -> {"none", "booting", "executing", "succeeded", "failed",
                              "exiting", "dead"}]
    /\ container \subseteq Owners
    /\ child \in [Owners -> {"none", "checked", "ended"} \cup Commanding]
    /\ cli \in [Commands -> {"idle", "holding", "released", "pending", "dead"}]

\* The business code of an owner is running: in its process, its container or
\* its local command.
Business(o) == Executing(o) \/ o \in container \/ child[o] \in Commanding

\* The same without an orphan: a local command whose owner was killed between the
\* check of the wrapper and its commit, and which a stop may therefore miss.
Known(o) == Executing(o) \/ o \in container \/ child[o] = "running"

\* docs/research/README.md, line 24: the locks are released only after the process
\* group, the child processes and the containers are confirmed to be gone.
ReleasedIsStopped == \A o \in finished : ~Business(o)

\* docs/research/README.md: a job that was started and whose result cannot be
\* confirmed is not run again; only an attempt that never registered is requeued.
RunsAtMostOnce == \A j \in Requests : Cardinality(ran[j]) <= 1

\* No two owners run with conflicting needs, in process, container or local
\* command: locks are freed only after those are gone, whatever crashed in between.
\* Only an orphan may run beside the next owner.
ExclusiveAccess ==
    \A o, p \in Owners :
        (o # p /\ Known(o) /\ Known(p)) =>
            \A d \in Needs[o[1]], e \in Needs[p[1]] :
                d[1] = e[1] => d[2] = "read" /\ e[2] = "read"

\* Never more jobs run than the capacity, also when a worker starts late or a
\* container or a local command outlives its worker; orphans are not counted.
CapacityRespected ==
    Cardinality({ a \in Attempts : Known(a) }) <= Capacity

\* The jobs that wait or are active
Load == { j \in Requests : status[j] \in {"queued"} \cup Active }

\* The load stays within the two bounds together: submissions that race for the
\* last place do not both get it, and although a start that is put back enters the
\* queue without a test, it only returns the place it had.
LoadBounded == Cardinality(Load) <= MaxQueued + Capacity

\* A lock belongs to the current attempt of an active job or to a command whose
\* release is still to come: none is leaked by requeueing, settling or a crash.
NoLeakedLocks ==
    \A l \in locks :
        /\ l.owner \notin finished
        /\ IF l.owner[2] = 0 THEN cli[l.owner[1]] \in {"holding", "pending", "dead"}
           ELSE Current(l.owner) /\ status[l.owner[1]] \in Active

\* A settled job runs no more code but that of an orphan, and has a published
\* result exactly when it succeeded.
SettledIsQuiet ==
    \A j \in Requests :
        /\ status[j] \in Terminal => \A n \in Numbers : ~Known(<<j, n>>)
        /\ j \in published <=> status[j] = "succeeded"

\* A settled job stays as it is, and no step turns a cancellation into a success.
\* Once the code of a job has begun its cancellation is final: the job stays in it
\* or is settled without a success.  (A cancellation in the clean-up of a start
\* that never ran may still be put back.)  ImplementsLife contains this.
NotOverwritten ==
    [][\A j \in Requests :
          /\ status[j] \in Terminal => status'[j] = status[j]
          /\ status[j] = "cancelling" => status'[j] # "succeeded"
          /\ status[j] = "cancelling" /\ ran[j] # {} =>
                 status'[j] \in {"cancelling"} \cup (Terminal \ {"succeeded"})]_vars

\* A notification is sent at most once, also when the daemon crashes while it
\* sends, and only for a settled job.  ImplementsLife contains this.
ToldOnce == \A j \in Requests : told[j] <= 1 /\ (told[j] = 1 => status[j] \in Terminal)

Life == INSTANCE JobLife WITH
    Jobs <- Requests,
    life <- [j \in Requests |-> IF status[j] \in {"starting", "running"} THEN "taken"
                                ELSE status[j]],
    runs <- [j \in Requests |-> Cardinality(ran[j])],
    results <- published

\* The runtime keeps the promise of JobLife: behind the attempts, snapshots and
\* transactions of daemon and workers every job goes through one life, in which
\* it runs once, is put back only before it runs, is settled as cancelled only
\* after it was stopped, and does not succeed once it was stopped in its run.
ImplementsLife == Life!Spec

\* Every admitted job is settled in the end, also when its code never returns:
\* its budget runs out and reconcile stops it, unless an operator stops the runtime.
\* That a daemon which died is started again is assumed of the operators.
EventuallySettled ==
    \A j \in Requests : (status[j] # "none") ~> (status[j] \in Terminal \/ drain)

\* runtime.py says WORKER_LOST of a worker that "exited without a committed
\* completion": an attempt that committed its success is not settled as lost.
CompletionNotLost ==
    [][\A j \in Requests : completion[j] = "succeeded" => status'[j] # "lost"]_vars
=============================================================================
