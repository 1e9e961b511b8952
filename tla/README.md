# AlphaPilot in TLA+

AlphaPilot is a quantitative research and trading platform. Most of its code is
numerical and sequential; what can go wrong in ways a test hardly reaches is
concentrated in two places, and this project is about them:

* **live trading**: a deployment that operators start, pause and resume, the
  recoverable execution of a target portfolio, the guarded path of every order
  and the bookkeeping of what the broker reports (`alphapilot/systems/trading`,
  `alphapilot/systems/live`, `plugins/alphapilot_broker_xcommon`);
* **the research task runtime**: a daemon that runs jobs in worker processes
  under locks, and the schedules that submit them (`alphapilot/research`).

All paths below are relative to `src/`.

## 1. Inventory

### 1.1 Live trading

| component | state | operations | interacts with |
|---|---|---|---|
| Execution planner, `systems/trading/planning.py` | none | `plan`: target against account, cut into children with stable references | called by the coordinator |
| Execution coordinator, `systems/trading/execution.py` | none of its own; a phase, a payload and child indices in the store | `begin`, `advance` (one phase), `recover`, `pause` | store (one commit per call), account port, route port |
| Store, `systems/trading/store.py` | SQLite: plans, child orders, fills, decisions, deployments, runtime rows | one transaction per method; a version column on runtime rows | daemon, web application, command line |
| Execution adapter, `systems/live/execution_adapter.py` | none | `submit_child`, `child_statuses`, `child_fills`, account snapshot | reads the OMS of the runtime |
| OMS, position book, order FSM, `systems/live/oms.py`, `position.py`, `fsm/order_fsm.py` | orders, active orders, trades, holdings, account | `on_order`, `on_trade`, `on_position`, `on_account`, day roll | fed by the gateway's dispatch thread, read by the daemon thread |
| Gateways, dispatcher, `systems/live/brokers`, `dispatch.py`, `plugins/alphapilot_broker_xcommon` | cached orders, a queue of callbacks, a timer | send, cancel, query, poll | SDK threads fill the queue, one worker drains it |
| Live engine, run mode, risk, `engine.py`, `fsm/runmode_fsm.py`, `risk.py` | halted or not, counters of the day, seen references | `submit`, `cancel`, `halt`, `resume`, `handle_disconnect` | gateway, ledger |
| Ledger and recovery, `ledger.py`, `recovery.py` | append-only log | record; rebuild the risk state after a restart | engine, broker queries |
| Instance runner, `instance_runner.py` | paused, stopped, reconcile required | `step`, `pause`, `resume`, `reconcile_recovery`, `mark_reconciled`, `stop` | coordinator, store, session clock |
| Daemon and control, `daemon.py`, `control.py`, `runtime.py` | process, command files, heartbeat | main loop, commands | runner, deployment |
| Deployment and authorization, `systems/trading/deployment.py`, `authorization.py` | desired and observed state, route block | `start`, `pause`, `reconcile`, `resume`, `stop`, `authorize` | store, daemon through control with a timeout |

Hard behaviour: the coordinator thread and the dispatch thread run side by
side; the order report and the fill report of one trade are two callbacks;
every store call commits by itself, so a crash falls between any two; reports
lag behind the broker; a restart starts with an empty OMS; commands to the
daemon can time out and be carried out later.

What makes it correct: an order goes out at most once; whatever went out can be
recovered; the two sides of the book are never worked together; a completed
plan has reached its target; nothing is traded beyond the target; a paused plan
sends nothing; every plan comes to rest; the limits of a day hold over
restarts; a halt, a kill switch or a confirmed pause stops the orders; no
runner trades before it was reconciled; what the OMS takes for working works at
the broker, and its holdings come to agree with the broker's.

### 1.2 Research tasks

| component | state | operations | interacts with |
|---|---|---|---|
| Task service, `research/tasks.py`, `store.py` | table `jobs` with idempotency keys | `submit`, `cancel`, `delete` | any client process |
| Task runtime, `research/runtime.py` | `runtime.lock`, the rows it works on | `tick`: reconcile, claim, launch, notify; drain | workers, locks |
| Worker, local commands, `runtime.py`, `process.py` | an execution row with the identity of the process | register, run, commit a completion, exit | containers, child processes |
| Locks and handles, `research/execution.py` | tables `locks`, `executions`, `child_processes` | `acquire`, `release`, `hold`, `alive`, `stop` | foreground commands |
| Schedules, `research/schedules.py` | one JSON payload and a revision each | `run_due`, edits | task service |
| Checkpoints and artifacts, `checkpoints.py`, `artifacts.py` | files | save, stage, load, publish | workers |

Hard behaviour: daemon, workers, clients and foreground commands share the
tables and nothing else; a worker can be slow, killed or orphaned; the daemon
can die between any two transactions; a stop may not be confirmable.

What makes it correct: business code of a job runs at most once; conflicting
owners never run together; locks are neither leaked nor freed early; capacity
and queue are respected; a settled job is quiet and is not overwritten; every admitted
job is settled; a schedule runs once on every day it is wanted, and an edit is
never lost.

### 1.3 The rest

Data, factor, backtest, selection, strategy and timing systems, the agent
framework (`core`, `components`, `oai`), the feature modules, portal and
vendored miners: numerical pipelines, I/O and thin callers. They are listed in
`PROJECT.json` with the reason each is left out.

## 2. Modules

| module | models | kind |
|---|---|---|
| `Planner` | `planning.py` | operators |
| `Execution` (extends `Planner`) | `execution.py`, the store rows it writes, the adapter, the OMS as the adapter reads it; the broker as its environment | state machine |
| `SellThenBuy` | what the execution of a target promises the account | abstract specification |
| `ExecutionProofs`, `PromiseProofs`, `AccountProofs` | lemmas on the planner and the journal; sides and replans; the account | proofs |
| `LiveEngineProofs`, `DeploymentProofs`, `OmsProofs`, `TaskRuntimeProofs`, `SchedulesProofs` | theorems on the module of that name | proofs |
| `LiveEngine` | `engine.py`, `risk.py`, `fsm/runmode_fsm.py`, `fsm/connection_fsm.py`, `recovery.py`, the state file of `runtime.py` | state machine |
| `Deployment` | `deployment.py`, `control.py`, `authorization.py`, `routing.py`, the commands of `daemon.py`, the life of `instance_runner.py`, rows of `store.py` | state machine that composes them |
| `Oms` | `vendor_common.py`, `brokers/base.py`, `dispatch.py`, `oms.py`, `position.py`, `fsm/order_fsm.py`, the queries of `runtime.py` | state machine |
| `TaskRuntime` | `tasks.py`, `runtime.py`, `execution.py`, `process.py` | state machine |
| `JobLife` | what the runtime promises the owner of a job | abstract specification |
| `Schedules` | `schedules.py`, with `tasks.submit` as one step | state machine |
| `MCExecution` (3 cfgs), `MCLiveEngine` (1), `MCDeployment` (2), `MCOms` (1), `MCTaskRuntime` (4), `MCSchedules` (1) | instances | |

How they fit together: an operation of `Deployment` lets the runner advance a
plan; the plan is the machine of `Execution`; each of its submissions passes
`Authorized` of `Deployment` and then `SubmitCheck` of `LiveEngine`; what the
broker reports comes back through `Oms`, which `Execution` reads in the coarser
form of `DeliverOrder`, `DeliverFills` and `PollPositions`. Each module keeps
the parts of its neighbours that its properties depend on and no more: the plan
is four phases in `Deployment`, the engine is one flag there, an order is a
reference in `LiveEngine`. `Schedules` submits into the table of `TaskRuntime`.

### 2.1 Planner

The delta of an instrument is target minus (holding plus working orders). A
delta below one lot is left alone; a sell is capped by the sellable volume; a
volume is floored to lots and cut into chunks numbered from the next child
index. A reference is `<<instrument, side, index>>`. Prices are left out, so the
value caps become `MaxChunk` shares; a quote only counts through the sides on
which it forbids trading (`locked`).

### 2.2 Execution

Variables are grouped by who loses them in a crash. The store rows (`phase`,
`plan`, `replans`, `next`, `journal`, `captured`) survive; the coordinator's
thread (`pc`, `todo`, `cur`, `accepted`, `submitted`) and the OMS (`seen`,
`applied`, `pos`, `yd`, `work`) do not; the broker (`ord`, `hold`, `ydtrue`)
lives elsewhere.

| code | actions |
|---|---|
| `begin` | `Begin` |
| checks at the head of `advance` | `AdvanceExpired`, `AdvanceBoundary`, `AdvanceShadow`, `AdvanceDisabled` |
| PLANNED | `AdvancePlanned` |
| `_route_phase` | `RouteStart`; per child `RouteSkip`, or `RouteJournal`, `SubmitAccepted` or `SubmitDenied`, `RouteAck`; then `RouteWait` or `BuyWait` |
| `_wait_phase` | `SellWait`, `BuyWait` and the poll in `FinalReconcile` |
| `_refresh`, `_final_reconcile` | `AdvanceRefresh`, `FinalReconcile` |
| `pause`, `recover` | `OperatorPause`, `Recover` |
| a crash, a new process after its broker refresh | `Crash`, `CrashReporting`, `Restart` |
| dispatch thread | `DeliverOrder`, `DeliverFills`, `PollPositions` |
| broker, world (external) | `BrokerAccept`, `BrokerFill`, `BrokerClose`, `Expire`, `External` |

The routing loop is cut at each store write and at the submission.
`CrashReporting` is a crash inside `_wait_phase` or `recover`: the rows are
written one by one, the fills after all rows. `FillsFirst` selects the
gateway: the paper broker applies a fill before the order report that counts
it, the XTP-family gateway emits the order first.

`Restart` is what the queries of `LiveRuntime.start` make of a new OMS: it has
asked for positions, and the answers with the orders and the fills of the day
are delivered afterwards, one by one. The fills are applied to positions that
contain them already, so the book of a restarted process counts them twice.

Simplifications: a poll and a snapshot read the OMS in one step; the children
of one side are routed in any order (the code goes through the list); a fill
callback carries all fills not yet applied; a restart has its answer with the
positions before the first step of the runner.

### 2.3 TaskRuntime

Every write transaction is one action, and so is every read whose result is
used later: `Tick` reads the rows of `reconcile` into `snap`, and the branches
(`ScanStarting`, `ScanRunning`, `ScanOver`, `StopConfirmed`, `StopUnconfirmed`,
`Finalize`) work on what was read. An attempt is `<<job, number>>`. Time is a
choice of the clock: `aged` are attempts older than 30 seconds, and a running job
is beyond its budget at some scan (`ScanOver`).

Jobs and foreground commands run their code in their own process, in a container
or in a local command, the default of the repository (`USE_LOCAL`). The wrapper
of a local command (`process.py`) checks its owner and commits its row in one
transaction, `ChildCheck` and `ChildRun`; nobody else writes between them
(`Writable`), but the owner may be killed, and the command is then an **orphan**:
`ExecutionHandle.stop` reads `child_processes` before the commit and misses it.
A stop kills what it finds (`StopConfirmed`); a stop that is not confirmed may
have done any part of that, all of it included when only Docker does not answer
(`StopPartly`). The foreground commands that died or left their cleanup behind
are stopped and released one at a time at the end of `reconcile`
(`StandaloneStop`, `StandaloneRelease`, `StandaloneEnd`).

A daemon that died stays down until somebody calls `ensure_running`: a
submission (`SubmitReturn`), `task_runtime start` (`Start`), or a portal that
starts and a schedule control (`Portal`).

Simplifications: payloads, progress, manifests and artifacts are left out; one
local command per owner stands for all; lock scopes are not nested. The test of
the key and the insert are one transaction in the code, behind which
`UNIQUE(client_id, idem_key)` stands as a second guard; that a key admits one job
therefore holds by the shape of the table, and no property is spent on it.

`JobLife` is the view of a client: a job is queued, taken, being cancelled or
settled; it has begun its code or not, has a published result or not, and was
told of or not. The mapping (`Life` in `TaskRuntime`) takes starting and running
together as taken and forgets attempts, locks, processes and the daemon.

### 2.4 LiveEngine

The main thread of the daemon and the dispatch thread share the engine without
a lock. What a crash destroys is `halted`, `gate`, `equity`, `known`, `main`,
`disp`; what survives is the ledger and `file`, the risk section of
`runtime_state.json`.

| code | actions |
|---|---|
| `LiveEngine.submit` | `SubmitCheck`, then `SendOrder` or `SendFails`, then `AuditSubmit`; after a loss `LossHalt` |
| `RiskGate.check`, `check_equity`, `restore` | `Admits`, `Counted`, `CheckEquity`, `Restored` |
| `halt`, `resume`, `cancel` commands | `OperatorHalt`, `OperatorResume`, `Cancel` |
| `on_account` with its halt, `on_order`, `on_gateway_disconnected` | `AccountUpdate`, `DispatchHalt`, `OnOrder`, `Disconnect` |
| `reconnect`, with `auto_resume` or without | `Reconnect`, `ReconnectFails` |
| `RecoveryService.run`, start of a process | `Recover`, `Start` |
| `write_state` | `WriteState`, and `Save` inside the commands |
| a crash, midnight, the broker (external) | `Crash`, `DayRoll`, `BrokerDone` |

Simplifications: rules of the gate without a memory (session, lot, price, cash,
position) are left out, so every order that is new and within the count may
pass; the turnover of the day is bounded like the count; the start of a process
is one step. `Limits` is the set of configurations of the gate, one of which a
behaviour has for good. Midnight (`DayRoll`) falls between two submissions,
whether the process lives or not; since nothing calls `reset_day`, a living one
carries counters, references and baseline over, and `carried` remembers which.
`LateAccount` names a behaviour the run excludes, see section 3.

### 2.5 Deployment

A client's operation goes through `Begin` (read the row), `Write` (block the
routes, write what is wanted under the version that was read), `Dispatch` (send a
command) or `SpawnCheck` and `Spawn` (test for a daemon, start one), the wait (`SpawnSeen`, `Timeout`,
`Terminate`, or an answer of the daemon), and `Finish` (write what was told,
without a version); `Continue` and `Unblock` are the chain of `start` in
SIMULATION and the end of `resume`. `Status` and `Configure` are one
transaction each. The daemon carries out the head of the command file
(`ExecPause`, `ExecReconcile`, `ExecResume`, `ExecStop`, `ExecStart`) and steps
the runner (`StepIdle`, `StepPlan`, `StepWait`, `StepHalt`, `StepRoute`,
`StepDenied`, `SendOrder`), with a heartbeat to the row after each. A command
whose client has given up stays in the file and is carried out later for
`Nobody`.

Simplifications: the version column is the set `fresh` of clients whose read is
still current; the binding matches; heartbeat ages are a choice (`StepDenied`);
`WARMING_UP` counts as running without anything to plan.

`start_daemon` tests, launches and writes `daemon.json` without a lock, so two
starts can launch two daemons. The module reaches that point (`SpawnSecond`) and
ends there (`OneDaemon` in `Next`): its properties are about a deployment with
one daemon. Two daemons would share a command file and a store, and each would
have its own OMS, engine and runner.

### 2.6 Oms

The counter is external; it pushes an order report for each change of state and
a trade report for each lot, and answers queries. The process posts the own
record of an order after `send_order` has returned (`Send`, `PostLocal`), polls
positions (`Poll`), and asks for positions, orders and trades when it starts or
recovers (`Recover`, `Restart`, `Reply...`). The dispatch thread takes one
callback at a time (`HandleLocal`, `HandleOrder`, `HandleTrade`,
`HandleReplay`, `HandlePosition`), each with its effect on the order cache of
the gateway, the order FSM and the position book.

A fill is an order and the number of its lot; `Remaining` is the set of lots an
order has still to trade, and the frozen volume of the position book counts
those of the sells that work. The total in the gateway's cache may be one too
high, after the trade callback of a last lot that the cache contains already;
the order FSM keeps that from the order in the OMS, and `NeverAhead` says so.

Simplifications: one instrument that settles T+1, fills of one lot, no prices
or cash.

### 2.7 Schedules

`save` is `Insert` or `Edit`, `delete` is `Delete`; `run_due` is `RunDue` (one
reading of rows and clock), for each row `SubmitNew` or `SubmitAgain` (the
idempotency key is new or taken) and `Store` (the UPDATE under the revision that
was read). A submission can fail before or after its job is committed.

Simplifications: time zones are left out; refused edits change nothing and are
not actions; `run` leaves the table alone and is a submission of `TaskRuntime`.
`Upsert` is the update that inserts a row when it finds none, which only the
trusted facade in `modules/portal/schedules.py` allows.

## 3. Runs

All runs finish in less than four minutes with two workers.

| run | shows |
|---|---|
| `exec_crash` | one crash at any cut, fills before orders: `SubmitAtMostOnce` and `JournalCoversBroker` over the crash; `NoDuplicateOrder`, `CompletedIsTrue`, `CountedOnce` and `FillsDurable` in the process that began the plan; `TypeOK` |
| `exec_disturbed` | reports in any order, odd lots, a lot of 2, locked quotes, expiry, foreign orders, malformed fills, position polls, operator pauses: `SellsBeforeBuys`, `ReplanIsFresh`, `StoppedSendsNothing`, `ImplementsPromise` (the refinement of `SellThenBuy`) and, under fairness, `ComesToRest` |
| `tasks_crash` | a reading job and a writing command in process, container or local command; daemon crash, slow worker, stop that is not confirmed, cancellation, drain: `RunsAtMostOnce`, `ExclusiveAccess`, `NoLeakedLocks`, `SettledIsQuiet`, `ImplementsLife` (the refinement of `JobLife`, which contains `NotOverwritten` and `ToldOnce`), `TypeOK` and, under fairness, with business code that need not return, `EventuallySettled` |
| `tasks_load` | three requests, two of them under one key, capacity one and a queue of one: `CapacityRespected`, with containers and local commands that outlive their worker |
| `engine_crash` | submissions against account updates, disconnects, halts, resumes, reconnects and recoveries, a crash at any cut, and a second day that begins with the process up or down: `CountsToday` and `DailyCapHolds` (the limits of the day, up to the one order per crash whose ledger entry is missing), `AtMostOneAfterHalt`, `LossStopHolds`, `LatchedUntilResumed` |
| `deploy` | one daemon, two clients, three operations, commands that time out and are carried out later, kill switch, engine halt, crash: `PauseHolds` (a pause or stop that was confirmed), `AtMostOneAfterShut` (a kill switch or a failure that was reported), `RoutesOnlyAfterReconcile` (a runner sends nothing before it was reconciled) |
| `oms` | own records, pushes, polls, a recovery and a restart in any order: `ActiveIsTrue` (what the OMS takes for working works, once the callbacks are handled), `NeverAhead` (at any time, what is over in the OMS is over at the broker, and nothing has traded more there), `TypeOK` and, under fairness, `HoldingHeals` |
| `schedules` | edits, deletions, pauses, deleted jobs, a crash or a failed submission at any point of a round: `OncePerDay`, `EditSurvives`, `AtMostOneStray` and, under fairness, `RunsDaily` |

Runs that end in a counterexample, each against a sentence of the repository:

| run | disagreement |
|---|---|
| `exec_late_fill` | the comment before the comparison in `_final_reconcile` wants post-report truth so that a late fill causes no duplicate replan; with the order report ahead of its fill `_refresh` orders the filled volume again (`NoDuplicateOrder`) |
| `tasks_lost` | a worker that commits and exits between the query and the test for life is settled as lost (`CompletionNotLost`) |
| `tasks_orphan` | the research guide says that locks are released only when the process group, the children and the containers are confirmed gone; a local command whose worker is killed between the check of the wrapper and its commit is not found by the stop and runs on (`ReleasedIsStopped`). `ExclusiveAccess`, `CapacityRespected` and `SettledIsQuiet` except this orphan and nothing else |
| `deploy_paused` | a reconciliation is to make a deployment resumable; `strategy_reconcile` pauses every unfinished plan first, and a paused plan is a warning of the recovery that follows, so that it never succeeds again (`ReconcileClears`) |

What TLC also finds, each one change of a constant or of a stated exception
away, and not kept as a run:

* `FillsDurable` without its exception for crashes: a crash between the
  terminal row of a child and its fill rows lets the plan go on without them
  ("fill truth must be durable before proceeding", `execution.py`).
* A cancellation that arrives during the clean-up of a late start finds the job
  in `cancelling` with `stop_final` queued; the job runs again (`tasks.cancel`).
* A start during the last moments of a draining daemon finds its lock taken and
  starts nothing (`runtime.ensure_running`); the queue waits for the next caller.
* `CountsToday` without `carried`: `reset_day` and `roll_new_day` are called by
  tests only, so a daemon that lives through midnight keeps the references of
  yesterday (`risk.py` asks for the call at the session roll). The limits err on
  the safe side: `DailyCapHolds` is not violated, but orders of the new day are
  refused. The loss stop goes on measuring from the baseline of the day before.
* A committed success whose clean-up cannot be confirmed, because Docker does not
  answer, is settled as lost (`reconcile`), which `JobLife` allows.
* `LossStopHolds` with `LateAccount = TRUE`: when the account arrives after the
  1.5 seconds a recovery waits, the saved baseline is not trusted and the day is
  measured from the present equity.
* `RoutesOnlyAfterReconcile` asks for a reconciliation of the runner that sends.
  It does not say that somebody asked to go on after that reconciliation: with
  three clients a resume that was written for the runner before lets the next
  one trade as soon as it is reconciled.
* Positions are queried before trades, so a restarted process counts the fills of
  the day twice until the next poll. In `Oms` `HoldingHeals` is about the repair;
  in `Execution` `NoDuplicateOrder`, `CompletedIsTrue` and `CountedOnce` are
  refuted at once for a process that was restarted, and except it.
* `EditSurvives` with `Upsert = TRUE`: a schedule that is deleted and inserted
  again by a late update has revision 1 again, and a round that read the old
  revision 1 overwrites it.

Three properties hold, in the process that began the plan, for a gateway that
applies fills before orders and whose positions never overtake a fill:
`NoDuplicateOrder`, `CompletedIsTrue` and `CountedOnce`. The paper broker is one:
it works in the thread of its caller and pushes a position only after the trade
it contains (`brokers/paper.py`), so that the OMS overwrites a book with the same
book. With the polls of the XTP family TLC refutes each of them: a polled
position that contains a fill and the queued trade of that fill are both counted
by `PositionBook`, the book is wrong until the next poll, and a replan or the
final comparison may use it. `SubmitAtMostOnce`,
`JournalCoversBroker`, `SellsBeforeBuys`, `ReplanIsFresh`, `ImplementsPromise`
and `StoppedSendsNothing` do not depend on the gateway: their theorems allow
polls and every order of the reports.

### Bounds

* Execution: two instruments, one to sell and one to buy, since the properties
  relate two sides and two children of one side; books of two or three shares
  with chunks of one lot, so that a side has two children and an order can fill
  in part in `exec_disturbed`; two replans in `exec_crash`, the least bound that
  allows a replan after a replan, one in `exec_disturbed`; one crash reaches
  every cut, since a restart forgets all that is not in the store.
* TaskRuntime: one job and one command suffice for lock conflicts, three requests
  for capacity, queue and a shared key; each kind of trouble (`MaxCrashes`,
  `MaxSlow`, `MaxUnconfirmed`, `MaxCancels`, `MaxDrains`) happens at most once in
  `tasks_crash`, and two of them together (`MaxFaults`): pairs are what the
  recovery code has to sort out, and one fault more adds states but no new
  action. Killed workers, dead commands and budgets are not bounded.
* LiveEngine: two interchangeable references and two configurations. Under a cap
  of one order with a daily stop of 20 % the cap decides, since either reference
  alone passes the test for duplicates; under a cap of two with a canary stop of
  20 % only the test for duplicates keeps a reference from being sent twice.
  Equity falls from 10 to 8, past either stop; one crash, two days.
* Deployment: two interchangeable clients and three operations, the least number
  for start, resume and a third that interferes (in SIMULATION one start chains
  all three steps of going live); one fault. `deploy_paused` is LIVE with one
  client and four operations.
* Oms: one buy and one sell of two lots each, so that an order can be partly
  filled; up to three callbacks before nothing more is posted; one recovery and
  one restart.
* Schedules: one schedule, since rows do not interact; two times and two inputs,
  which decide whether a key is new, taken or in conflict (the owner is a third
  part of the key and behaves like the time); two days, three saves, one fault.

The theorems in section 4 hold without these bounds. Deadlock is
checked in `engine_crash` and `oms`; elsewhere the system may rest: a plan that
is completed or paused, a table of settled jobs, a deployment that is stopped, a
schedule that has run.

### Fairness

`Execution`: the daemon loop steps the runner again and again and
`advance` never blocks (`Begin`, `Advance`); the dispatch thread drains its
queue (`Deliver`); a supervisor restarts the process (`Restart`); an exchange
closes every order by the end of the day (`Broker`). No fairness on
crashes, polls, operators or the clock. `TaskRuntime`: the loop of the daemon
and the transactions of a client go on; a process that was launched and not
killed registers; time passes, so that a job that runs for ever is beyond its
budget at some scan; a foreground command ends, and the stop of one that was left
behind is confirmed at some tick. `Portal` is an assumption on the operators: no
code restarts a daemon that died, and `EventuallySettled` needs somebody who
does. Nothing is assumed of the business code of a job. `Oms`: the dispatch thread and the poll timer run,
`send_order` returns, queries are answered; nothing is assumed of the market.
`Schedules`: the daemon ticks, a round goes on, the minute of a retry passes; a
submission fails for a passing reason only a bounded number of times (a revoked
credential fails for ever and is excluded). `LiveEngine` and
`Deployment` state safety only: what happens next there is up to operators.

## 4. Proofs

Every theorem is about all values of the constants: universes, books, clients,
requests, keys, needs, caps, and any number of crashes, operations, days and
delays. The assumptions on constants are those the modules declare
(`PlannerAssumption`, `ExecutionAssumption`, `LiveAssumption`,
`DeploymentAssumption`, `OmsAssumption`, `RuntimeAssumption`,
`SchedulesAssumption`): types, finite sets of orders and lots in `Oms` and, for
chunks and capacities, positive numbers. A theorem that needs more states
it as an `ASSUME` of its own:

| assumption | when the program meets it | without it |
|---|---|---|
| `"poll" \notin Disturbances` | the paper broker: its positions follow the trade they contain | refuted, section 3 |
| `FillsFirst` | the paper broker: it emits a fill before the order that counts it | refuted by `exec_late_fill` |
| `~LateAccount` | the account arrives within the 1.5 seconds a recovery waits | refuted, section 3 |
| `~Upsert` | every caller but the trusted facade of the portal | refuted, section 3 |

The four theorems on the account (`FillsCountOnce` to `NothingOrderedTwice`) are
about the process that began the plan: their properties say nothing after a
crash, since the book of a restarted process is wrong. The theorems on
`Deployment` are about one daemon, and those on `TaskRuntime` that speak of
running code except orphans.

### Execution

| theorem | statement | argument |
|---|---|---|
| `SubmitOnce`, `JournalCovers` | `Spec => []SubmitAtMostOnce`, `Spec => []JournalCoversBroker` | `JournalInv`: what is at the broker is journalled, and the child about to be sent is journalled and not at the broker. The bare property says nothing about the step before a submission. |
| `Typed` | `Spec => []TypeOK` | The hard case is `next`: a `CHOOSE` of a maximum, which exists because `PlanNumbered` shows the children of a plan to be numbered up to a last one. |
| `SidesApart` | `Spec => []SellsBeforeBuys` | `SideInv`: reports and rows lag behind the broker (a terminal report means a closed order), what is open in a phase belongs to its side of the present plan, and the loop works on that side. `SideClosed` then shows that `_wait_phase` lets go only when the side is closed. |
| `Implements` | `Spec => ImplementsPromise` | `SubmitAccepted` is `Send`, a broker move that closes is `Close`, the rest stutters; step by step under `Inv == TypeOK /\ JournalInv /\ SideInv`. |
| `ReplansFresh` | `Spec => ReplanIsFresh` | `FreshInv`: the next index of an instrument and side lies beyond every reference planned or journalled, and indices never fall. |
| `StoppedSilent` | `Spec => StoppedSendsNothing` | From `LoopOnSide` of `SideInv`. |
| `FillsCountOnce` | no polls: `Spec => []CountedOnce` | `CountInv`: for each instrument the book of the OMS plus what was traded and is not applied, buys minus sells, is the book of the broker; the sells that are not applied are covered by the holding, so that the floor at zero in `PositionBook` never cuts anything off. |
| `FillsAreDurable` | `FillsFirst`: `Spec => []FillsDurable` | `LastInv`: a terminal report was preceded by all fills of its order, and a terminal row by their rows unless a crash came between. `LooseByPhase`: what is not closed, reported and captured belongs to the side the phase works on. |
| `CompletedReached` | `FillsFirst`, no polls: `Spec => []CompletedIsTrue` | When the final comparison is made nothing is loose, so nothing is pending, so by `CountInv` the book that is compared is the broker's; afterwards no order is open that could change it. |
| `NothingOrderedTwice` | `FillsFirst`, no polls: `Spec => []NoDuplicateOrder` | `GapInv`: the true book is the opening book and what was sent, less what orders have not traded yet. `WorkInv`: the working volume of the OMS is what the last reports leave to trade. `UnsentInv`: what was sent for a side and what the plan has still to send stay together within the way from the opening book to the target. A replan finds nothing loose, hence no gap, nothing working and the true book, so its delta is what is left of the way; `ChunkSums` shows that `_chunks` cuts a delta into no more than itself, `PlanDistinct` and `FreshInv` that no child of it was sent before. |

The volume that is traded and not applied is a sum over orders, as are the gaps,
the working volumes and, over children, what a plan has still to send. What a sum is
for every finite set would need induction over data. `AccountProofs` needs less:
`Sums(mu, D, w)` says that `mu` is a table of the sums of the weights `w` over
all subsets of `D`; the invariant says that such a table exists, and each step,
which changes one weight (`SumsSet`) or adds one order (`SumsGrow`), makes the
next table of the last. The initial table is zero; the table of a new plan counts
its full chunks (`ChunkSums`, with `FiniteSetTheorems`).

### LiveEngine

| theorem | statement | argument |
|---|---|---|
| `TypeCorrect` | `Spec => []TypeOK` | with `Tidy`, the fields the provers need beside it |
| `CapHolds` | `Spec => []DailyCapHolds` | `CountInv`: what was sent today is what the ledger counts, what is between sending and its entry, and what crashes have lost; `RefInv`: the same for each reference. The gate is rebuilt from the ledger at a restart, so the bare cap is not inductive. |
| `TodayCounts` | `Spec => []CountsToday` | `TodayInv`, from `CountInv` and `RefInv`: what the gate holds beyond today was there when the day rolled |
| `OneAfterHalt` | `Spec => []AtMostOneAfterHalt` | `AfterInv`: the one submission that passed its checks before the halt is still to come exactly when none has gone out since |
| `Latched` | `Spec => LatchedUntilResumed` | `LatchInv`: a loss mark in the ledger that nobody acknowledged is in the gate, or the process is down and will restore it |
| `StopHolds` | `~LateAccount`: `Spec => []LossStopHolds` | `BaseInv`: the first saved baseline of the day is in the gate, or in the file from which a restart takes it |

### Deployment

| theorem | statement | argument |
|---|---|---|
| `TypeCorrect` | `Spec => []TypeOK` | `PlaceInv` (where each operation can be) and `QueueInv` (a command somebody waits for is the only one of its client) |
| `OneAfterShut` | `Spec => []AtMostOneAfterShut` | `ShutInv`: while a pause, stop or failure stands nobody wants the deployment to run (`WantInv`), and an order that was authorized before leaves first (`LeftInv`) |
| `PauseKept` | `Spec => PauseHolds` | `QuietInv`: once the daemon has carried out a pause that nobody overruled, no order is on its way |
| `ReconciledFirst` | `Spec => RoutesOnlyAfterReconcile` | `CheckInv`: a runner that may go on, or that has an order on its way, was reconciled since it was built |

### TaskRuntime

All rest on `BaseInv`: types, the life of an attempt (`AttemptInv`), which
processes may be left (`ProcInv`), what is true of a row that was read some
steps ago (`RowInv`) and of the row in the daemon's hand (`StopInv`,
`StartInv`), and `CountInv`, by which every attempt but the first is owed to a
crash or a slow start. `RowInv` is the heart of it: `reconcile` acts on a
snapshot, and a row that has gone stale must have become finished.

| theorem | statement | argument |
|---|---|---|
| `TypeCorrect` | `Spec => []TypeOK` | part of `BaseInv` |
| `RunsOnce` | `Spec => []RunsAtMostOnce` | `RanInv`: a job whose code has run is never queued again; only an attempt that did not register is put back |
| `NeverOverwritten` | `Spec => NotOverwritten` | `SettledStays`: each transaction tests the status it finds, not the one that was read; `RanInv`: a cancellation of a job that has run is not put back |
| `ToldAtMostOnce` | `Spec => []ToldOnce` | `ToldInv`: a notification is marked as sent before it leaves, and once only |
| `LoadKept` | `Spec => []LoadBounded` | `LoadInv`: the queue and the active jobs stay within their bounds together. The queue alone does not: a start that is put back enters it without a test, but only returns the place it had among the active |
| `NothingLeaks` | `Spec => []NoLeakedLocks` | `LockInv`: whoever is live holds all its locks, and locks belong to the live or to a command that is about to release |
| `AccessExclusive` | `Spec => []ExclusiveAccess` | `LockInv`, locks that are held together are compatible, and `RunInv`: a local command that its owner has begun runs for an owner that is not released |
| `CapacityKept` | `Spec => []CapacityRespected` | `RunInv`, and `CapacityInv`: no more than `Capacity` jobs are active, counted with `FiniteSetTheorems` |
| `SettledQuiet` | `Spec => []SettledIsQuiet` | `ProcInv`, `RunInv`, `PublishedInv` |
| `LivesKept` | `Spec => ImplementsLife` | `JobEffects` sorts all steps by what they do to the table of jobs; each kind is an action of `JobLife` or a stutter. The mapping needs two facts that no other theorem does (`LifeInv`): a running job has begun its code, and what the daemon holds to settle as cancelled has been stopped, although it was read some steps ago. |

### Schedules

| theorem | statement | argument |
|---|---|---|
| `TypeCorrect` | `Spec => []TypeOK` | `RowInv`, `RoundInv`, `ReadInv`: revisions count edits, a round holds rows it has read |
| `EditsSurvive` | `~Upsert`: `Spec => []EditSurvives` | `RaceInv`: a row whose revision is still the one that was read has not been edited since |
| `OneStray` | `~Upsert`: `Spec => []AtMostOneStray` | `StrayInv`: a schedule is stray once for the round that has read it, and no later round takes it up |
| `OnceADay` | `~Upsert`: `Spec => []OncePerDay` | `OnceInv`: the jobs of a day plus the one a waiting round may still add stay within one and the excuses (edits, failures, crashes) |

### Oms

| theorem | statement | argument |
|---|---|---|
| `TypeCorrect` | `Spec => []TypeOK` | with `Covered`: the sellable part of the holding is the opening one less the lots that were sold, so that the broker never sells what is not there |
| `NeverAheadOfTheBroker` | `Spec => []NeverAhead` | `Cached` and `Behind`, see below |
| `ActiveOrdersAreTrue` | `Spec => []ActiveIsTrue` | `OnItsWay`: an order that the OMS sees otherwise than the broker has a callback on its way that will tell; when all are handled there is none |

What the OMS believes depends on callbacks that are still queued, so `IInv`
describes the queue. `Faithful`: each callback tells a state the order really
had. `Ordered`: the pushed trades of an order wait in the order of their lots,
each behind reports that do not count it yet; the last lot is the exception, its
trade may follow the report that counts it. `Tracked`, for each order: it is
complete at the broker exactly when every lot is traded (`Kept`); the cache can
take the trades that wait and, once it counts every lot, the OMS is closed to it
(`Cached`); the OMS is behind the broker (`Behind`, which is `NeverAhead` and
more); and what the OMS does not know is on its way (`OnItsWay`). `ActiveIsTrue`
is about an empty queue and says nothing of the step that handles the last
callback; `NeverAhead` is not inductive because a trade is applied to the cache
and not to the OMS. `OmsAssumption` asks that the sells together fit into the
holding: a broker with T+1 settlement accepts no others.

TLC finds the inductive invariants to hold on the instances of the runs as well,
except those that speak of tables of sums, which TLC cannot enumerate. Two proofs changed what is claimed: `RoutesOnlyAfterReconcile` had
said more than holds for three clients, and `TypeOK` of `TaskRuntime` needs
`CountInv`, since a bound on attempt numbers is a fact about crashes and delays.

Only model-checked: `ComesToRest`, `EventuallySettled`, `HoldingHeals` and
`RunsDaily`, which are liveness under fairness. Every invariant, action property
and refinement that a passing run checks is also a theorem.

## 5. Not modelled

`PROJECT.json` gives the reason for each part. In short:

* Numerical and sequential code: data preparation, factors, backtests,
  selection, timing, the agent framework and the vendored miners. They are most
  of the repository's lines, keep no state that two actors share, and what could
  be wrong in them is arithmetic, which is out of TLC's reach. This is also why
  the modules cover a small share of all lines: they cover the concurrent core.
* I/O and presentation: portal, HTTP and command line handlers, notification
  channels, the broker acceptance test. They call the modelled operations.
* Of the modelled parts: prices, cash and turnover; the wording of errors;
  release verification and evidence tables of the store; the manual planner and
  its slicing algorithms; the paper and vn.py gateways beyond the order in which
  they deliver.
* A torn read of `AccountSnapshot.from_oms`: `Execution` reads the OMS in one
  step. What a torn read can add, positions without the fill of an order that is
  over, is a state the unordered reports of `exec_late_fill` reach.
* Two decisions of one instance that fall due in one step: `Deployment` has one
  plan at a time.
* What two daemons of one runtime do to each other, once two starts have launched
  them (section 2.5).

## 6. Plan

1. The decision table of the instance runner, with two decisions that fall due
   in one step.
2. Checkpoints and published artifacts.
