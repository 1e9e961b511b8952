----------------------------- MODULE Deployment -----------------------------
(***************************************************************************)
(* The life of one deployment: the coordinator that operators call         *)
(* (systems/trading/deployment.py), the row of deployment_runtime and the  *)
(* route blocks it writes (store.py), the control port and the command     *)
(* file (systems/live/control.py, daemon.py), the daemon with its runner   *)
(* (instance_runner.py) and the authorization of every automated order     *)
(* (authorization.py, routing.py).                                         *)
(*                                                                         *)
(* Several clients (portal requests, command lines) run operations of the  *)
(* coordinator at the same time.  An operation reads the row, writes what  *)
(* it wants under the version it read, sends a command, waits, and writes  *)
(* what it was told without a version.  The daemon is one thread: it       *)
(* carries out commands in the order of the file and steps the runner.     *)
(*                                                                         *)
(* Abstracted: one instance in SIMULATION or LIVE with a binding that      *)
(* matches; a version is the set of clients whose read is still current;   *)
(* a plan is the phase the runner tells apart (Execution models the rest); *)
(* WARMING_UP counts as RUNNING that has nothing to plan.                  *)
(*                                                                         *)
(* start_daemon tests and launches without a lock, so two starts may       *)
(* launch two daemons of one runtime.  The module follows every behaviour  *)
(* up to the second launch and none beyond it: what it says is said of a   *)
(* deployment with one daemon.                                             *)
(***************************************************************************)
EXTENDS Naturals, Sequences, FiniteSets

CONSTANTS
    Clients,      \* concurrent callers of the coordinator
    Nobody,       \* a command whose caller has stopped waiting
    MaxOps,       \* bound on the operations of a behaviour
    MaxFaults,    \* bound on faults, halts of the engine and kill switches
    Live          \* run_mode is live, else simulation

ASSUME DeploymentAssumption ==
    /\ Nobody \notin Clients
    /\ MaxOps \in Nat
    /\ MaxFaults \in Nat
    /\ Live \in BOOLEAN

VARIABLES
    row,      \* the row of deployment_runtime
    fresh,    \* clients that read the row and nobody wrote it since
    block,    \* the route block of scope runtime
    kill,     \* a route block an operator has set as kill switch
    cl,       \* the operation each client is in
    queue,    \* the commands the daemon has not carried out
    daemon,   \* the daemon process
    file,     \* the runner's lifecycle in the status file of the daemon
    runner,   \* the flags of StrategyInstanceRunner
    plan,     \* the unfinished execution plan of the instance
    ops,      \* operations so far
    faults,   \* faults so far
    \* history
    shut,     \* why no order should leave, as the operators were told
    left,     \* orders that left meanwhile
    checked   \* the present runner was reconciled since it was built or halted

vars == <<row, fresh, block, kill, cl, queue, daemon, file, runner, plan,
          ops, faults, shut, left, checked>>

history == <<shut, left, checked>>

Ops == {"start", "pause", "reconcile", "resume", "stop", "status"}

Desired == {"ready", "paused", "running", "stopped"}

Observed == {"ready", "pending", "paused", "running", "stopped", "error"}

Rows == [desired: Desired, observed: Observed, rid: 0..MaxOps, bound: BOOLEAN,
         need: BOOLEAN, reconciled: BOOLEAN]

\* pc: where the operation is; n: its number; rid: the runtime it expects;
\* ok, life: what it was told; over: a resume was written since it wrote;
\* chain: it is part of a start that goes on to reconcile and resume.
Operations == [op: Ops \cup {""},
               pc: {"idle", "cas", "send", "spawn", "launch", "second", "up",
                    "await", "kill", "done", "next", "unblock"},
               n: 0..MaxOps, rid: 0..MaxOps, ok: BOOLEAN, life: Observed,
               over: BOOLEAN, chain: BOOLEAN]

Free == [op |-> "", pc |-> "idle", n |-> 0, rid |-> 0, ok |-> FALSE,
         life |-> "ready", over |-> FALSE, chain |-> FALSE]

Commands == [op: Ops, to: Clients \cup {Nobody}]

Daemons == [alive: BOOLEAN, rid: 0..MaxOps, pc: {"loop", "send"},
            halted: BOOLEAN]

StatusFiles == [now: Observed \cup {""}, last: Observed \cup {""}]

Runners == [paused: BOOLEAN, need: BOOLEAN, stopped: BOOLEAN]

TypeOK ==
    /\ row \in Rows
    /\ fresh \subseteq Clients
    /\ block \in BOOLEAN
    /\ kill \in BOOLEAN
    /\ cl \in [Clients -> Operations]
    /\ queue \in Seq(Commands)
    /\ daemon \in Daemons
    /\ file \in StatusFiles
    /\ runner \in Runners
    /\ plan \in {"none", "open", "working", "refused", "paused"}
    /\ ops \in 0..MaxOps
    /\ faults \in 0..MaxFaults
    /\ shut \subseteq {"paused", "failed", "killed"}
    /\ left \in Nat
    /\ checked \in BOOLEAN

\* Mutant: a new runner counts as reconciled.
NewRunnerTrusted == [paused |-> TRUE, need |-> FALSE, stopped |-> FALSE]

\* StrategyInstanceRunner.__init__ for an external account.
NewRunner == [paused |-> TRUE, need |-> TRUE, stopped |-> FALSE]

NoDaemon == [alive |-> FALSE, rid |-> 0, pc |-> "loop", halted |-> FALSE]

\* StrategyInstanceRunner.status: its lifecycle.
Lifecycle(r) ==
    CASE r.stopped -> "stopped"
      [] ~r.stopped /\ r.need -> "pending"
      [] ~r.stopped /\ ~r.need /\ r.paused -> "paused"
      [] OTHER -> "running"

\* The row as configure_deployment leaves it.
Configured == [desired |-> "ready", observed |-> "ready", rid |-> 0,
               bound |-> FALSE, need |-> FALSE, reconciled |-> FALSE]

Init ==
    /\ row = Configured
    /\ fresh = {}
    /\ block = FALSE
    /\ kill = FALSE
    /\ cl = [c \in Clients |-> Free]
    /\ queue = <<>>
    /\ daemon = NoDaemon
    /\ file = [now |-> "", last |-> ""]
    /\ runner = NewRunner
    /\ plan = "none"
    /\ ops = 0
    /\ faults = 0
    /\ shut = {}
    /\ left = 0
    /\ checked = FALSE

-----------------------------------------------------------------------------
(***************************************************************************)
(* The coordinator, one operation per client at a time.                    *)
(***************************************************************************)

Told(c, ok, life) == [cl[c] EXCEPT !.pc = "done", !.ok = ok, !.life = life]

\* Mutant: only the last command is looked at.
ShownLast == file.last

\* _from_status with status_only: the runner as the last command left it,
\* when a command has answered since the daemon came up.
Shown == IF file.last # "" THEN file.last ELSE file.now

\* _binding_error for a daemon that runs: its runner is known and its runtime
\* is the one expected, if one is.
Bound(rid) == daemon.alive /\ file.now # "" /\ rid \in {0, daemon.rid}

\* _instance and, for resume, the test of reconcile_required.
ReadRow(c, op, n, chained) ==
    IF op = "resume" /\ row.need
    THEN /\ cl' = [cl EXCEPT ![c] = Free]
         /\ UNCHANGED fresh
    ELSE /\ cl' = [cl EXCEPT ![c] = [Free EXCEPT !.op = op,
                                      !.n = IF op = "start" THEN n ELSE 0,
                                      !.pc = IF op = "status" THEN "send" ELSE "cas",
                                      !.rid = row.rid, !.chain = chained]]
         /\ fresh' = fresh \cup {c}

\* A client calls lifecycle_action.
Begin(c, op) ==
    /\ cl[c].pc = "idle"
    /\ ops < MaxOps
    /\ ops' = ops + 1
    /\ ReadRow(c, op, ops + 1, FALSE)
    /\ UNCHANGED <<row, block, kill, queue, daemon, file, runner, plan,
                   faults, history>>

\* start in SIMULATION goes on to reconcile, and then to resume.
Continue(c) ==
    /\ cl[c].pc = "next"
    /\ ReadRow(c, IF cl[c].op = "start" THEN "reconcile" ELSE "resume",
               cl[c].n, TRUE)
    /\ UNCHANGED <<row, block, kill, queue, daemon, file, runner, plan,
                   ops, faults, history>>

\* What each operation writes before it sends its command.
Intended(c) ==
    CASE cl[c].op = "start" ->
             [row EXCEPT !.desired = "paused", !.need = TRUE, !.reconciled = FALSE,
                         !.bound = TRUE,
                         !.rid = IF cl[c].rid = 0 THEN cl[c].n ELSE cl[c].rid]
      [] cl[c].op = "pause" -> [row EXCEPT !.desired = "paused"]
      [] cl[c].op = "reconcile" -> [row EXCEPT !.desired = "paused", !.need = TRUE]
      [] cl[c].op = "resume" -> [row EXCEPT !.desired = "running"]
      [] cl[c].op = "stop" -> [row EXCEPT !.desired = "stopped"]

\* A pause or stop that is on its way.
Halting(c) ==
    /\ cl[c].op \in {"pause", "stop"}
    /\ cl[c].pc \in {"send", "await", "kill", "done"}

\* UPDATE deployment_runtime ... WHERE version=?
Current(c) == c \in fresh

\* The route block, then update_runtime_state with expected_version.  When
\* somebody wrote the row meanwhile it raises and the block stays.
Write(c) ==
    /\ cl[c].pc = "cas"
    /\ block' = TRUE
    /\ IF Current(c)
       THEN /\ row' = Intended(c)
            /\ fresh' = {}
            /\ IF cl[c].op = "resume"
               THEN /\ cl' = [d \in Clients |->
                                IF d = c THEN [cl[c] EXCEPT !.pc = "send"]
                                ELSE [cl[d] EXCEPT !.over = Halting(d)]]
                    /\ shut' = shut \ {"paused", "failed"}
                    /\ left' = IF kill THEN left ELSE 0
               ELSE /\ cl' = [cl EXCEPT ![c].pc = "send", ![c].over = FALSE,
                                       ![c].rid = row'.rid]
                    /\ UNCHANGED <<shut, left>>
       ELSE /\ cl' = [cl EXCEPT ![c] = Free]
            /\ UNCHANGED <<row, fresh, shut, left>>
    /\ UNCHANGED <<kill, queue, daemon, file, runner, plan, ops, faults,
                   checked>>

\* send_daemon_command: one line at the end of the command file.
SendCommand(c, op) ==
    /\ queue' = Append(queue, [op |-> op, to |-> c])
    /\ cl' = [cl EXCEPT ![c].pc = "await"]

\* The control port: _owned_command, or start with a daemon that runs.
Dispatch(c) ==
    /\ cl[c].pc = "send"
    /\ cl[c].op # "status"
    /\ IF cl[c].op # "start"
       THEN IF Bound(cl[c].rid)
            THEN SendCommand(c, cl[c].op)
            ELSE cl' = [cl EXCEPT ![c] = Told(c, FALSE, "error")] /\ UNCHANGED queue
       ELSE IF ~daemon.alive \/ file.now = ""
            THEN cl' = [cl EXCEPT ![c].pc = "spawn"] /\ UNCHANGED queue
            ELSE IF file.now = "stopped"
            THEN SendCommand(c, "start")
            ELSE /\ cl' = [cl EXCEPT ![c] = Told(c, Bound(cl[c].rid), Shown)]
                 /\ UNCHANGED queue
    /\ UNCHANGED <<row, fresh, block, kill, daemon, file, runner, plan, ops,
                   faults, history>>

\* A process that comes up as d has its runner, its status file and its place
\* in the command file to itself: what is in the file already is never read.
Process(d) ==
    /\ daemon' = d
    /\ runner' = NewRunner
    /\ file' = [now |-> "", last |-> ""]
    /\ queue' = <<>>
    /\ checked' = FALSE

\* start_daemon up to its test: a daemon that runs is left alone.
SpawnCheck(c) ==
    /\ cl[c].pc = "spawn"
    /\ cl' = [cl EXCEPT ![c].pc = IF daemon.alive THEN "up" ELSE "launch"]
    /\ UNCHANGED <<row, fresh, block, kill, queue, daemon, file, runner,
                   plan, ops, faults, history>>

\* The rest of start_daemon: the process and its entry in daemon.json.
Spawn(c) ==
    /\ cl[c].pc = "launch"
    /\ ~daemon.alive
    /\ Process([NoDaemon EXCEPT !.alive = TRUE, !.rid = cl[c].rid])
    /\ cl' = [cl EXCEPT ![c].pc = "up"]
    /\ UNCHANGED <<row, fresh, block, kill, plan, ops, faults, shut, left>>

\* The same after another start has launched a daemon since the test.
SpawnSecond(c) ==
    /\ cl[c].pc = "launch"
    /\ daemon.alive
    /\ cl' = [cl EXCEPT ![c].pc = "second"]
    /\ UNCHANGED <<row, fresh, block, kill, queue, daemon, file, runner,
                   plan, ops, faults, history>>

\* start sees the runner in the status file.
SpawnSeen(c) ==
    /\ cl[c].pc = "up"
    /\ daemon.alive /\ file.now # ""
    /\ cl' = [cl EXCEPT ![c] = Told(c, Bound(cl[c].rid), Shown)]
    /\ UNCHANGED <<row, fresh, block, kill, queue, daemon, file, runner,
                   plan, ops, faults, history>>

\* The wait for the daemon or for the answer to a command ends; the command
\* stays in the file.
Timeout(c) ==
    /\ cl[c].pc \in {"up", "await"}
    /\ cl' = [cl EXCEPT ![c] = Told(c, FALSE, "error")]
    /\ queue' = [i \in DOMAIN queue |->
                    IF queue[i].to = c THEN [queue[i] EXCEPT !.to = Nobody]
                    ELSE queue[i]]
    /\ UNCHANGED <<row, fresh, block, kill, daemon, file, runner, plan, ops,
                   faults, history>>

\* stop_daemon after strategy_stop: the loop ends, or the process is still
\* there after five seconds.
Terminate(c, dies) ==
    /\ cl[c].pc = "kill"
    /\ daemon.pc = "loop"
    /\ dies \/ daemon.alive
    /\ IF dies THEN Process(NoDaemon)
       ELSE UNCHANGED <<daemon, runner, file, queue, checked>>
    /\ cl' = [cl EXCEPT ![c] = Told(c, dies, cl[c].life)]
    /\ UNCHANGED <<row, fresh, block, kill, plan, ops, faults, shut, left>>

-----------------------------------------------------------------------------
\* _command_failed.
Failed(r) == [r EXCEPT !.desired = "paused", !.observed = "error",
                       !.need = TRUE, !.reconciled = FALSE]

\* What each operation writes once the daemon has confirmed it: no version is
\* compared, and only reconcile writes the desired state again.
Confirmed(c) ==
    CASE cl[c].op = "start" ->
             [row EXCEPT !.observed = "pending", !.rid = cl[c].rid,
                         !.need = TRUE, !.reconciled = FALSE]
      [] cl[c].op = "pause" -> [row EXCEPT !.observed = "paused"]
      [] cl[c].op = "reconcile" ->
             [row EXCEPT !.desired = "paused", !.observed = "paused",
                         !.rid = cl[c].rid, !.need = FALSE, !.reconciled = TRUE]
      [] cl[c].op = "resume" -> [row EXCEPT !.observed = cl[c].life]
      [] cl[c].op = "stop" ->
             [row EXCEPT !.observed = "stopped", !.rid = 0, !.need = TRUE,
                         !.reconciled = FALSE, !.bound = FALSE]

\* The operation after the one that has ended well.
After(c) ==
    IF cl[c].op = "resume" THEN [cl[c] EXCEPT !.pc = "unblock"]
    ELSE IF ~Live /\ (cl[c].op = "start" \/ (cl[c].op = "reconcile" /\ cl[c].chain))
    THEN [cl[c] EXCEPT !.pc = "next"]
    ELSE Free

\* transition_runtime with the outcome, and the answer to the caller.
Finish(c) ==
    /\ cl[c].pc = "done"
    /\ row' = IF cl[c].ok THEN Confirmed(c) ELSE Failed(row)
    /\ fresh' = {}
    /\ cl' = [cl EXCEPT ![c] = IF cl[c].ok THEN After(c) ELSE Free]
    /\ shut' = CASE ~cl[c].ok -> shut \cup {"failed"}
                 [] cl[c].ok /\ cl[c].op \in {"pause", "stop"} /\ ~cl[c].over ->
                        shut \cup {"paused"}
                 [] OTHER -> shut
    /\ UNCHANGED <<block, kill, queue, daemon, file, runner, plan, ops,
                   faults, left, checked>>

\* The end of resume.
Unblock(c) ==
    /\ cl[c].pc = "unblock"
    /\ block' = FALSE
    /\ cl' = [cl EXCEPT ![c] = Free]
    /\ UNCHANGED <<row, fresh, kill, queue, daemon, file, runner, plan, ops,
                   faults, history>>

\* _states_compatible.
Compatible(desired, observed) ==
    CASE desired = "running" -> observed = "running"
      [] desired = "paused" -> observed \in {"paused", "pending"}
      [] OTHER -> desired = observed

\* status: a daemon that cannot be seen counts as a failed command; a state
\* nobody asked for blocks the routes and wants a reconciliation.
Status(c) ==
    /\ cl[c].pc = "send"
    /\ cl[c].op = "status"
    /\ cl' = [cl EXCEPT ![c] = Free]
    /\ fresh' = {}
    /\ IF Bound(cl[c].rid)
       THEN /\ row' = [row EXCEPT !.observed = Shown, !.rid = daemon.rid,
                                 !.need = @ \/ ~Compatible(row.desired, Shown)]
            /\ block' = (block \/ ~Compatible(row.desired, Shown))
            /\ UNCHANGED shut
       ELSE /\ row' = Failed(row)
            /\ block' = TRUE
            /\ shut' = shut \cup {"failed"}
    /\ UNCHANGED <<kill, queue, daemon, file, runner, plan, ops, faults,
                   left, checked>>

\* configure_deployment with the same binding, which a runtime that is not
\* stopped refuses, in one transaction: the row starts again, the block is
\* lifted and kill switches stay.
Configure ==
    /\ ops < MaxOps
    /\ ops' = ops + 1
    /\ row.rid = 0
    /\ row.desired \in {"ready", "stopped"}
    /\ row.observed \in {"ready", "stopped", "error"}
    /\ row # Configured \/ block
    /\ row' = Configured
    /\ fresh' = {}
    /\ block' = FALSE
    /\ UNCHANGED <<kill, cl, queue, daemon, file, runner, plan, faults, history>>

\* set_kill_switch for the instance, the account or everything.
KillSwitch(on) ==
    /\ kill # on
    /\ on => faults < MaxFaults
    /\ kill' = on
    /\ faults' = IF on THEN faults + 1 ELSE faults
    /\ shut' = IF on THEN shut \cup {"killed"} ELSE shut \ {"killed"}
    /\ left' = IF shut' = {} THEN 0 ELSE left
    /\ UNCHANGED <<row, fresh, block, cl, queue, daemon, file, runner, plan,
                   ops, checked>>

-----------------------------------------------------------------------------
(***************************************************************************)
(* The daemon: commands.                                                   *)
(***************************************************************************)

\* record_runtime_heartbeat refuses the heartbeat of a runtime that is not the
\* one of the row.
Accepted == row.rid = daemon.rid

\* _heartbeat after the runner has become r; a refusal closes the runner.
Heartbeat(r) ==
    IF Accepted
    THEN /\ row' = [row EXCEPT !.observed = Lifecycle(r)]
         /\ fresh' = {}
         /\ runner' = r
    ELSE /\ runner' = [r EXCEPT !.paused = TRUE, !.need = TRUE]
         /\ UNCHANGED <<row, fresh>>

\* ... and halts the engine.
HaltedIfRefused == daemon' = [daemon EXCEPT !.halted = @ \/ ~Accepted]

\* The result of the command at the head of the queue, for the client that
\* still waits for it and for the status file.
Answer(ok, shows) ==
    LET c == Head(queue).to
    IN  /\ queue' = Tail(queue)
        /\ file' = [file EXCEPT !.last = IF shows THEN Lifecycle(runner') ELSE ""]
        /\ cl' = IF c = Nobody THEN cl
                 ELSE [cl EXCEPT ![c] =
                         [Told(c, ok, Lifecycle(runner')) EXCEPT
                             !.pc = IF ok /\ cl[c].op = "stop" THEN "kill" ELSE "done",
                             !.rid = daemon.rid]]

Commanded(op) ==
    /\ daemon.alive
    /\ daemon.pc = "loop"
    /\ queue # <<>>
    /\ Head(queue).op = op

\* runner.pause: every unfinished plan is paused and its orders cancelled.
PausedPlan == IF plan = "none" THEN "none" ELSE "paused"

\* strategy_pause; a cancellation of a working order may not be confirmed.
ExecPause(confirmed) ==
    /\ Commanded("pause")
    /\ confirmed \/ plan = "working"
    /\ Heartbeat([runner EXCEPT !.paused = TRUE])
    /\ HaltedIfRefused
    /\ plan' = PausedPlan
    /\ Answer(confirmed, TRUE)
    /\ UNCHANGED <<block, kill, ops, faults, history>>

\* strategy_reconcile: pause, recover, mark_reconciled.  clean: the recovery
\* of the runtime and the boundary of the account have nothing to report.
ExecReconcile(clean) ==
    LET warned == ~clean \/ PausedPlan = "paused"
    IN  /\ Commanded("reconcile")
        /\ Heartbeat([runner EXCEPT !.paused = TRUE, !.need = warned])
        /\ HaltedIfRefused
        /\ plan' = PausedPlan
        /\ Answer(~warned, ~warned)
        /\ checked' = ~warned
        /\ UNCHANGED <<block, kill, ops, faults, shut, left>>

\* StrategyInstanceRunner.resume raises before it is reconciled.
MayResume == ~runner.need

\* strategy_resume: the runner goes on, then the engine is resumed, which a
\* loss that has not recovered refuses.
ExecResume(granted) ==
    /\ Commanded("resume")
    /\ IF MayResume
       THEN LET halted == daemon.halted \/ ~Accepted
            IN  /\ granted \/ halted
                /\ Heartbeat([runner EXCEPT !.paused = FALSE])
                /\ daemon' = [daemon EXCEPT !.halted = halted /\ ~granted]
                /\ Answer(granted, TRUE)
       ELSE /\ UNCHANGED <<row, fresh, runner, daemon>>
            /\ Answer(FALSE, FALSE)
    /\ UNCHANGED <<block, kill, plan, ops, faults, history>>

\* strategy_stop.
ExecStop(confirmed) ==
    /\ Commanded("stop")
    /\ confirmed \/ plan = "working"
    /\ Heartbeat([runner EXCEPT !.paused = FALSE, !.stopped = TRUE])
    /\ HaltedIfRefused
    /\ plan' = PausedPlan
    /\ Answer(confirmed, TRUE)
    /\ UNCHANGED <<block, kill, ops, faults, history>>

\* strategy_start builds another runner unless the present one is active.
ExecStart ==
    /\ Commanded("start")
    /\ IF ~runner.paused /\ ~runner.stopped
       THEN /\ UNCHANGED <<row, fresh, runner, daemon, checked>>
            /\ Answer(FALSE, FALSE)
       ELSE /\ Heartbeat(NewRunner)
            /\ HaltedIfRefused
            /\ Answer(TRUE, TRUE)
            /\ checked' = FALSE
    /\ UNCHANGED <<block, kill, plan, ops, faults, shut, left>>

-----------------------------------------------------------------------------
(***************************************************************************)
(* The daemon: rounds of the runner.                                       *)
(***************************************************************************)

\* A round of run_daemon ends with the status file.
Round ==
    /\ daemon.alive
    /\ daemon.pc = "loop"
    /\ file' = [file EXCEPT !.now = Lifecycle(runner')]
    /\ UNCHANGED <<block, kill, cl, queue, ops, faults, shut>>

Active == ~runner.paused /\ ~runner.stopped

\* step while paused or stopped.
StepIdle ==
    /\ ~Active
    /\ Heartbeat(runner)
    /\ HaltedIfRefused
    /\ Round
    /\ UNCHANGED <<plan, left, checked>>

\* step to a plan that is p, without anything to report.
StepTo(p) ==
    /\ Active
    /\ plan' = p
    /\ Heartbeat(runner)
    /\ HaltedIfRefused
    /\ Round
    /\ UNCHANGED <<left, checked>>

\* A decision becomes a plan, or there is none.
StepPlan == plan = "none" /\ \E p \in {"none", "open"}: StepTo(p)

\* Outside the hours of submission an open plan waits; reports let a working
\* one go on or complete it.
StepWait ==
    \/ plan = "open" /\ StepTo("open")
    \/ plan = "working" /\ \E p \in {"working", "open", "none"}: StepTo(p)

\* _halt: the desired state is withdrawn and so is the right to write.
StepHalt ==
    /\ Active
    /\ plan' \in CASE plan = "none" -> {"none", "paused"}
                  [] OTHER -> {"paused"}
    /\ runner' = [runner EXCEPT !.paused = TRUE, !.need = TRUE]
    /\ daemon' = [daemon EXCEPT !.halted = TRUE]
    /\ row' = [row EXCEPT !.desired = "paused", !.observed = "error",
                         !.need = TRUE, !.bound = FALSE]
    /\ fresh' = {}
    /\ checked' = FALSE
    /\ Round
    /\ UNCHANGED left

\* Mutant: what the operator wants is not consulted.
AuthorizedObserved ==
    /\ row.reconciled
    /\ row.rid = daemon.rid
    /\ row.bound
    /\ ~row.need
    /\ row.observed = "running"
    /\ ~block
    /\ ~kill

\* Mutant: route blocks are not consulted.
AuthorizedUnblocked ==
    /\ row.reconciled
    /\ row.rid = daemon.rid
    /\ row.bound
    /\ ~row.need
    /\ row.desired = "running"
    /\ row.observed = "running"

\* AutomatedRouteAuthorizer.authorize.
Authorized ==
    /\ row.reconciled
    /\ row.rid = daemon.rid
    /\ row.bound
    /\ ~row.need
    /\ row.desired = "running"
    /\ row.observed = "running"
    /\ ~block
    /\ ~kill

\* advance routes a child that is authorized.
StepRoute ==
    /\ daemon.alive
    /\ daemon.pc = "loop"
    /\ Active
    /\ plan = "open"
    /\ Authorized
    /\ daemon' = [daemon EXCEPT !.pc = "send"]
    /\ UNCHANGED <<row, fresh, block, kill, cl, queue, file, runner, plan,
                   ops, faults, history>>

\* advance routes a child that is denied: by the row, or by the age of the
\* heartbeat in it.
StepDenied == plan = "open" /\ StepTo("refused")

\* The end of submit: the engine, if it is not halted, hands the order over.
SendOrder ==
    /\ daemon.alive
    /\ daemon.pc = "send"
    /\ plan' = IF daemon.halted THEN "refused" ELSE "working"
    /\ left' = IF ~daemon.halted /\ shut # {} THEN left + 1 ELSE left
    /\ Heartbeat(runner)
    /\ daemon' = [daemon EXCEPT !.pc = "loop", !.halted = @ \/ ~Accepted]
    /\ file' = [file EXCEPT !.now = Lifecycle(runner')]
    /\ UNCHANGED <<block, kill, cl, queue, ops, faults, shut, checked>>

\* LiveEngine halts for reasons of its own (module LiveEngine).
EngineHalts ==
    /\ daemon.alive
    /\ ~daemon.halted
    /\ faults < MaxFaults
    /\ faults' = faults + 1
    /\ daemon' = [daemon EXCEPT !.halted = TRUE]
    /\ UNCHANGED <<row, fresh, block, kill, cl, queue, file, runner, plan,
                   ops, history>>

\* The process of the daemon dies; the row and the plan are in the store.
Crash ==
    /\ daemon.alive
    /\ faults < MaxFaults
    /\ faults' = faults + 1
    /\ Process(NoDaemon)
    /\ UNCHANGED <<row, fresh, block, kill, cl, plan, ops, shut, left>>

-----------------------------------------------------------------------------
Client(c) ==
    \/ \E op \in Ops: Begin(c, op)
    \/ Continue(c)
    \/ Write(c)
    \/ Dispatch(c)
    \/ SpawnCheck(c)
    \/ Spawn(c)
    \/ SpawnSecond(c)
    \/ SpawnSeen(c)
    \/ Timeout(c)
    \/ \E dies \in BOOLEAN: Terminate(c, dies)
    \/ Finish(c)
    \/ Unblock(c)
    \/ Status(c)

Command ==
    \/ \E confirmed \in BOOLEAN: ExecPause(confirmed)
    \/ \E clean \in BOOLEAN: ExecReconcile(clean)
    \/ \E granted \in BOOLEAN: ExecResume(granted)
    \/ \E confirmed \in BOOLEAN: ExecStop(confirmed)
    \/ ExecStart

Step ==
    \/ StepIdle
    \/ StepPlan
    \/ StepWait
    \/ StepHalt
    \/ StepRoute
    \/ StepDenied
    \/ SendOrder

\* No second daemon was launched.
OneDaemon == \A c \in Clients: cl[c].pc # "second"

Next ==
    /\ OneDaemon
    /\ \/ \E c \in Clients: Client(c)
       \/ Configure
       \/ \E on \in BOOLEAN: KillSwitch(on)
       \/ Command
       \/ Step
       \/ EngineHalts
       \/ Crash

Spec == Init /\ [][Next]_vars

-----------------------------------------------------------------------------
(***************************************************************************)
(* Properties.                                                             *)
(***************************************************************************)

Sent == daemon.pc = "send" /\ plan' = "working"

\* A pause or stop that was confirmed to its caller keeps its word: until
\* somebody resumes, the daemon hands no order over, whatever the other
\* clients, late commands and heartbeats do to the row (deployment.py pause
\* and stop against instance_runner.step).
PauseHolds == [][Sent => "paused" \notin shut]_vars

\* After a kill switch, or after an operation that was reported as failed, at
\* most one more order leaves, the one that was authorized already
\* (authorization.py asks for every child, routing.py submits afterwards).
AtMostOneAfterShut == left <= 1

\* Every order leaves a runner that was reconciled after it was built and
\* after it last halted, across restarts of the daemon and of the runner: the
\* row may still say reconciled of the runner before (deployment.py reconcile
\* and resume, instance_runner.resume).
RoutesOnlyAfterReconcile == [][Sent => checked]_vars

\* What the documentation promises of a reconciliation: when the account and
\* the broker have nothing to report, the runner may go on from there.  It is
\* violated: strategy_reconcile pauses every unfinished plan first, and a
\* paused plan is a warning of the recovery that follows.
ReconcileClears ==
    [][ExecReconcile(TRUE) /\ Accepted => ~runner'.need]_vars
=============================================================================
