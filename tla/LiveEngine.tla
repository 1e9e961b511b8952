----------------------------- MODULE LiveEngine -----------------------------
(***************************************************************************)
(* The live engine: the one guarded submission path, the kill-switch, the  *)
(* connection, the pre-trade risk gate with its daily counters and its     *)
(* loss stop, the ledger and the recovery of the gate after a restart      *)
(* (systems/live: engine.py, risk.py, fsm/runmode_fsm.py,                  *)
(* fsm/connection_fsm.py, ledger.py, recovery.py, and the parts of         *)
(* runtime.py and daemon.py that call them).                               *)
(*                                                                         *)
(* Two threads of the daemon share the engine without a lock.  The main    *)
(* loop submits, carries out commands and writes runtime_state.json; the   *)
(* dispatch thread delivers the callbacks of the gateway.  A submission    *)
(* is three steps of the main thread (check, send_order, ledger entry) and *)
(* an account update that finds a loss is two steps of the dispatch thread *)
(* (the latch, the halt).                                                  *)
(*                                                                         *)
(* Abstracted: an order is its client reference; the rules of the gate     *)
(* that look at one order only (session, lot, price, cash, position) have  *)
(* no memory and are left out, so every order that is new and within the   *)
(* daily count may pass.  The turnover of the day is bounded like the      *)
(* count of orders and is left out.  Equity is a small number.  The start  *)
(* of a process (connect, refresh, recover, write_state) is one step.      *)
(***************************************************************************)
EXTENDS Naturals, FiniteSets

CONSTANTS
    Refs,         \* client references of the orders the callers may submit
    Limits,       \* configurations of the gate: max_orders_per_day, and
                  \* max_daily_loss_pct and max_canary_loss_pct in percent
    Equities,     \* balances the account may report
    LateAccount,  \* may the account arrive after the 1.5 s recover waits
    MaxCrashes,   \* bound on the crashes of a behaviour
    MaxDays       \* bound on the trading days of a behaviour

ASSUME LiveAssumption ==
    /\ Limits \subseteq [orders: Nat \ {0}, daily: 0..100, canary: 0..100]
    /\ Equities \subseteq Nat \ {0}
    /\ LateAccount \in BOOLEAN
    /\ MaxCrashes \in Nat
    /\ MaxDays \in Nat \ {0}

VARIABLES
    up,       \* the daemon process lives
    conn,     \* ConnectionMachine.state
    halted,   \* RunModeMachine.halted
    gate,     \* RiskGate: orders, refs, dayStart, canary, latch
    equity,   \* balance of oms.account, 0 before the first account callback
    known,    \* references of oms.active_orders
    main,     \* where the main thread is in submit
    disp,     \* loss rule on_account has found and not acted on, "" for none
    ledger,   \* what recovery reads of it: orders and refs of today, loss mark
    file,     \* risk section of runtime_state.json
    working,  \* orders open at the broker
    asked,    \* orders the broker was asked to cancel
    day,      \* trading day
    crashes,  \* crashes so far
    limits,   \* RiskGate.limits, from the configuration
    \* history
    total,    \* orders that reached the broker today
    sent,     \* the same per reference
    tried,    \* references the gate has accepted today
    carried,  \* references it held when the day rolled over the living process
    lost,     \* orders of today whose ledger entry a crash prevented
    after,    \* orders sent since the kill-switch was engaged
    base,     \* first baseline of the day that was saved, 0 before
    tripped   \* a loss halt is in the ledger and no operator has resumed

vars == <<up, conn, halted, gate, equity, known, main, disp, ledger, file,
          working, asked, day, crashes, limits, total, sent, tried, carried,
          lost, after, base, tripped>>

engine  == <<up, conn>>
broker  == <<working, asked>>
world   == <<day, crashes, limits>>
history == <<total, sent, tried, carried, lost, after, base, tripped>>

Rules == {"", "daily_loss", "canary_loss"}

Connections == {"disconnected", "connecting", "logged_in"}

Gates == [orders: Nat, refs: SUBSET Refs, dayStart: Nat, canary: Nat,
          latch: Rules]

FreshGate == [orders |-> 0, refs |-> {}, dayStart |-> 0, canary |-> 0,
              latch |-> ""]

Balances == Equities \cup {0}

Places == [pc: {"idle", "send", "audit", "loss"}, ref: Refs \cup {""},
           equity: Balances]

Ledgers == [orders: Nat, refs: SUBSET Refs, mark: Rules]

Files == [account: BOOLEAN, today: BOOLEAN, dayStart: Nat, canary: Nat,
          latch: Rules]

Idle == [pc |-> "idle", ref |-> "", equity |-> 0]

TypeOK ==
    /\ up \in BOOLEAN
    /\ conn \in Connections
    /\ halted \in BOOLEAN
    /\ gate \in Gates
    /\ equity \in Balances
    /\ known \subseteq Refs
    /\ main \in Places
    /\ disp \in Rules
    /\ ledger \in Ledgers
    /\ file \in Files
    /\ working \subseteq Refs
    /\ asked \subseteq Refs
    /\ day \in 1..MaxDays
    /\ crashes \in 0..MaxCrashes
    /\ limits \in Limits
    /\ total \in Nat
    /\ sent \in [Refs -> Nat]
    /\ tried \subseteq Refs
    /\ carried \subseteq Refs
    /\ lost \in Nat
    /\ after \in Nat
    /\ base \in Balances
    /\ tripped \in BOOLEAN

Init ==
    /\ up = FALSE
    /\ conn = "disconnected"
    /\ halted = FALSE
    /\ gate = FreshGate
    /\ equity = 0
    /\ known = {}
    /\ main = Idle
    /\ disp = ""
    /\ ledger = [orders |-> 0, refs |-> {}, mark |-> ""]
    /\ file = [account |-> FALSE, today |-> FALSE, dayStart |-> 0,
               canary |-> 0, latch |-> ""]
    /\ working = {}
    /\ asked = {}
    /\ day = 1
    /\ crashes = 0
    /\ limits \in Limits
    /\ total = 0
    /\ sent = [r \in Refs |-> 0]
    /\ tried = {}
    /\ carried = {}
    /\ lost = 0
    /\ after = 0
    /\ base = 0
    /\ tripped = FALSE

-----------------------------------------------------------------------------
(***************************************************************************)
(* The risk gate.                                                          *)
(***************************************************************************)

\* Equity e has lost pct percent or more of start.
Loses(start, e, pct) == pct > 0 /\ 100 * e <= start * (100 - pct)

\* RiskGate.check_equity: a latched rule stays; without an account nothing
\* is decided; a baseline that is not set is the present equity.
CheckEquity(g, e) ==
    IF g.latch # "" \/ e = 0
    THEN g
    ELSE LET d == IF g.dayStart = 0 THEN e ELSE g.dayStart
             c == IF g.canary = 0 THEN e ELSE g.canary
         IN  [g EXCEPT !.dayStart = d,
                       !.canary = c,
                       !.latch = IF Loses(d, e, limits.daily) THEN "daily_loss"
                                 ELSE IF Loses(c, e, limits.canary) THEN "canary_loss"
                                 ELSE ""]

\* Mutant: the cap lets one order too many pass.
AdmitsOneMore(g, r) == r \notin g.refs /\ g.orders <= limits.orders

\* The rules of RiskGate.check with a memory: the reference is new and the
\* daily count is not used up.
Admits(g, r) == r \notin g.refs /\ g.orders < limits.orders

\* Mutant: the counter runs down.
CountedDown(g, r) == [g EXCEPT !.orders = @ - 1, !.refs = @ \cup {r}]

\* The end of RiskGate.check: an accepted order counts before it is sent.
Counted(g, r) == [g EXCEPT !.orders = @ + 1, !.refs = @ \cup {r}]

-----------------------------------------------------------------------------
(***************************************************************************)
(* Recovery.                                                               *)
(***************************************************************************)

\* _persisted_risk_state: the snapshot counts only when it was written with
\* an account and the account is known again.
Trusted(e) == file.account /\ e # 0

\* recover_risk_state_from_ledger: the references of the submit events of
\* today.
RestoredRefs == ledger.refs

\* Mutant: the baseline is the first equity of this process.
RestoredDayStartNow(g, e) == g.dayStart

\* _persisted_risk_state: a baseline of another day is dropped.
RestoredDayStart(g, e) ==
    IF Trusted(e) THEN IF file.today THEN file.dayStart ELSE 0
    ELSE g.dayStart

\* Mutant: only the snapshot is asked for the latch.
RestoredLatchSaved(g, e) == IF Trusted(e) THEN file.latch ELSE g.latch

\* The ledger names a latch when its last loss halt was not followed by a
\* resume; otherwise the snapshot decides.
RestoredLatch(g, e) ==
    IF ledger.mark # "" THEN ledger.mark
    ELSE IF Trusted(e) THEN file.latch ELSE g.latch

\* RecoveryService.run: {**persisted, **ledger} restored into gate g.
Restored(g, e) ==
    [orders   |-> ledger.orders,
     refs     |-> RestoredRefs,
     dayStart |-> RestoredDayStart(g, e),
     canary   |-> IF Trusted(e) THEN file.canary ELSE g.canary,
     latch    |-> RestoredLatch(g, e)]

\* LiveRuntime.write_state, its risk section.
Snapshot(g, e) ==
    [account |-> e # 0, today |-> TRUE, dayStart |-> g.dayStart,
     canary |-> g.canary, latch |-> g.latch]

\* write_state; the first baseline it saves is the one the day is held to.
Save(g, e) ==
    /\ file' = Snapshot(g, e)
    /\ base' = IF base = 0 THEN g.dayStart ELSE base

-----------------------------------------------------------------------------
(***************************************************************************)
(* The process.                                                            *)
(***************************************************************************)

\* LiveEngine.halt: engage the kill-switch, write the reason to the ledger,
\* ask the broker to cancel what the OMS takes for working.  mark is the loss
\* rule a later recovery reads from the reason, "" for any other reason.
Halt(mark) ==
    /\ halted' = TRUE
    /\ ledger' = IF mark = "" THEN ledger ELSE [ledger EXCEPT !.mark = mark]
    /\ asked' = asked \cup known
    /\ tripped' = (tripped \/ mark # "")

\* The end of RecoveryService.run and the write_state after it, for the gate
\* g that was restored: a latch halts under the prefix recovered_risk.
HaltOnLatch(g, e, nowHalted) ==
    /\ gate' = g
    /\ carried' = {}
    /\ Save(g, e)
    /\ IF g.latch # "" /\ ~nowHalted
       THEN Halt(g.latch)
       ELSE halted' = nowHalted /\ UNCHANGED <<ledger, asked, tripped>>

\* run_daemon up to its loop: connect, refresh, recover, write_state.  The
\* account callback comes before recover reads the snapshot, or too late.
Start(e) ==
    /\ ~up
    /\ up' = TRUE
    /\ conn' = "logged_in"
    /\ equity' = e
    /\ known' = {}
    /\ after' = 0
    /\ HaltOnLatch(Restored(CheckEquity(FreshGate, e), e), e, FALSE)
    /\ UNCHANGED <<main, disp, working, world, total, sent, tried, lost>>

\* The process dies.  An order that was sent and is not in the ledger yet is
\* an order the counters of the next process miss.
Crash ==
    /\ up
    /\ crashes < MaxCrashes
    /\ crashes' = crashes + 1
    /\ up' = FALSE
    /\ conn' = "disconnected"
    /\ halted' = FALSE
    /\ gate' = FreshGate
    /\ equity' = 0
    /\ known' = {}
    /\ main' = Idle
    /\ disp' = ""
    /\ carried' = {}
    /\ lost' = IF main.pc = "audit" THEN lost + 1 ELSE lost
    /\ after' = 0
    /\ UNCHANGED <<ledger, file, working, asked, day, limits, total, sent,
                   tried, base, tripped>>

\* The next trading day; a process may live through midnight, though not in
\* the middle of a submission, which the gate accepts in a session only.
\* Nothing in the program calls RiskGate.reset_day.
DayRoll ==
    /\ day < MaxDays
    /\ day' = day + 1
    /\ main = Idle
    /\ ledger' = [ledger EXCEPT !.orders = 0, !.refs = {}]
    /\ file' = [file EXCEPT !.today = FALSE]
    /\ total' = 0
    /\ sent' = [r \in Refs |-> 0]
    /\ tried' = {}
    /\ carried' = gate.refs
    /\ lost' = 0
    /\ base' = 0
    /\ UNCHANGED <<engine, halted, gate, equity, known, main, disp, broker,
                   crashes, limits, after, tripped>>

-----------------------------------------------------------------------------
(***************************************************************************)
(* The main thread: submissions.                                           *)
(***************************************************************************)

\* Mutant: the kill-switch is not asked.
CanSubmitAlways == TRUE

\* RunModeMachine.can_submit_orders in a mode that routes.
CanSubmit == ~halted

\* submit up to the verdict of the gate.  A halted engine and a rejected
\* order end here; a loss goes on to the halt of submit.
SubmitCheck(r) ==
    /\ up
    /\ main = Idle
    /\ CanSubmit
    /\ LET g == CheckEquity(gate, equity)
       IN  IF g.latch # ""
           THEN /\ gate' = g
                /\ main' = [pc |-> "loss", ref |-> r, equity |-> equity]
           ELSE IF Admits(g, r)
           THEN /\ gate' = Counted(g, r)
                /\ main' = [pc |-> "send", ref |-> r, equity |-> equity]
           ELSE /\ gate' = g
                /\ UNCHANGED main
    /\ tried' = IF main'.pc = "send" THEN tried \cup {r} ELSE tried
    /\ UNCHANGED <<engine, halted, equity, known, disp, ledger, file, broker,
                   world, total, sent, carried, lost, after, base, tripped>>

\* submit halts after a loss with the bare reason of the verdict, which
\* recovery does not take for a loss halt.
LossHalt ==
    /\ main.pc = "loss"
    /\ main' = Idle
    /\ Halt("")
    /\ UNCHANGED <<engine, gate, equity, known, disp, file, working, world,
                   total, sent, tried, carried, lost, after, base>>

\* trade_gateway.send_order; without a session nothing reaches the broker.
SendOrder ==
    /\ main.pc = "send"
    /\ main' = [main EXCEPT !.pc = "audit"]
    /\ conn = "logged_in"
    /\ working' = working \cup {main.ref}
    /\ asked' = asked \ {main.ref}
    /\ total' = total + 1
    /\ sent' = [sent EXCEPT ![main.ref] = @ + 1]
    /\ after' = IF halted THEN after + 1 ELSE after
    /\ UNCHANGED <<engine, halted, gate, equity, known, disp, ledger, file,
                   world, tried, carried, lost, base, tripped>>

\* send_order raises: the order counts for the gate and is not in the ledger.
SendFails ==
    /\ main.pc = "send"
    /\ conn # "logged_in"
    /\ main' = Idle
    /\ UNCHANGED <<engine, halted, gate, equity, known, disp, ledger, file,
                   broker, world, history>>

\* Mutant: the reference is not written.
AuditSubmitBare ==
    /\ main.pc = "audit"
    /\ main' = Idle
    /\ ledger' = [ledger EXCEPT !.orders = @ + 1]
    /\ UNCHANGED <<engine, halted, gate, equity, known, disp, file, broker,
                   world, history>>

\* The submit event of the ledger.
AuditSubmit ==
    /\ main.pc = "audit"
    /\ main' = Idle
    /\ ledger' = [ledger EXCEPT !.orders = @ + 1, !.refs = @ \cup {main.ref}]
    /\ UNCHANGED <<engine, halted, gate, equity, known, disp, file, broker,
                   world, history>>

-----------------------------------------------------------------------------
(***************************************************************************)
(* The main thread: commands of an operator, each followed by write_state. *)
(***************************************************************************)

Ready == up /\ main = Idle

OperatorHalt ==
    /\ Ready
    /\ Halt("")
    /\ Save(gate, equity)
    /\ UNCHANGED <<engine, gate, equity, known, main, disp, working, world,
                   total, sent, tried, carried, lost, after>>

\* LiveEngine.resume: forget the latch and look at the equity again.
OperatorResume ==
    /\ Ready
    /\ LET g == CheckEquity([gate EXCEPT !.latch = ""], equity)
       IN  /\ gate' = g
           /\ Save(g, equity)
           /\ IF g.latch # ""
              THEN halted' = TRUE /\ UNCHANGED <<ledger, after, tripped>>
              ELSE /\ halted' = FALSE
                   /\ ledger' = [ledger EXCEPT !.mark = ""]
                   /\ after' = 0
                   /\ tripped' = FALSE
    /\ UNCHANGED <<engine, equity, known, main, disp, broker, world, total,
                   sent, tried, carried, lost>>

\* reconcile_after_reconnect up to the connection: is the engine halted.
HaltedForReconnect(auto) == halted \/ conn # "disconnected" \/ ~auto

\* LiveRuntime.reconnect: with auto the engine resumes by itself unless the
\* gate objects; the latch is not acknowledged and no resume is recorded.
Reconnect(auto) ==
    /\ Ready
    /\ conn' = "logged_in"
    /\ LET g == IF auto THEN CheckEquity(gate, equity) ELSE gate
           h == IF auto THEN g.latch # "" ELSE HaltedForReconnect(auto)
       IN  /\ HaltOnLatch(Restored(g, equity), equity, h)
           /\ after' = IF h THEN after ELSE 0
    /\ UNCHANGED <<up, equity, known, main, disp, working, world, total, sent,
                   tried, lost>>

\* The gateways cannot be connected: the exception leaves the state machine
\* in CONNECTING.
ReconnectFails(auto) ==
    /\ Ready
    /\ conn' = "connecting"
    /\ halted' = HaltedForReconnect(auto)
    /\ Save(gate, equity)
    /\ UNCHANGED <<up, gate, equity, known, main, disp, ledger, broker, world,
                   total, sent, tried, carried, lost, after, tripped>>

\* LiveRuntime.recover inside a strategy_reconcile command.
Recover ==
    /\ Ready
    /\ HaltOnLatch(Restored(gate, equity), equity, halted)
    /\ UNCHANGED <<engine, equity, known, main, disp, working, world, total,
                   sent, tried, lost, after>>

\* LiveEngine.cancel of an order the OMS takes for active.
Cancel(r) ==
    /\ Ready
    /\ r \in known
    /\ asked' = asked \cup {r}
    /\ Save(gate, equity)
    /\ UNCHANGED <<engine, halted, gate, equity, known, main, disp, ledger,
                   working, world, total, sent, tried, carried, lost, after,
                   tripped>>

\* The write_state of every round of the loop.
WriteState ==
    /\ Ready
    /\ Save(gate, equity)
    /\ UNCHANGED <<engine, halted, gate, equity, known, main, disp, ledger,
                   broker, world, total, sent, tried, carried, lost, after,
                   tripped>>

-----------------------------------------------------------------------------
(***************************************************************************)
(* The dispatch thread, one callback at a time, and the broker.            *)
(***************************************************************************)

Delivering == up /\ disp = "" /\ conn = "logged_in"

\* on_account up to the verdict of check_equity.
AccountUpdate(e) ==
    /\ Delivering
    /\ equity' = e
    /\ gate' = CheckEquity(gate, e)
    /\ disp' = CheckEquity(gate, e).latch
    /\ UNCHANGED <<engine, halted, known, main, ledger, file, broker, world,
                   total, sent, tried, carried, lost, after, base, tripped>>

\* The rest of on_account: halt under the prefix risk unless halted already.
DispatchHalt ==
    /\ disp # ""
    /\ disp' = ""
    /\ IF halted
       THEN UNCHANGED <<halted, ledger, asked, tripped>>
       ELSE Halt(disp)
    /\ UNCHANGED <<engine, gate, equity, known, main, file, working, world,
                   total, sent, tried, carried, lost, after, base>>

\* on_gateway_disconnected and handle_disconnect: halt, cancel nothing.
Disconnect ==
    /\ Delivering
    /\ conn' = "disconnected"
    /\ halted' = TRUE
    /\ UNCHANGED <<up, gate, equity, known, main, disp, ledger, file, broker,
                   world, history>>

\* on_order: the first report of an order, and its last.
OnOrder(r) ==
    /\ Delivering
    /\ (r \in working) # (r \in known)
    /\ known' = IF r \in working THEN known \cup {r} ELSE known \ {r}
    /\ UNCHANGED <<engine, halted, gate, equity, main, disp, ledger, file,
                   broker, world, history>>

\* The broker has filled, cancelled or expired an order.
BrokerDone(r) ==
    /\ r \in working
    /\ working' = working \ {r}
    /\ asked' = asked \ {r}
    /\ UNCHANGED <<engine, halted, gate, equity, known, main, disp, ledger,
                   file, world, history>>

-----------------------------------------------------------------------------
\* Balances a process may see while it recovers; 0 is no account yet.
StartEquities == Equities \cup (IF LateAccount THEN {0} ELSE {})

Next ==
    \/ \E e \in StartEquities : Start(e)
    \/ Crash
    \/ DayRoll
    \/ \E r \in Refs : SubmitCheck(r)
    \/ LossHalt
    \/ SendOrder
    \/ SendFails
    \/ AuditSubmit
    \/ OperatorHalt
    \/ OperatorResume
    \/ \E auto \in BOOLEAN : Reconnect(auto)
    \/ \E auto \in BOOLEAN : ReconnectFails(auto)
    \/ Recover
    \/ \E r \in Refs : Cancel(r)
    \/ WriteState
    \/ \E e \in Equities : AccountUpdate(e)
    \/ DispatchHalt
    \/ Disconnect
    \/ \E r \in Refs : OnOrder(r)
    \/ \E r \in Refs : BrokerDone(r)

Spec == Init /\ [][Next]_vars

-----------------------------------------------------------------------------
(***************************************************************************)
(* Properties.                                                             *)
(***************************************************************************)

\* The memory of the gate is per-day state (risk.py, "call reset_day at the
\* session roll").  Nothing rolls it: it holds no order of another day but those
\* the process carried over midnight, which block their references until a
\* recovery reads the ledger; and between submissions it holds every order that
\* reached the broker today, unless a crash prevented a ledger entry.
CountsToday ==
    /\ gate.refs \subseteq tried \cup carried
    /\ up /\ main = Idle /\ lost = 0 =>
           {r \in Refs : sent[r] > 0} \subseteq gate.refs

\* The cap on orders and the test for duplicates hold for the day, over
\* crashes, restarts, recoveries and midnights: each crash between send_order
\* and the ledger entry is worth one order more and nothing else is.
DailyCapHolds ==
    /\ total <= limits.orders + lost
    /\ \A r \in Refs : sent[r] <= 1 + lost

\* The kill-switch races a submission that has passed its test: at most that
\* one order leaves after a halt, whoever halts and for however long.
AtMostOneAfterHalt == after <= 1

\* An order that leaves was checked at an equity above the stop, measured from
\* the first baseline of the day that a process has saved, whichever process
\* that was and however often the daemon has been restarted since.  A process
\* that lives through midnight saves the baseline of the day before.
LossStopHolds ==
    main.pc \in {"send", "audit"} => ~Loses(base, main.equity, limits.daily)

\* A loss halt is latched (test_live_engine.py, "latched_and_not_auto_resumed"):
\* once it is in the ledger no order passes the gate before an operator has
\* resumed, through reconnects with auto_resume, recoveries and restarts.
LatchedUntilResumed ==
    [][main.pc = "idle" /\ main'.pc = "send" => ~tripped]_vars
=============================================================================
