----------------------------- MODULE Execution -----------------------------
(***************************************************************************)
(* The recoverable execution of one portfolio target:                      *)
(*                                                                         *)
(*   - ExecutionCoordinator (systems/trading/execution.py): the persisted  *)
(*     phases PLANNED, SELLING, ..., COMPLETED and the journal of children;*)
(*   - the rows of StrategyRuntimeStore that survive a crash;              *)
(*   - the account and route adapters (systems/live/execution_adapter.py), *)
(*     which read the in-memory OMS of the runtime;                        *)
(*   - the broker, external to the repository, whose truth the OMS follows *)
(*     with a delay.                                                       *)
(*                                                                         *)
(* The daemon thread runs the coordinator, the dispatch thread of the      *)
(* gateway updates the OMS, and the broker moves on its own: an order      *)
(* report and a fill report are two callbacks, so the coordinator can run  *)
(* between them.  FillsFirst says that a fill is applied before the order  *)
(* report that counts it, as the paper broker does; the XTP-family gateway *)
(* emits the order first.                                                  *)
(* Every store call commits by itself: the routing loop is cut at each of  *)
(* them, and a crash can strike at any cut and between the rows that       *)
(* _wait_phase and recover write.  A gateway that wraps an SDK also polls  *)
(* the positions of the account ("poll").                                  *)
(*                                                                         *)
(* Left out: prices and cash, the wording of errors, the order_id column,  *)
(* the append-only evidence tables (plan_attempts, order_reconciliation).  *)
(***************************************************************************)
EXTENDS Planner

CONSTANTS Holdings,      \* set of opening books, [Instruments -> Nat]
          Targets,       \* set of target books, [Instruments -> Nat]
          LockedSets,    \* set of sets of untradable <<instrument, side>>
          MaxReplans,    \* ExecutionCoordinator.max_replans
          FillsFirst,    \* TRUE: an order report follows the fills it counts
          MaxCrashes,    \* bound on process crashes
          Disturbances   \* what the world may do to the plan

ASSUME ExecutionAssumption ==
    /\ Holdings \subseteq [Instruments -> Nat]
    /\ Targets \subseteq [Instruments -> Nat]
    /\ LockedSets \subseteq SUBSET (Instruments \X Sides)
    /\ MaxReplans \in Nat \ {0}
    /\ FillsFirst \in BOOLEAN
    /\ MaxCrashes \in Nat
    /\ Disturbances \subseteq {"expire", "external", "operator", "malformed", "poll"}

VARIABLES
  \* StrategyRuntimeStore, durable
  phase,      \* execution_plan_state.phase, "none" before begin
  mode,       \* payload.route_mode
  target,     \* payload.target
  locked,     \* payload.quotes
  plan,       \* payload.plan, a set of children
  replans,    \* payload.replans
  next,       \* next_child_index
  journal,    \* child_orders: reference -> status
  captured,   \* fill_reconciliation: reference -> filled volume recorded
  \* the coordinator's thread, lost in a crash
  pc,         \* "down", "idle", "routing", "submit" or "ack"
  todo,       \* children the routing loop has not reached
  cur,        \* the child being routed
  accepted,   \* submit_child returned an order id
  submitted,  \* _route_phase.submitted
  \* the OMS, lost in a crash
  seen,       \* orders: reference -> last report
  applied,    \* reference -> volume of its fills in trades and positions
  pos,        \* volume of each instrument
  yd,         \* sellable volume before working sells
  work,       \* remaining volume of active orders, by instrument and side
  \* the broker and the account
  ord,        \* reference -> [vol, traded, status]
  hold,       \* true volume of each instrument
  ydtrue,     \* true sellable volume
  \* the world
  expired,    \* the clock has passed target.valid_until
  external,   \* the account breaks the boundary of the instance
  crashes,
  \* history
  sent,       \* reference -> number of submissions that reached the broker
  routed,     \* [inst, side] -> volume submitted to the broker
  opening     \* the true book when the plan was made

store == <<phase, mode, target, locked, plan, replans, next, journal, captured>>
thread == <<pc, todo, cur, accepted, submitted>>
oms == <<seen, applied, pos, yd, work>>
broker == <<ord, hold, ydtrue>>
world == <<expired, external, crashes>>
history == <<sent, routed, opening>>
vars == <<store, thread, oms, broker, world, history>>

Phases == {"none", "planned", "selling", "waiting_sell_reports",
           "refreshing_account", "buying", "final_reconcile", "completed",
           "paused"}
Modes == {"routed", "shadow", "disabled"}
Working == {"submitting", "nottraded", "parttraded"}      \* OMS active states
Failed == {"rejected", "cancelled"}
Terminal == Failed \cup {"alltraded"}                     \* _TERMINAL
OrderStates == Working \cup Terminal
JournalStates == OrderStates \cup {"routing", "submitted"}

NoChild == [inst |-> "none", side |-> "none", idx |-> 0, vol |-> 0]

\* A partial function f with f[k] set to v.
Put(f, k, v) == [x \in DOMAIN f \cup {k} |-> IF x = k THEN v ELSE f[x]]

NoOrder == [vol |-> 0, traded |-> 0, status |-> "none"]

Empty == [x \in {} |-> 0]

At(f, k, default) == IF k \in DOMAIN f THEN f[k] ELSE default

Acct == [pos |-> pos, yd |-> yd, work |-> work]

\* Mutant: the phase does not select the side.
AllChildren(side) == plan

ChildrenOn(side) == { c \in plan : c.side = side }

Remaining(o) == IF o.status \in Working THEN o.vol - o.traded ELSE 0

-----------------------------------------------------------------------------
(* Initial states *)

Init ==
    /\ phase = "none" /\ plan = {} /\ replans = 0
    /\ mode \in Modes /\ target \in Targets /\ locked \in LockedSets
    /\ next = [k \in Instruments \X Sides |-> 0]
    /\ journal = Empty /\ captured = Empty
    /\ pc = "idle" /\ todo = {} /\ cur = NoChild
    /\ accepted = FALSE /\ submitted = FALSE
    /\ seen = Empty /\ applied = Empty
    /\ hold \in Holdings /\ pos = hold /\ opening = hold
    /\ ydtrue \in { y \in [Instruments -> UNION { 0..h[i] : h \in Holdings, i \in Instruments }] :
                      \A i \in Instruments : y[i] <= hold[i] }
    /\ yd = ydtrue
    /\ work = [k \in Instruments \X Sides |-> 0]
    /\ ord = Empty
    /\ expired = FALSE /\ external = FALSE /\ crashes = 0
    /\ sent = Empty
    /\ routed = [k \in Instruments \X Sides |-> 0]

-----------------------------------------------------------------------------
(* Persisting a phase *)

\* _save with the payload and the indices unchanged.
Save(p) ==
    /\ phase' = p
    /\ UNCHANGED <<mode, target, locked, plan, replans, next>>

\* _pause persists the payload as it was read.
PausePlan == Save("paused")

\* Mutant: the last index is not skipped.
NextIndicesReused(children) ==
    [k \in Instruments \X Sides |->
        LET used == { c.idx : c \in { d \in children : <<d.inst, d.side>> = k } }
        IN  CHOOSE n \in used \cup {next[k]} :
                \A m \in used \cup {next[k]} : n >= m]

\* _next_indices
NextIndices(children) ==
    [k \in Instruments \X Sides |->
        LET used == { c.idx + 1 : c \in { d \in children : <<d.inst, d.side>> = k } }
        IN  CHOOSE n \in used \cup {next[k]} :
                \A m \in used \cup {next[k]} : n >= m]

-----------------------------------------------------------------------------
(* begin: persist the plan, blocked when the planner reports issues *)

Begin ==
    /\ pc = "idle" /\ phase = "none"
    /\ LET children == Plan(target, Acct, locked, next)
       IN  /\ plan' = children
           /\ next' = NextIndices(children)
           /\ phase' = IF Issues(target, Acct, locked) = {} THEN "planned" ELSE "paused"
    /\ UNCHANGED <<mode, target, locked, replans, journal, captured, thread, oms,
                   broker, world, history>>

-----------------------------------------------------------------------------
(* advance: one persisted phase at a time *)

Open == phase \notin {"none", "completed", "paused"}

\* The checks advance makes before it looks at the phase.
AdvanceExpired ==
    /\ pc = "idle" /\ Open /\ expired
    /\ PausePlan
    /\ UNCHANGED <<journal, captured, thread, oms, broker, world, history>>

AdvanceBoundary ==
    /\ pc = "idle" /\ Open /\ ~expired /\ external
    /\ PausePlan
    /\ UNCHANGED <<journal, captured, thread, oms, broker, world, history>>

Ready == pc = "idle" /\ ~expired /\ ~external

\* SHADOW walks through the phases and never touches the route port.
ShadowNext == [planned |-> "selling",
               selling |-> "waiting_sell_reports",
               waiting_sell_reports |-> "refreshing_account",
               refreshing_account |-> "buying",
               buying |-> "final_reconcile",
               final_reconcile |-> "completed"]

AdvanceShadow ==
    /\ Ready /\ Open /\ mode = "shadow"
    /\ Save(ShadowNext[phase])
    /\ UNCHANGED <<journal, captured, thread, oms, broker, world, history>>

AdvanceDisabled ==
    /\ Ready /\ Open /\ mode = "disabled"
    /\ PausePlan
    /\ UNCHANGED <<journal, captured, thread, oms, broker, world, history>>

Routing(p) == Ready /\ mode = "routed" /\ phase = p

AdvancePlanned ==
    /\ Routing("planned")
    /\ Save(IF ChildrenOn("sell") # {} THEN "selling" ELSE "refreshing_account")
    /\ UNCHANGED <<journal, captured, thread, oms, broker, world, history>>

\* _route_phase enters its loop, or moves on when there is nothing to route.
RouteStart(p, side, done) ==
    /\ Routing(p)
    /\ IF ChildrenOn(side) = {}
       THEN Save(done) /\ UNCHANGED <<pc, todo, submitted>>
       ELSE /\ pc' = "routing" /\ todo' = ChildrenOn(side) /\ submitted' = FALSE
            /\ Save(p)
    /\ UNCHANGED <<cur, accepted, journal, captured, oms, broker, world, history>>

\* Mutant: only broker truth is consulted.
KnownToBroker(c) == Ref(c) \in DOMAIN seen

\* A child that the broker or the journal knows is never routed again.
Known(c) == Ref(c) \in DOMAIN seen \/ Ref(c) \in DOMAIN journal

RouteSkip(c) ==
    /\ pc = "routing" /\ c \in todo /\ Known(c)
    /\ todo' = todo \ {c}
    /\ UNCHANGED <<pc, cur, accepted, submitted, store, oms, broker, world, history>>

\* Mutant: the journal row is written after the submission only.
RouteUnjournalled(c) ==
    /\ pc = "routing" /\ c \in todo /\ ~Known(c)
    /\ pc' = "submit" /\ cur' = c
    /\ UNCHANGED <<store, todo, accepted, submitted, oms, broker, world, history>>

\* record_child_order(..., status="routing") commits before the submission.
RouteJournal(c) ==
    /\ pc = "routing" /\ c \in todo /\ ~Known(c)
    /\ journal' = Put(journal, Ref(c), "routing")
    /\ pc' = "submit" /\ cur' = c
    /\ UNCHANGED <<phase, mode, target, locked, plan, replans, next, captured,
                   todo, accepted, submitted, oms, broker, world, history>>

\* submit_child returns no order id: the authorizer or the risk gate refused.
SubmitDenied ==
    /\ pc = "submit"
    /\ accepted' = FALSE /\ pc' = "ack"
    /\ UNCHANGED <<todo, cur, submitted, store, oms, broker, world, history>>

\* submit_child hands the order to the broker.
SubmitAccepted ==
    /\ pc = "submit"
    /\ accepted' = TRUE /\ pc' = "ack"
    /\ ord' = Put(ord, Ref(cur), [vol |-> cur.vol, traded |-> 0, status |-> "submitting"])
    /\ sent' = Put(sent, Ref(cur), At(sent, Ref(cur), 0) + 1)
    /\ routed' = [routed EXCEPT ![<<cur.inst, cur.side>>] = @ + cur.vol]
    /\ UNCHANGED <<todo, cur, submitted, store, oms, hold, ydtrue, world, opening>>

\* update_child_order with the outcome of the submission
RouteAck ==
    /\ pc = "ack"
    /\ journal' = Put(journal, Ref(cur), IF accepted THEN "submitted" ELSE "rejected")
    /\ submitted' = (submitted \/ accepted)
    /\ todo' = todo \ {cur} /\ cur' = NoChild /\ pc' = "routing"
    /\ UNCHANGED <<phase, mode, target, locked, plan, replans, next, captured,
                   accepted, oms, broker, world, history>>

\* The loop is over and there are reports to wait for.
RouteWait(p, side, waiting) ==
    /\ pc = "routing" /\ todo = {} /\ phase = p
    /\ side = "buy" => submitted
    /\ Save(waiting) /\ pc' = "idle"
    /\ UNCHANGED <<journal, captured, todo, cur, accepted, submitted, oms, broker,
                   world, history>>

-----------------------------------------------------------------------------
(* _wait_phase: the reports of the children of one side *)

RefsOn(side) == { Ref(c) : c \in ChildrenOn(side) }

Unknown(side) == { r \in RefsOn(side) \ DOMAIN seen : At(journal, r, "") \notin Terminal }

NotFilled(side) == { r \in RefsOn(side) :
    IF r \in DOMAIN seen THEN seen[r].status \in Failed ELSE At(journal, r, "") \in Failed }

StillActive(side) == { r \in RefsOn(side) \cap DOMAIN seen : seen[r].status \in Working }

\* Broker truth replaces the journalled status of every reported reference.
Reconciled(refs) ==
    [r \in DOMAIN journal |-> IF r \in refs \cap DOMAIN seen THEN seen[r].status ELSE journal[r]]

\* Mutant: fills are read but not recorded.
CapturedNothing(refs) == captured

\* child_fills: a fill finds its child through the order the OMS holds.
Fills(refs) == refs \cap DOMAIN applied \cap DOMAIN seen

\* _capture_fills records every fill the route adapter returns.
Captured(refs) ==
    [r \in DOMAIN captured \cup Fills(refs) |->
        IF r \in Fills(refs) THEN applied[r] ELSE captured[r]]

\* A fill without a stable key, volume or price makes _capture_fills raise.
Malformed(refs) ==
    "malformed" \in Disturbances /\ \E r \in Fills(refs) : applied[r] > 0

\* Mutant: orders that are still working do not hold the phase.
WaitVerdictHasty(side, done, malformed) ==
    IF malformed \/ Unknown(side) # {} \/ NotFilled(side) # {} THEN "paused" ELSE done

WaitVerdict(side, done, malformed) ==
    IF malformed \/ Unknown(side) # {} \/ NotFilled(side) # {} THEN "paused"
    ELSE IF StillActive(side) # {} THEN phase
    ELSE done

Wait(side, done) ==
    /\ journal' = Reconciled(RefsOn(side))
    /\ \E malformed \in BOOLEAN :
         /\ malformed => Malformed(RefsOn(side))
         /\ captured' = IF malformed THEN captured ELSE Captured(RefsOn(side))
         /\ Save(WaitVerdict(side, done, malformed))

\* BUYING waits in the same call when its loop submitted nothing.
BuyWait ==
    /\ pc = "routing" /\ todo = {} /\ phase = "buying" /\ ~submitted
    /\ Wait("buy", "final_reconcile") /\ pc' = "idle"
    /\ UNCHANGED <<todo, cur, accepted, submitted, oms, broker, world, history>>

SellWait ==
    /\ Routing("waiting_sell_reports")
    /\ Wait("sell", "refreshing_account")
    /\ UNCHANGED <<thread, oms, broker, world, history>>

-----------------------------------------------------------------------------
(* _refresh: replan against the account as the OMS shows it *)

\* Mutant: the bound is compared before the increment.
RefreshBlockedLate == Issues(target, Acct, locked) # {} \/ replans > MaxReplans

RefreshBlocked == Issues(target, Acct, locked) # {} \/ replans + 1 > MaxReplans

RefreshPhase(children) ==
    IF \E c \in children : c.side = "sell" THEN "selling"
    ELSE IF children # {} THEN "buying" ELSE "final_reconcile"

\* Mutant: a replan is not counted.
RefreshUncounted ==
    \/ RefreshBlocked /\ PausePlan
    \/ /\ ~RefreshBlocked
       /\ LET children == Plan(target, Acct, locked, next)
          IN  /\ plan' = children
              /\ next' = NextIndices(children)
              /\ phase' = RefreshPhase(children)
       /\ UNCHANGED <<mode, target, locked, replans>>

Refresh ==
    \/ RefreshBlocked /\ PausePlan
    \/ /\ ~RefreshBlocked
       /\ LET children == Plan(target, Acct, locked, next)
          IN  /\ plan' = children
              /\ next' = NextIndices(children)
              /\ phase' = RefreshPhase(children)
       /\ replans' = replans + 1
       /\ UNCHANGED <<mode, target, locked>>

AdvanceRefresh ==
    /\ Routing("refreshing_account")
    /\ Refresh
    /\ UNCHANGED <<journal, captured, thread, oms, broker, world, history>>

\* Mutant: holdings that the target does not name are not compared.
OnNamedTarget == \A i \in Instruments : target[i] > 0 => pos[i] = target[i]

OnTarget == pos = target /\ \A k \in DOMAIN work : work[k] = 0

\* _final_reconcile polls the buys again and compares a fresh snapshot.  A buy
\* that is still active does not stop it: _wait_phase then returns the state as
\* it was, whose phase is FINAL_RECONCILE.
FinalReconcile ==
    /\ Routing("final_reconcile")
    /\ journal' = Reconciled(RefsOn("buy"))
    /\ \E malformed \in BOOLEAN :
         /\ malformed => Malformed(RefsOn("buy"))
         /\ captured' = IF malformed THEN captured ELSE Captured(RefsOn("buy"))
         /\ IF malformed \/ Unknown("buy") # {} \/ NotFilled("buy") # {}
            THEN PausePlan
            ELSE IF OnTarget THEN Save("completed") ELSE Refresh
    /\ UNCHANGED <<thread, oms, broker, world, history>>

-----------------------------------------------------------------------------
(* pause, recover and restart *)

\* Mutant: the pause is taken by another thread than the routing loop.
OperatorPauseAnytime ==
    /\ "operator" \in Disturbances
    /\ phase \notin {"none", "completed"}
    /\ PausePlan
    /\ UNCHANGED <<journal, captured, thread, oms, broker, world, history>>

\* The operator pauses the deployment: the runner pauses every unfinished plan.
\* The cancellations it requests are broker moves.
OperatorPause ==
    /\ "operator" \in Disturbances
    /\ pc = "idle" /\ phase \notin {"none", "completed"}
    /\ PausePlan
    /\ UNCHANGED <<journal, captured, thread, oms, broker, world, history>>

PlanRefs == { Ref(c) : c \in plan }

\* The children of the plan that were journalled, and those among them without
\* broker truth.
Journalled == PlanRefs \cap DOMAIN journal

Missing == { r \in Journalled \ DOMAIN seen : journal[r] \notin Terminal }

\* recover: the journalled children of the plan must have broker truth.
Recover ==
    /\ pc = "idle" /\ phase \notin {"none", "completed"}
    /\ \/ /\ external \/ Missing # {}
          /\ PausePlan /\ UNCHANGED <<journal, captured>>
       \/ /\ ~external /\ Missing = {}
          /\ journal' = Reconciled(Journalled)
          /\ \/ Malformed(Journalled) /\ PausePlan /\ UNCHANGED captured
             \/ captured' = Captured(Journalled) /\ Save(phase)
    /\ UNCHANGED <<thread, oms, broker, world, history>>

Die ==
    /\ crashes < MaxCrashes /\ crashes' = crashes + 1
    /\ pc' = "down" /\ todo' = {} /\ cur' = NoChild
    /\ accepted' = FALSE /\ submitted' = FALSE
    /\ UNCHANGED <<phase, mode, target, locked, plan, replans, next, oms, broker,
                   expired, external, history>>

\* The process dies; what is not in the store is gone.
Crash == pc # "down" /\ Die /\ UNCHANGED <<journal, captured>>

\* The rows of refs are written one by one, the fills after all of them.
HalfReconciled(refs) ==
    \E rows, fills \in SUBSET refs :
        /\ fills # {} => rows = refs
        /\ journal' = Reconciled(rows) /\ captured' = Captured(fills)

\* It dies inside _wait_phase or recover, before the phase is written.
CrashReporting ==
    /\ \/ Routing("waiting_sell_reports") /\ HalfReconciled(RefsOn("sell"))
       \/ Routing("final_reconcile") /\ HalfReconciled(RefsOn("buy"))
       \/ /\ pc = "routing" /\ todo = {} /\ phase = "buying" /\ ~submitted
          /\ HalfReconciled(RefsOn("buy"))
       \/ /\ pc = "idle" /\ phase \notin {"none", "completed"} /\ ~external /\ Missing = {}
          /\ HalfReconciled(Journalled)
    /\ Die

\* A new process has connected and queried the positions.  The replies to its
\* queries for orders and then for trades are delivered one by one afterwards, and
\* the new OMS applies all fills of the day to positions that contain them.
Restart ==
    /\ pc = "down" /\ pc' = "idle"
    /\ seen' = Empty /\ applied' = Empty
    /\ pos' = hold /\ yd' = ydtrue
    /\ work' = [k \in Instruments \X Sides |-> 0]
    /\ UNCHANGED <<store, todo, cur, accepted, submitted, broker, world, history>>

-----------------------------------------------------------------------------
(* The dispatch thread: reports reach the OMS *)

Up == pc # "down"

\* OMS.on_order with the broker's present state of the order.  A new process asks
\* for the orders before it asks for the fills.
DeliverOrder(r) ==
    /\ Up /\ r \in DOMAIN ord
    /\ At(seen, r, NoOrder) # ord[r]
    /\ FillsFirst /\ crashes = 0 => At(applied, r, 0) = ord[r].traded
    /\ seen' = Put(seen, r, ord[r])
    /\ work' = [work EXCEPT ![<<r[1], r[2]>>] =
                    @ - Remaining(At(seen, r, NoOrder)) + Remaining(ord[r])]
    /\ UNCHANGED <<applied, pos, yd, store, thread, broker, world, history>>

\* Mutant: a fill that is replayed is applied again.
DeliverFillsAgain(r) ==
    /\ Up /\ r \in DOMAIN ord /\ ord[r].traded > 0
    /\ applied' = Put(applied, r, ord[r].traded)
    /\ pos' = [pos EXCEPT ![r[1]] =
                    IF r[2] = "buy" THEN @ + ord[r].traded ELSE Greatest(@ - ord[r].traded, 0)]
    /\ UNCHANGED <<seen, yd, work, store, thread, broker, world, history>>

\* OMS.on_trade with the fills not yet applied
DeliverFills(r) ==
    /\ Up /\ r \in DOMAIN ord
    /\ At(applied, r, 0) # ord[r].traded
    /\ applied' = Put(applied, r, ord[r].traded)
    /\ LET v == ord[r].traded - At(applied, r, 0)
       IN  IF r[2] = "buy"
           THEN pos' = [pos EXCEPT ![r[1]] = @ + v] /\ UNCHANGED yd
           ELSE /\ pos' = [pos EXCEPT ![r[1]] = Greatest(@ - v, 0)]
                /\ yd' = [yd EXCEPT ![r[1]] = Greatest(@ - v, 0)]
    /\ UNCHANGED <<seen, work, store, thread, broker, world, history>>

\* OMS.on_position with the reply to the periodic query of the gateway
PollPositions ==
    /\ Up /\ "poll" \in Disturbances /\ <<pos, yd>> # <<hold, ydtrue>>
    /\ pos' = hold /\ yd' = ydtrue
    /\ UNCHANGED <<seen, applied, work, store, thread, broker, world, history>>

-----------------------------------------------------------------------------
(* The broker (external) *)

BrokerMove(r, o) ==
    /\ ord' = [ord EXCEPT ![r] = o]
    /\ UNCHANGED <<store, thread, oms, world, history>>

\* The order rests at the exchange.
BrokerAccept(r) ==
    /\ ord[r].status = "submitting"
    /\ BrokerMove(r, [ord[r] EXCEPT !.status = "nottraded"])
    /\ UNCHANGED <<hold, ydtrue>>

\* v shares trade; T+1: only settled shares can be sold.
BrokerFill(r, v) ==
    /\ ord[r].status \in Working /\ v \in 1..(ord[r].vol - ord[r].traded)
    /\ LET t == ord[r].traded + v
       IN  BrokerMove(r, [ord[r] EXCEPT !.traded = t,
                !.status = IF t = ord[r].vol THEN "alltraded" ELSE "parttraded"])
    /\ IF r[2] = "buy"
       THEN hold' = [hold EXCEPT ![r[1]] = @ + v] /\ UNCHANGED ydtrue
       ELSE /\ v <= ydtrue[r[1]]
            /\ hold' = [hold EXCEPT ![r[1]] = @ - v]
            /\ ydtrue' = [ydtrue EXCEPT ![r[1]] = @ - v]

BrokerClose(r) ==
    /\ ord[r].status \in Working
    /\ \E s \in Failed :
         /\ s = "rejected" => ord[r].traded = 0
         /\ BrokerMove(r, [ord[r] EXCEPT !.status = s])
    /\ UNCHANGED <<hold, ydtrue>>

-----------------------------------------------------------------------------
(* The world *)

Expire ==
    /\ "expire" \in Disturbances /\ ~expired /\ expired' = TRUE
    /\ UNCHANGED <<store, thread, oms, broker, external, crashes, history>>

\* An order or a holding of somebody else appears in or leaves the account.
External ==
    /\ "external" \in Disturbances /\ external' = ~external
    /\ UNCHANGED <<store, thread, oms, broker, expired, crashes, history>>

-----------------------------------------------------------------------------
Advance ==
    \/ AdvanceExpired \/ AdvanceBoundary \/ AdvanceShadow \/ AdvanceDisabled
    \/ AdvancePlanned
    \/ RouteStart("selling", "sell", "refreshing_account")
    \/ RouteStart("buying", "buy", "final_reconcile")
    \/ \E c \in todo : RouteSkip(c) \/ RouteJournal(c)
    \/ SubmitDenied \/ SubmitAccepted \/ RouteAck
    \/ RouteWait("selling", "sell", "waiting_sell_reports")
    \/ RouteWait("buying", "buy", "buying")
    \/ BuyWait \/ SellWait \/ AdvanceRefresh \/ FinalReconcile

Deliver == \E r \in DOMAIN ord : DeliverOrder(r) \/ DeliverFills(r)

Broker == \E r \in DOMAIN ord :
    \/ BrokerAccept(r) \/ BrokerClose(r)
    \/ \E v \in 1..ord[r].vol : BrokerFill(r, v)

Next ==
    \/ Begin \/ Advance \/ OperatorPause \/ Recover \/ Crash \/ CrashReporting \/ Restart
    \/ Deliver \/ PollPositions \/ Broker \/ Expire \/ External

\* The daemon loop keeps stepping the runner and restarts are made; the
\* dispatch thread drains its queue; an exchange closes every order by the end
\* of the day.
Fairness ==
    /\ WF_vars(Begin) /\ WF_vars(Advance) /\ WF_vars(Restart)
    /\ WF_vars(Deliver) /\ WF_vars(Broker)

Spec == Init /\ [][Next]_vars /\ Fairness
-----------------------------------------------------------------------------
(* Correctness *)

Refs == Instruments \X Sides \X Nat

Orders == [vol : Int, traded : Int, status : OrderStates]

StoreTypeOK ==
    /\ phase \in Phases /\ mode \in Modes
    /\ target \in [Instruments -> Nat] /\ locked \subseteq Instruments \X Sides
    /\ plan \subseteq Children
    /\ replans \in 0..MaxReplans
    /\ next \in [Instruments \X Sides -> Nat]
    /\ DOMAIN journal \subseteq Refs /\ \A r \in DOMAIN journal : journal[r] \in JournalStates
    /\ DOMAIN captured \subseteq DOMAIN ord

ThreadTypeOK ==
    /\ pc \in {"down", "idle", "routing", "submit", "ack"}
    /\ todo \subseteq plan /\ (pc \in {"submit", "ack"} => cur \in todo)
    /\ pc \in {"idle", "down"} => todo = {}
    /\ accepted \in BOOLEAN /\ submitted \in BOOLEAN

OmsTypeOK ==
    /\ DOMAIN seen \subseteq DOMAIN ord /\ \A r \in DOMAIN seen : seen[r] \in Orders
    /\ DOMAIN applied \subseteq DOMAIN ord /\ \A r \in DOMAIN applied : applied[r] \in Int
    /\ pos \in [Instruments -> Int] /\ yd \in [Instruments -> Int]
    /\ work \in [Instruments \X Sides -> Int]

BrokerTypeOK ==
    /\ DOMAIN ord \subseteq Refs /\ \A r \in DOMAIN ord : ord[r] \in Orders
    /\ hold \in [Instruments -> Int] /\ ydtrue \in [Instruments -> Int]
    /\ expired \in BOOLEAN /\ external \in BOOLEAN /\ crashes \in Nat

\* Every variable holds a value of its kind: the phases, the journalled and
\* reported statuses, references as keys, volumes as integers; the routing loop
\* works on children of the plan and is over when the thread is idle.
TypeOK == StoreTypeOK /\ ThreadTypeOK /\ OmsTypeOK /\ BrokerTypeOK

\* No reference is submitted to the broker twice, over all crashes, restarts
\* and replans: _route_phase journals a child before it submits it and never
\* submits a child that the journal or the broker knows.
SubmitAtMostOnce == \A r \in DOMAIN sent : sent[r] <= 1

OpenAtBroker == { r \in DOMAIN ord : ord[r].status \in Working }

\* A buy and a sell are never open at the broker together: the buys of a plan
\* wait for the terminal report of every sell, and a replan that sells again
\* waits for every buy.
SellsBeforeBuys ==
    \A r, q \in OpenAtBroker : r[2] = q[2]

\* Whatever reached the broker has a journal row to recover it by, and a
\* reference the coordinator has not reached yet has neither.
JournalCoversBroker ==
    /\ DOMAIN ord \subseteq DOMAIN journal
    /\ pc = "submit" => Ref(cur) \notin DOMAIN ord

\* The orders of a plan never trade an instrument beyond its target: the volume
\* sent for one side stays within the distance between the opening book and the
\* target, so a fill that is reported late is not taken for a remaining delta
\* and ordered again by _refresh.  A restarted process is excepted: it counts the
\* fills of the day twice, and plans with that book.
NoDuplicateOrder ==
    crashes = 0 =>
        \A i \in Instruments :
            /\ routed[<<i, "buy">>] <= Greatest(target[i] - opening[i], 0)
            /\ routed[<<i, "sell">>] <= Greatest(opening[i] - target[i], 0)

\* The OMS of the process that began the plan counts every fill once: when no fill
\* is on its way its holdings are those of the account.
CountedOnce ==
    (crashes = 0 /\ \A r \in DOMAIN ord : At(applied, r, 0) = ord[r].traded) => pos = hold

\* A routed plan that is COMPLETED in the process that began it has the target book
\* at the broker and no order left open.
CompletedIsTrue ==
    phase = "completed" /\ mode = "routed" /\ crashes = 0 =>
        hold = target /\ OpenAtBroker = {}

\* Fills are durable before the plan goes on, as the comment in _wait_phase
\* demands: those of the sells before the buys, all of them at the end. A crash
\* between the status row and the fill rows loses them, so it is excepted.
FillsDurable ==
    mode = "routed" /\ crashes = 0 =>
        \A r \in DOMAIN ord :
            \/ phase \in {"refreshing_account", "buying", "final_reconcile"} /\ r[2] = "sell"
            \/ phase = "completed"
            => At(captured, r, 0) = ord[r].traded

\* Every replan numbers its children with references the journal does not hold,
\* also when the previous plan was only partly routed.
ReplanIsFresh ==
    [][replans' # replans => \A c \in plan' : Ref(c) \notin DOMAIN journal]_vars

\* A paused or completed plan sends no order any more, even after a restart.
StoppedSendsNothing ==
    [][(phase \in {"paused", "completed"}) => DOMAIN ord' = DOMAIN ord]_vars

\* Every plan comes to rest, COMPLETED or PAUSED for reconciliation; no phase
\* waits for ever.
ComesToRest == <>(phase \in {"completed", "paused"})

RefSide(r) == r[2]

\* The execution implements the abstract promise: an order is sent at most once
\* and the two sides are never open together.
Promise == INSTANCE SellThenBuy WITH
    SideOfRef <- RefSide,
    used <- DOMAIN ord,
    closed <- { r \in DOMAIN ord : ord[r].status \in Terminal }

ImplementsPromise == Promise!Spec
=============================================================================
