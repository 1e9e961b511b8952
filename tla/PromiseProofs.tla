--------------------------- MODULE PromiseProofs ---------------------------
(***************************************************************************)
(* Execution implements SellThenBuy, and a replan numbers its children     *)
(* afresh, for every universe, book, bound and order of the reports.       *)
(***************************************************************************)
EXTENDS ExecutionProofs

(***************************************************************************)
(* That no buy is sent while a sell is open rests on a phase being left    *)
(* only when the orders of its side are closed.  The coordinator does not  *)
(* see the broker: it sees reports and journal rows.  So the invariant     *)
(* says that both lag behind the broker (a terminal report or row means a  *)
(* closed order), and that what is open in a phase belongs to its side of  *)
(* the present plan.                                                       *)
(***************************************************************************)
ReportsLag ==
    /\ \A r \in DOMAIN seen : seen[r].status \in Terminal => ord[r].status \in Terminal
    /\ \A r \in DOMAIN ord : journal[r] \in Terminal => ord[r].status \in Terminal
    /\ pc = "submit" => journal[Ref(cur)] = "routing"
    /\ pc = "ack" /\ ~accepted => Ref(cur) \notin DOMAIN ord

PhaseSide == IF phase \in {"selling", "waiting_sell_reports"} THEN "sell" ELSE "buy"

OpenByPhase ==
    /\ phase \in {"none", "planned"} \/ mode # "routed" => DOMAIN ord = {}
    /\ phase \in {"refreshing_account", "final_reconcile", "completed"} => OpenAtBroker = {}
    /\ phase \in {"selling", "waiting_sell_reports", "buying"} => OpenAtBroker \subseteq RefsOn(PhaseSide)

LoopOnSide ==
    pc \in {"routing", "submit", "ack"} =>
        mode = "routed" /\ phase \in {"selling", "buying"} /\ todo \subseteq ChildrenOn(PhaseSide)

SideInv == SellsBeforeBuys /\ ReportsLag /\ OpenByPhase /\ LoopOnSide

\* The states in which steps are taken.
Inv == TypeOK /\ JournalInv /\ SideInv

\* The invariant holds initially.
LEMMA SideInit == Init => SideInv
  BY EmptyDomain DEF Init, SideInv, SellsBeforeBuys, ReportsLag, OpenByPhase, LoopOnSide, OpenAtBroker

\* An order is either working or closed, never both.
LEMMA OpenOrClosed == Working \cap Terminal = {} /\ OrderStates = Working \cup Terminal
  BY DEF Working, Terminal, Failed, OrderStates

\* _wait_phase finds nothing unknown, failed or active: the orders of the side
\* are closed at the broker.
LEMMA SideClosed ==
    ASSUME Inv, NEW side, OpenAtBroker \subseteq RefsOn(side),
           Unknown(side) = {}, NotFilled(side) = {}, StillActive(side) = {}
    PROVE  OpenAtBroker = {}
  <1> SUFFICES ASSUME NEW r \in OpenAtBroker PROVE FALSE
    OBVIOUS
  <1>1. r \in DOMAIN ord /\ ord[r].status \in Working /\ r \in RefsOn(side)
    BY DEF OpenAtBroker
  <1>2. CASE r \in DOMAIN seen
    <2>1. seen[r].status \in OrderStates
      BY <1>2 DEF Inv, TypeOK, OmsTypeOK, Orders
    <2>2. seen[r].status \notin Working
      BY <1>1, <1>2 DEF StillActive
    <2> QED
      BY <1>1, <1>2, <2>1, <2>2, OpenOrClosed DEF Inv, SideInv, ReportsLag
  <1>3. CASE r \notin DOMAIN seen
    <2>1. At(journal, r, "") \in Terminal
      BY <1>1, <1>3 DEF Unknown
    <2>2. journal[r] \in Terminal
      BY <1>1, <2>1 DEF At, Inv, JournalInv
    <2> QED
      BY <1>1, <2>2, OpenOrClosed DEF Inv, SideInv, ReportsLag
  <1> QED
    BY <1>2, <1>3

\* Reconciled rows lag behind the broker too.
LEMMA ReconciledLag ==
    ASSUME Inv, NEW refs, NEW r \in DOMAIN ord, Reconciled(refs)[r] \in Terminal
    PROVE  ord[r].status \in Terminal
  BY DEF Inv, JournalInv, SideInv, ReportsLag, Reconciled

\* A step that leaves the orders and the reports alone and is not about a
\* submission: what is left to show concerns the phase.
LEMMA QuietSides ==
    ASSUME Inv, UNCHANGED <<ord, seen>>, pc' \notin {"submit", "ack"},
           journal' = journal \/ (\E refs : journal' = Reconciled(refs)),
           OpenByPhase', LoopOnSide'
    PROVE  SideInv'
  <1>1. SellsBeforeBuys'
    BY DEF Inv, SideInv, SellsBeforeBuys, OpenAtBroker
  <1>2. \A r \in DOMAIN ord' : journal'[r] \in Terminal => ord'[r].status \in Terminal
    BY ReconciledLag DEF Inv, SideInv, ReportsLag
  <1>3. ReportsLag'
    BY <1>2 DEF Inv, SideInv, ReportsLag
  <1> QED
    BY <1>1, <1>3 DEF SideInv

\* Leaving a phase for paused, or for a phase that asks no more.
LEMMA PhaseKept ==
    ASSUME Inv, UNCHANGED <<ord, mode, plan, phase>>
    PROVE  OpenByPhase'
  BY DEF Inv, SideInv, OpenByPhase, OpenAtBroker, PhaseSide, RefsOn, ChildrenOn

\* A pause asks nothing more of a routed plan.
LEMMA PauseOpen ==
    ASSUME Inv, UNCHANGED <<ord, mode>>, phase' = "paused"
    PROVE  OpenByPhase'
  BY DEF Inv, SideInv, OpenByPhase

\* With nothing open a routed plan may enter any later phase.
LEMMA ClosedOpen ==
    ASSUME Inv, UNCHANGED <<ord, mode>>, OpenAtBroker = {}, mode = "routed",
           phase' \notin {"none", "planned"}
    PROVE  OpenByPhase'
  <1>1. OpenAtBroker' = {}
    BY DEF OpenAtBroker
  <1> QED
    BY <1>1 DEF OpenByPhase

\* Without an order at the broker any phase will do.
LEMMA NoneOpen ==
    ASSUME Inv, UNCHANGED ord, DOMAIN ord = {}
    PROVE  OpenByPhase'
  BY DEF OpenByPhase, OpenAtBroker

\* _refresh replans with nothing open.
LEMMA RefreshOpen ==
    ASSUME Inv, UNCHANGED ord, OpenAtBroker = {}, mode = "routed", Refresh
    PROVE  OpenByPhase'
  BY PauseOpen, ClosedOpen DEF Refresh, PausePlan, Save, RefreshPhase

\* Every step of the coordinator, the OMS, the broker and the world keeps SideInv.
LEMMA SideStep == Inv /\ [Next]_vars => SideInv'
  <1> SUFFICES ASSUME Inv, [Next]_vars PROVE SideInv'
    OBVIOUS
  <1>1. CASE Begin
    <2>1. OpenByPhase' /\ LoopOnSide'
      BY <1>1, NoneOpen DEF Begin, Inv, SideInv, OpenByPhase, LoopOnSide, thread, broker
    <2> QED
      BY <1>1, <2>1, QuietSides DEF Begin, thread, oms, broker
  <1>2. CASE AdvanceExpired \/ AdvanceBoundary \/ AdvanceDisabled \/ OperatorPause
    <2>1. OpenByPhase'
      BY <1>2, PauseOpen DEF AdvanceExpired, AdvanceBoundary, AdvanceDisabled, OperatorPause,
         PausePlan, Save, broker
    <2>2. LoopOnSide'
      BY <1>2 DEF AdvanceExpired, AdvanceBoundary, AdvanceDisabled, OperatorPause, Ready,
         LoopOnSide, thread
    <2> QED
      BY <1>2, <2>1, <2>2, QuietSides DEF AdvanceExpired, AdvanceBoundary, AdvanceDisabled,
         OperatorPause, Ready, thread, oms, broker
  <1>3. CASE AdvanceShadow \/ AdvancePlanned
    <2>1. OpenByPhase'
      BY <1>3, NoneOpen DEF AdvanceShadow, AdvancePlanned, Routing, Inv, SideInv, OpenByPhase, broker
    <2>2. LoopOnSide'
      BY <1>3 DEF AdvanceShadow, AdvancePlanned, Routing, Ready, LoopOnSide, thread
    <2> QED
      BY <1>3, <2>1, <2>2, QuietSides DEF AdvanceShadow, AdvancePlanned, Routing, Ready,
         thread, oms, broker
  <1>4. ASSUME NEW p, NEW side, NEW done, RouteStart(p, side, done),
               \/ p = "selling" /\ side = "sell" /\ done = "refreshing_account"
               \/ p = "buying" /\ side = "buy" /\ done = "final_reconcile"
        PROVE  SideInv'
    <2>0. mode = "routed" /\ phase = p /\ pc = "idle" /\ PhaseSide = side
      BY <1>4 DEF RouteStart, Routing, Ready, PhaseSide
    <2>1. CASE ChildrenOn(side) = {}
      <3>1. OpenAtBroker = {}
        BY <1>4, <2>0, <2>1 DEF Inv, SideInv, OpenByPhase, RefsOn
      <3>2. OpenByPhase'
        BY <1>4, <2>0, <2>1, <3>1, ClosedOpen DEF RouteStart, Save, broker
      <3>3. LoopOnSide'
        BY <1>4, <2>0, <2>1 DEF RouteStart, LoopOnSide
      <3> QED
        BY <1>4, <2>0, <2>1, <3>2, <3>3, QuietSides DEF RouteStart, oms, broker
    <2>2. CASE ChildrenOn(side) # {}
      <3>1. OpenByPhase'
        BY <1>4, <2>0, <2>2, PhaseKept DEF RouteStart, Save, broker
      <3>2. LoopOnSide'
        BY <1>4, <2>0, <2>2 DEF RouteStart, Save, LoopOnSide, PhaseSide, ChildrenOn
      <3> QED
        BY <1>4, <2>2, <3>1, <3>2, QuietSides DEF RouteStart, oms, broker
    <2> QED
      BY <2>1, <2>2
  <1>5. ASSUME NEW c \in todo, RouteSkip(c) PROVE SideInv'
    <2>1. OpenByPhase'
      BY <1>5, PhaseKept DEF RouteSkip, store, broker
    <2>2. LoopOnSide'
      BY <1>5 DEF RouteSkip, store, Inv, SideInv, LoopOnSide, PhaseSide, ChildrenOn
    <2> QED
      BY <1>5, <2>1, <2>2, QuietSides DEF RouteSkip, store, oms, broker
  <1>6. ASSUME NEW c \in todo, RouteJournal(c) PROVE SideInv'
    <2>1. OpenByPhase'
      BY <1>6, PhaseKept DEF RouteJournal, broker
    <2>2. LoopOnSide'
      BY <1>6 DEF RouteJournal, Inv, SideInv, LoopOnSide, PhaseSide, ChildrenOn
    <2>3. SellsBeforeBuys'
      BY <1>6 DEF RouteJournal, Inv, SideInv, SellsBeforeBuys, OpenAtBroker, broker
    <2>4. Ref(c) \notin DOMAIN ord
      BY <1>6 DEF RouteJournal, Known, Inv, JournalInv
    <2>5. /\ journal'[Ref(c)] = "routing" /\ cur' = c /\ pc' = "submit"
          /\ \A r \in DOMAIN ord : journal'[r] = journal[r]
      BY <1>6, <2>4 DEF RouteJournal, Put, Inv, JournalInv
    <2>6. ReportsLag'
      BY <1>6, <2>5 DEF RouteJournal, Inv, SideInv, ReportsLag, oms, broker, Ref
    <2> QED
      BY <2>1, <2>2, <2>3, <2>6 DEF SideInv
  <1>7. CASE SubmitDenied
    <2>1. OpenByPhase'
      BY <1>7, PhaseKept DEF SubmitDenied, store, broker
    <2>2. LoopOnSide'
      BY <1>7 DEF SubmitDenied, store, Inv, SideInv, LoopOnSide, PhaseSide, ChildrenOn
    <2>3. SellsBeforeBuys'
      BY <1>7 DEF SubmitDenied, Inv, SideInv, SellsBeforeBuys, OpenAtBroker, broker
    <2>4. ReportsLag'
      BY <1>7 DEF SubmitDenied, Inv, JournalInv, SideInv, ReportsLag, store, oms, broker, Ref
    <2> QED
      BY <2>1, <2>2, <2>3, <2>4 DEF SideInv
  <1>8. CASE RouteAck
    <2>1. OpenByPhase'
      BY <1>8, PhaseKept DEF RouteAck, broker
    <2>2. LoopOnSide'
      BY <1>8 DEF RouteAck, Inv, SideInv, LoopOnSide, PhaseSide, ChildrenOn
    <2>3. SellsBeforeBuys'
      BY <1>8 DEF RouteAck, Inv, SideInv, SellsBeforeBuys, OpenAtBroker, broker
    <2>4. \A r \in DOMAIN ord : journal'[r] \in Terminal => journal[r] \in Terminal \/ ord[r].status \in Terminal
      BY <1>8 DEF RouteAck, Put, Terminal, Failed, Inv, JournalInv, SideInv, ReportsLag
    <2>5. ReportsLag'
      BY <1>8, <2>4 DEF RouteAck, Inv, SideInv, ReportsLag, oms, broker
    <2> QED
      BY <2>1, <2>2, <2>3, <2>5 DEF SideInv
  <1>9. ASSUME NEW p, NEW side, NEW waiting, RouteWait(p, side, waiting),
               \/ p = "selling" /\ waiting = "waiting_sell_reports"
               \/ p = "buying" /\ waiting = "buying"
        PROVE  SideInv'
    <2>1. phase = p /\ phase' = waiting /\ mode' = mode /\ plan' = plan /\ pc' = "idle" /\ ord' = ord
      BY <1>9 DEF RouteWait, Save, broker
    <2>2. mode = "routed"
      BY <1>9 DEF RouteWait, Inv, SideInv, LoopOnSide
    <2>3. OpenAtBroker' = OpenAtBroker /\ PhaseSide' = PhaseSide /\ RefsOn(PhaseSide)' = RefsOn(PhaseSide)
      BY <1>9, <2>1 DEF OpenAtBroker, PhaseSide, RefsOn, ChildrenOn
    <2>4. OpenByPhase'
      BY <1>9, <2>1, <2>2, <2>3 DEF Inv, SideInv, OpenByPhase
    <2>5. LoopOnSide'
      BY <2>1 DEF LoopOnSide
    <2> QED
      BY <1>9, <2>4, <2>5, QuietSides DEF RouteWait, oms, broker
  <1>10. ASSUME NEW side, NEW done, Wait(side, done), UNCHANGED broker, mode = "routed",
                phase \in {"waiting_sell_reports", "buying"}, side = PhaseSide,
                done \notin {"none", "planned"}
         PROVE  OpenByPhase'
    <2>1. PICK malformed \in BOOLEAN : Save(WaitVerdict(side, done, malformed))
      BY <1>10 DEF Wait
    <2>2. ord' = ord /\ mode' = mode /\ plan' = plan /\ phase' = WaitVerdict(side, done, malformed)
      BY <1>10, <2>1 DEF Save, broker
    <2>3. CASE phase' = phase
      BY <2>2, <2>3, PhaseKept
    <2>4. CASE phase' = "paused"
      BY <2>2, <2>4, PauseOpen
    <2>5. CASE phase' # phase /\ phase' # "paused"
      <3>1. Unknown(side) = {} /\ NotFilled(side) = {} /\ StillActive(side) = {} /\ phase' = done
        BY <2>2, <2>5 DEF WaitVerdict
      <3>2. OpenAtBroker = {}
        BY <1>10, <3>1, SideClosed DEF Inv, SideInv, OpenByPhase
      <3> QED
        BY <1>10, <2>2, <3>1, <3>2, ClosedOpen
    <2> QED
      BY <2>3, <2>4, <2>5
  <1>11. CASE BuyWait
    <2>1. mode = "routed" /\ phase = "buying" /\ PhaseSide = "buy"
      BY <1>11 DEF BuyWait, Inv, SideInv, LoopOnSide, PhaseSide
    <2>2. OpenByPhase'
      BY <1>10, <1>11, <2>1 DEF BuyWait
    <2>3. LoopOnSide'
      BY <1>11 DEF BuyWait, LoopOnSide
    <2> QED
      BY <1>11, <2>2, <2>3, QuietSides DEF BuyWait, Wait, oms, broker
  <1>12. CASE SellWait
    <2>1. mode = "routed" /\ phase = "waiting_sell_reports" /\ PhaseSide = "sell" /\ pc = "idle"
      BY <1>12 DEF SellWait, Routing, Ready, PhaseSide
    <2>2. OpenByPhase'
      BY <1>10, <1>12, <2>1 DEF SellWait
    <2>3. LoopOnSide'
      BY <1>12, <2>1 DEF SellWait, LoopOnSide, thread
    <2> QED
      BY <1>12, <2>1, <2>2, <2>3, QuietSides DEF SellWait, Wait, thread, oms, broker
  <1>13. CASE AdvanceRefresh \/ FinalReconcile
    <2>1. mode = "routed" /\ pc = "idle" /\ OpenAtBroker = {}
      BY <1>13 DEF AdvanceRefresh, FinalReconcile, Routing, Ready, Inv, SideInv, OpenByPhase
    <2>2. UNCHANGED <<ord, seen, pc>>
      BY <1>13 DEF AdvanceRefresh, FinalReconcile, thread, oms, broker
    <2>3. PausePlan \/ Save("completed") \/ Refresh
      BY <1>13 DEF AdvanceRefresh, FinalReconcile
    <2>4. OpenByPhase'
      BY <2>1, <2>2, <2>3, PauseOpen, ClosedOpen, RefreshOpen DEF PausePlan, Save
    <2>5. LoopOnSide'
      BY <2>1, <2>2 DEF LoopOnSide
    <2>6. journal' = journal \/ (\E refs : journal' = Reconciled(refs))
      BY <1>13 DEF AdvanceRefresh, FinalReconcile
    <2> QED
      BY <2>1, <2>2, <2>4, <2>5, <2>6, QuietSides
  <1>14. CASE Recover
    <2>1. pc = "idle" /\ UNCHANGED <<ord, seen, pc>>
      BY <1>14 DEF Recover, thread, oms, broker
    <2>2. Save("paused") \/ Save(phase)
      BY <1>14 DEF Recover, PausePlan
    <2>3. OpenByPhase'
      BY <2>1, <2>2, PauseOpen, PhaseKept DEF Save
    <2>4. LoopOnSide'
      BY <2>1 DEF LoopOnSide
    <2>5. journal' = journal \/ (\E refs : journal' = Reconciled(refs))
      BY <1>14 DEF Recover
    <2> QED
      BY <2>1, <2>3, <2>4, <2>5, QuietSides
  <1>15. CASE Crash \/ CrashReporting
    <2>1. UNCHANGED <<ord, seen, phase, mode, plan>> /\ pc' = "down"
      BY <1>15 DEF Crash, CrashReporting, Die, oms, broker
    <2>2. OpenByPhase'
      BY <2>1, PhaseKept
    <2>3. LoopOnSide'
      BY <2>1 DEF LoopOnSide
    <2>4. journal' = journal \/ (\E refs : journal' = Reconciled(refs))
      BY <1>15 DEF Crash, CrashReporting, HalfReconciled
    <2> QED
      BY <2>1, <2>2, <2>3, <2>4, QuietSides
  <1>16. CASE Restart
    <2>1. OpenByPhase'
      BY <1>16, PhaseKept DEF Restart, store, broker
    <2>2. LoopOnSide'
      BY <1>16 DEF Restart, LoopOnSide
    <2>3. SellsBeforeBuys'
      BY <1>16 DEF Restart, Inv, SideInv, SellsBeforeBuys, OpenAtBroker, broker
    <2>4. ReportsLag'
      BY <1>16, EmptyDomain DEF Restart, Inv, SideInv, ReportsLag, store, broker
    <2> QED
      BY <2>1, <2>2, <2>3, <2>4 DEF SideInv
  <1>17. ASSUME UNCHANGED <<store, thread, broker>>,
                \A r \in DOMAIN seen' : seen'[r].status \in Terminal => ord[r].status \in Terminal
         PROVE  SideInv'
    <2>1. OpenByPhase'
      BY <1>17, PhaseKept DEF store, broker
    <2>2. LoopOnSide'
      BY <1>17 DEF Inv, SideInv, LoopOnSide, PhaseSide, ChildrenOn, store, thread
    <2>3. SellsBeforeBuys'
      BY <1>17 DEF Inv, SideInv, SellsBeforeBuys, OpenAtBroker, broker
    <2>4. ReportsLag'
      BY <1>17 DEF Inv, SideInv, ReportsLag, store, thread, broker, Ref
    <2> QED
      BY <2>1, <2>2, <2>3, <2>4 DEF SideInv
  <1>18. ASSUME NEW r \in DOMAIN ord, DeliverOrder(r) PROVE SideInv'
    BY <1>17, <1>18 DEF DeliverOrder, Put, Inv, SideInv, ReportsLag
  <1>19. ASSUME NEW r \in DOMAIN ord, DeliverFills(r) PROVE SideInv'
    BY <1>17, <1>19 DEF DeliverFills, Inv, SideInv, ReportsLag
  <1>20. CASE PollPositions \/ Expire \/ External \/ UNCHANGED vars
    BY <1>17, <1>20 DEF PollPositions, Expire, External, vars, oms, Inv, SideInv, ReportsLag
  <1>21. CASE SubmitAccepted
    <2>1. /\ mode = "routed" /\ phase \in {"selling", "buying"}
          /\ cur \in ChildrenOn(PhaseSide) /\ OpenAtBroker \subseteq RefsOn(PhaseSide)
      BY <1>21 DEF SubmitAccepted, Inv, TypeOK, ThreadTypeOK, SideInv, LoopOnSide, OpenByPhase
    <2>2. /\ UNCHANGED <<phase, mode, plan, journal, seen, todo, cur>>
          /\ pc' = "ack" /\ accepted' = TRUE
      BY <1>21 DEF SubmitAccepted, store, oms
    <2>3. /\ DOMAIN ord' = DOMAIN ord \cup {Ref(cur)} /\ Ref(cur) \notin DOMAIN ord
          /\ \A r \in DOMAIN ord : ord'[r] = ord[r]
          /\ ord'[Ref(cur)].status = "submitting"
      BY <1>21 DEF SubmitAccepted, Put, Inv, JournalInv
    <2>4. OpenAtBroker' \subseteq RefsOn(PhaseSide)
      <3>1. Ref(cur) \in RefsOn(PhaseSide)
        BY <2>1 DEF RefsOn
      <3> QED
        BY <2>1, <2>3, <3>1 DEF OpenAtBroker
    <2>5. SellsBeforeBuys'
      BY <2>4 DEF SellsBeforeBuys, RefsOn, ChildrenOn, Ref
    <2>6. OpenByPhase'
      <3>1. PhaseSide' = PhaseSide /\ RefsOn(PhaseSide)' = RefsOn(PhaseSide)
        BY <2>2 DEF PhaseSide, RefsOn, ChildrenOn
      <3> QED
        BY <2>1, <2>2, <2>4, <3>1 DEF OpenByPhase
    <2>7. LoopOnSide'
      BY <1>21, <2>2 DEF SubmitAccepted, Inv, SideInv, LoopOnSide, PhaseSide, ChildrenOn
    <2>8. ReportsLag'
      <3>1. journal[Ref(cur)] \notin Terminal /\ DOMAIN seen \subseteq DOMAIN ord
        BY <1>21 DEF SubmitAccepted, Inv, JournalInv, SideInv, ReportsLag, Terminal, Failed
      <3> QED
        BY <2>2, <2>3, <3>1 DEF Inv, SideInv, ReportsLag
    <2> QED
      BY <2>5, <2>6, <2>7, <2>8 DEF SideInv
  <1>22. ASSUME NEW r \in DOMAIN ord, NEW o, BrokerMove(r, o), ord[r].status \in Working
         PROVE  SideInv'
    <2>1. /\ UNCHANGED <<phase, mode, plan, journal, seen, pc, todo, cur, accepted>>
          /\ DOMAIN ord' = DOMAIN ord /\ \A q \in DOMAIN ord : q # r => ord'[q] = ord[q]
      BY <1>22 DEF BrokerMove, store, thread, oms
    <2>2. OpenAtBroker' \subseteq OpenAtBroker
      BY <1>22, <2>1 DEF OpenAtBroker
    <2>3. \A q \in DOMAIN ord : ord[q].status \in Terminal => ord'[q].status \in Terminal
      BY <1>22, <2>1, OpenOrClosed
    <2>4. SellsBeforeBuys'
      BY <2>2 DEF Inv, SideInv, SellsBeforeBuys
    <2>5. OpenByPhase'
      <3>1. PhaseSide' = PhaseSide /\ RefsOn(PhaseSide)' = RefsOn(PhaseSide)
        BY <2>1 DEF PhaseSide, RefsOn, ChildrenOn
      <3> QED
        BY <2>1, <2>2, <3>1 DEF Inv, SideInv, OpenByPhase
    <2>6. LoopOnSide'
      BY <2>1 DEF Inv, SideInv, LoopOnSide, PhaseSide, ChildrenOn
    <2>7. ReportsLag'
      BY <2>1, <2>3 DEF Inv, JournalInv, SideInv, ReportsLag, Ref
    <2> QED
      BY <2>4, <2>5, <2>6, <2>7 DEF SideInv
  <1>23. ASSUME NEW r \in DOMAIN ord,
                BrokerAccept(r) \/ BrokerClose(r) \/ \E v \in 1..ord[r].vol : BrokerFill(r, v)
         PROVE  SideInv'
    BY <1>22, <1>23 DEF BrokerAccept, BrokerClose, BrokerFill, Working
  <1> QED
    BY <1>1, <1>2, <1>3, <1>4, <1>5, <1>6, <1>7, <1>8, <1>9, <1>11, <1>12, <1>13, <1>14,
       <1>15, <1>16, <1>18, <1>19, <1>20, <1>21, <1>23
       DEF Next, Advance, Deliver, Broker

\* Inv is inductive.
LEMMA InvInit == Init => Inv
  BY TypeInit, JournalInit, SideInit DEF Inv

\* The invariant is inductive.
LEMMA InvStep == Inv /\ [Next]_vars => Inv'
  BY TypeStep, JournalStep, SideStep DEF Inv

\* A buy and a sell are never open at the broker together, whatever the order
\* of the reports, the crashes and the replans: _wait_phase lets a side go only
\* when each of its orders has a terminal report or row.
THEOREM SidesApart == Spec => []SellsBeforeBuys
  <1>1. Inv => SellsBeforeBuys
    BY DEF Inv, SideInv
  <1> QED
    BY <1>1, InvInit, InvStep, PTL DEF Spec

(***************************************************************************)
(* The refinement.  SubmitAccepted is Send, a broker move that closes an   *)
(* order is Close, and every other step leaves the orders alone.           *)
(***************************************************************************)

\* Steps other than submissions and broker moves leave the broker alone.
LEMMA BrokerAlone ==
    ASSUME Inv, [Next]_vars, ~SubmitAccepted, ~Broker
    PROVE  ord' = ord
  BY DEF Next, Advance, Deliver, Begin, AdvanceExpired, AdvanceBoundary, AdvanceShadow, AdvanceDisabled,
     AdvancePlanned, RouteStart, RouteSkip, RouteJournal, SubmitDenied, RouteAck, RouteWait,
     BuyWait, SellWait, AdvanceRefresh, FinalReconcile, OperatorPause, Recover, Crash,
     CrashReporting, Die, Restart, DeliverOrder, DeliverFills, PollPositions, Expire, External,
     broker, vars

\* A submission is a Send of the promise.
LEMMA SubmitIsSend ==
    ASSUME Inv, SubmitAccepted
    PROVE  Promise!Send
  <1>1. /\ cur \in ChildrenOn(PhaseSide) /\ OpenAtBroker \subseteq RefsOn(PhaseSide)
    BY DEF SubmitAccepted, Inv, TypeOK, ThreadTypeOK, SideInv, LoopOnSide, OpenByPhase
  <1>2. /\ DOMAIN ord' = DOMAIN ord \cup {Ref(cur)} /\ Ref(cur) \notin DOMAIN ord
        /\ \A r \in DOMAIN ord : ord'[r] = ord[r]
        /\ ord'[Ref(cur)].status = "submitting"
    BY DEF SubmitAccepted, Put, Inv, JournalInv
  <1>3. \A r \in DOMAIN ord : ord[r].status \notin Terminal => r \in OpenAtBroker
    BY OpenOrClosed DEF OpenAtBroker, Inv, TypeOK, BrokerTypeOK, Orders
  <1>4. \A q \in OpenAtBroker : q[2] = Ref(cur)[2]
    BY <1>1 DEF RefsOn, ChildrenOn, Ref
  <1>5. { r \in DOMAIN ord' : ord'[r].status \in Terminal } = { r \in DOMAIN ord : ord[r].status \in Terminal }
    BY <1>2 DEF Terminal, Failed
  <1> QED
    BY <1>2, <1>3, <1>4, <1>5 DEF Promise!Send, RefSide

\* A broker move closes an order or changes nothing the promise speaks of.
LEMMA MoveIsClose ==
    ASSUME Inv, NEW r \in DOMAIN ord, NEW o, BrokerMove(r, o), ord[r].status \in Working
    PROVE  Promise!Close \/ UNCHANGED Promise!vars
  <1>1. DOMAIN ord' = DOMAIN ord /\ ord'[r] = o /\ \A q \in DOMAIN ord : q # r => ord'[q] = ord[q]
    BY DEF BrokerMove
  <1>2. ord[r].status \notin Terminal
    BY OpenOrClosed
  <1> DEFINE Closed == { q \in DOMAIN ord : ord[q].status \in Terminal }
  <1>3. CASE o.status \in Terminal
    <2>1. Closed' = Closed \cup {r} /\ r \notin Closed
      BY <1>1, <1>2, <1>3
    <2> QED
      BY <1>1, <2>1 DEF Promise!Close
  <1>4. CASE o.status \notin Terminal
    <2>1. Closed' = Closed
      BY <1>1, <1>2, <1>4
    <2> QED
      BY <1>1, <2>1 DEF Promise!vars
  <1> QED
    BY <1>3, <1>4

\* Every step is a step of the promise or changes nothing it speaks of.
LEMMA PromiseStep == Inv /\ [Next]_vars => [Promise!Next]_Promise!vars
  <1> SUFFICES ASSUME Inv, [Next]_vars PROVE Promise!Next \/ UNCHANGED Promise!vars
    OBVIOUS
  <1>1. CASE SubmitAccepted
    BY <1>1, SubmitIsSend DEF Promise!Next
  <1>2. CASE Broker
    <2>1. PICK r \in DOMAIN ord : \E o : BrokerMove(r, o) /\ ord[r].status \in Working
      BY <1>2 DEF Broker, BrokerAccept, BrokerClose, BrokerFill, Working
    <2> QED
      BY <2>1, MoveIsClose DEF Promise!Next
  <1>3. CASE ~SubmitAccepted /\ ~Broker
    BY <1>3, BrokerAlone DEF Promise!vars
  <1> QED
    BY <1>1, <1>2, <1>3

\* The execution of a target implements SellThenBuy: under every interleaving
\* of coordinator, dispatch thread, broker and crashes the account only ever
\* sees fresh references, one side of the book at a time.
THEOREM Implements == Spec => ImplementsPromise
  <1>1. Init => Promise!Init
    BY EmptyDomain DEF Init, Promise!Init
  <1> QED
    BY <1>1, InvInit, InvStep, PromiseStep, PTL DEF Spec, ImplementsPromise, Promise!Spec

(***************************************************************************)
(* Fresh numbers.  The journal is never emptied, so a replan is only fresh *)
(* because next_child_index lies beyond every reference that was ever      *)
(* planned, routed or not.                                                 *)
(***************************************************************************)
Numbers(refs) == \A r \in refs : r[3] < next[<<r[1], r[2]>>]

FreshInv == Numbers(DOMAIN journal) /\ Numbers(PlanRefs)

\* The plan and the indices are kept, or made anew by the planner.
Planned ==
    \/ UNCHANGED <<plan, next>>
    \/ plan' = Plan(target, Acct, locked, next) /\ next' = NextIndices(plan')

\* Every step keeps or remakes the plan, and journals children of it only.
LEMMA PlanOrKeep ==
    ASSUME TypeOK, [Next]_vars
    PROVE  Planned /\ DOMAIN journal' \subseteq DOMAIN journal \cup PlanRefs
  <1>1. CASE Begin \/ AdvanceRefresh
    BY <1>1 DEF Begin, AdvanceRefresh, Refresh, PausePlan, Save, Planned
  <1>2. CASE FinalReconcile
    BY <1>2 DEF FinalReconcile, Reconciled, Refresh, PausePlan, Save, Planned
  <1>3. ASSUME NEW c \in todo, RouteSkip(c) \/ RouteJournal(c)
        PROVE  Planned /\ DOMAIN journal' \subseteq DOMAIN journal \cup PlanRefs
    <2>1. Ref(c) \in PlanRefs
      BY DEF TypeOK, ThreadTypeOK, PlanRefs
    <2> QED
      BY <1>3, <2>1 DEF RouteSkip, RouteJournal, Put, Planned, store
  <1>4. CASE RouteAck
    <2>1. Ref(cur) \in PlanRefs
      BY <1>4 DEF RouteAck, TypeOK, ThreadTypeOK, PlanRefs
    <2> QED
      BY <1>4, <2>1 DEF RouteAck, Put, Planned
  <1>5. CASE AdvanceExpired \/ AdvanceBoundary \/ AdvanceShadow \/ AdvanceDisabled \/ AdvancePlanned
             \/ OperatorPause
    BY <1>5 DEF AdvanceExpired, AdvanceBoundary, AdvanceShadow, AdvanceDisabled, AdvancePlanned,
       OperatorPause, PausePlan, Save, Planned
  <1>6. ASSUME NEW p, NEW side, NEW q, RouteStart(p, side, q) \/ RouteWait(p, side, q)
        PROVE  Planned /\ DOMAIN journal' \subseteq DOMAIN journal \cup PlanRefs
    BY <1>6 DEF RouteStart, RouteWait, Save, Planned
  <1>7. CASE BuyWait \/ SellWait \/ Recover
    BY <1>7 DEF BuyWait, SellWait, Wait, Recover, Reconciled, PausePlan, Save, Planned
  <1>8. CASE Crash \/ CrashReporting
    BY <1>8 DEF Crash, CrashReporting, HalfReconciled, Reconciled, Die, Planned
  <1>9. CASE SubmitDenied \/ SubmitAccepted \/ Restart \/ PollPositions \/ Expire \/ External \/ UNCHANGED vars
    BY <1>9 DEF SubmitDenied, SubmitAccepted, Restart, PollPositions, Expire, External, vars, store, Planned
  <1>10. CASE Deliver \/ Broker
    BY <1>10 DEF Deliver, DeliverOrder, DeliverFills, Broker, BrokerAccept, BrokerClose, BrokerFill,
       BrokerMove, store, Planned
  <1> QED
    BY <1>1, <1>2, <1>3, <1>4, <1>5, <1>6, <1>7, <1>8, <1>9, <1>10 DEF Next, Advance

\* Indices never fall, so what was numbered stays numbered.
LEMMA FreshStep == TypeOK /\ FreshInv /\ [Next]_vars => FreshInv'
  <1> SUFFICES ASSUME TypeOK, FreshInv, [Next]_vars PROVE FreshInv'
    OBVIOUS
  <1>1. DOMAIN journal' \subseteq DOMAIN journal \cup PlanRefs /\ Planned
    BY PlanOrKeep
  <1>2. /\ next \in [Instruments \X Sides -> Nat] /\ plan \subseteq Children
        /\ DOMAIN journal \subseteq Refs
    BY DEF TypeOK, StoreTypeOK
  <1>3. PlanRefs \subseteq Refs
    BY <1>2, RefTyped DEF PlanRefs
  <1>4. CASE UNCHANGED <<plan, next>>
    BY <1>1, <1>4 DEF FreshInv, Numbers, PlanRefs
  <1>5. CASE plan' = Plan(target, Acct, locked, next) /\ next' = NextIndices(plan')
    <2>1. /\ plan' \subseteq Children /\ next' \in [Instruments \X Sides -> Nat]
          /\ \A k \in Instruments \X Sides : next'[k] >= next[k]
          /\ \A c \in plan' : c.idx < next'[<<c.inst, c.side>>]
      BY <1>5, NextIndicesTyped
    <2>2. ASSUME NEW r \in DOMAIN journal \cup PlanRefs PROVE r[3] < next'[<<r[1], r[2]>>]
      <3>1. r \in Refs /\ r[3] < next[<<r[1], r[2]>>]
        BY <1>2, <1>3 DEF FreshInv, Numbers
      <3>2. <<r[1], r[2]>> \in Instruments \X Sides /\ r[3] \in Nat
        BY <3>1 DEF Refs
      <3> QED
        BY <1>2, <2>1, <3>1, <3>2
    <2>3. ASSUME NEW r \in PlanRefs' PROVE r[3] < next'[<<r[1], r[2]>>]
      BY <2>1 DEF PlanRefs, Ref
    <2> QED
      BY <1>1, <2>2, <2>3 DEF FreshInv, Numbers
  <1> QED
    BY <1>1, <1>4, <1>5 DEF Planned

\* A replan takes references that the journal does not hold.
LEMMA ReplanStep ==
    TypeOK /\ FreshInv /\ [Next]_vars =>
        [replans' # replans => \A c \in plan' : Ref(c) \notin DOMAIN journal]_vars
  <1> SUFFICES ASSUME TypeOK, FreshInv, [Next]_vars, replans' # replans,
                      NEW c \in plan', Ref(c) \in DOMAIN journal
               PROVE  FALSE
    OBVIOUS
  <1>1. plan' = Plan(target, Acct, locked, next)
    <2>1. AdvanceRefresh \/ FinalReconcile
      BY DEF Next, Advance, Begin, AdvanceExpired, AdvanceBoundary, AdvanceShadow, AdvanceDisabled,
         AdvancePlanned, RouteStart, RouteSkip, RouteJournal, SubmitDenied, SubmitAccepted, RouteAck,
         RouteWait, BuyWait, SellWait, Wait, OperatorPause, Recover, Crash, CrashReporting, Die, Restart,
         Deliver, DeliverOrder, DeliverFills, PollPositions, Broker, BrokerAccept, BrokerClose,
         BrokerFill, BrokerMove, Expire, External, PausePlan, Save, store, vars
    <2> QED
      BY <2>1 DEF AdvanceRefresh, FinalReconcile, Refresh, PausePlan, Save
  <1>2. c \in Children /\ c.idx >= next[<<c.inst, c.side>>]
    BY <1>1, NextIndicesTyped
  <1>3. c.idx < next[<<c.inst, c.side>>] /\ next[<<c.inst, c.side>>] \in Nat
    BY <1>2 DEF FreshInv, Numbers, Ref, TypeOK, StoreTypeOK, Children
  <1> QED
    BY <1>2, <1>3 DEF Children

\* Every replan numbers its children with references the journal has never
\* held: the indices that _refresh stores lie beyond all that were planned, so a
\* child that was planned but not routed does not lend its number to another.
THEOREM ReplansFresh == Spec => ReplanIsFresh
  <1>1. Init => FreshInv
    BY EmptyDomain DEF Init, FreshInv, Numbers, PlanRefs
  <1> QED
    BY <1>1, TypeInit, TypeStep, FreshStep, ReplanStep, PTL DEF Spec, ReplanIsFresh

\* A paused or completed plan sends no order any more: the routing loop runs in
\* the phases SELLING and BUYING only, and a crash forgets it.
THEOREM StoppedSilent == Spec => StoppedSendsNothing
  <1>1. Inv /\ [Next]_vars =>
            [(phase \in {"paused", "completed"}) => DOMAIN ord' = DOMAIN ord]_vars
    <2> SUFFICES ASSUME Inv, [Next]_vars, phase \in {"paused", "completed"}
                 PROVE  DOMAIN ord' = DOMAIN ord
      OBVIOUS
    <2>1. ~SubmitAccepted
      BY DEF SubmitAccepted, Inv, SideInv, LoopOnSide
    <2>2. CASE Broker
      BY <2>2 DEF Broker, BrokerAccept, BrokerClose, BrokerFill, BrokerMove
    <2> QED
      BY <2>1, <2>2, BrokerAlone
  <1> QED
    BY <1>1, InvInit, InvStep, PTL DEF Spec, StoppedSendsNothing
=============================================================================
