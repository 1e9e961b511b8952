-------------------------- MODULE ExecutionProofs --------------------------
(***************************************************************************)
(* Theorems about Execution, for every universe, book, target, bound and   *)
(* order of the reports.                                                   *)
(***************************************************************************)
EXTENDS Execution, TLAPS

(***************************************************************************)
(* What the planner returns, for every universe, lot, cap, book and        *)
(* target.                                                                 *)
(***************************************************************************)
\* The account as the planner reads it.
Accounts == [pos : [Instruments -> Int], yd : [Instruments -> Int],
             work : [Instruments \X Sides -> Int]]

\* _floor_lot gives a whole number of lots, not more than its argument.
LEMMA FloorLotBound ==
    ASSUME NEW v \in Int
    PROVE  FloorLot(v) \in Int /\ FloorLot(v) <= v
  <1>1. Lot \in Nat \ {0}
    BY PlannerAssumption
  <1>2. v \div Lot \in Int /\ Lot * (v \div Lot) <= v
    BY <1>1
  <1> QED
    BY <1>1, <1>2 DEF FloorLot

\* The volume of an order is an integer.
LEMMA VolumeInt ==
    ASSUME NEW goal \in [Instruments -> Int], NEW acct \in Accounts, NEW i \in Instruments
    PROVE  /\ Delta(goal, acct, i) \in Int
           /\ SideOf(goal, acct, i) \in Sides
           /\ Volume(goal, acct, i) \in Int
  <1>1. Delta(goal, acct, i) \in Int
    BY DEF Delta, Accounts, Sides
  <1>2. SideOf(goal, acct, i) \in Sides
    BY DEF SideOf, Sides
  <1>3. \A n \in Int : Abs(n) \in Int
    BY DEF Abs
  <1>4. Greatest(acct.yd[i] - acct.work[<<i, "sell">>], 0) \in Int
    BY DEF Greatest, Accounts, Sides
  <1>5. \A n \in Int : FloorLot(n) \in Int
    BY FloorLotBound
  <1>6. \A m, n \in Int : Least(m, n) \in Int
    BY DEF Least
  <1> QED
    BY <1>1, <1>2, <1>3, <1>4, <1>5, <1>6 DEF Volume

\* _chunks numbers its children without a gap from the first free index.
LEMMA ChunksNumbered ==
    ASSUME NEW i \in Instruments, NEW s \in Sides, NEW v \in Int, NEW first \in Nat,
           FloorLot(MaxChunk) # 0
    PROVE  /\ Chunks(i, s, v, first) \subseteq Children
           /\ \A c \in Chunks(i, s, v, first) : c.inst = i /\ c.side = s /\ c.idx >= first
           /\ Chunks(i, s, v, first) # {} =>
                \E last \in Chunks(i, s, v, first) :
                    \A c \in Chunks(i, s, v, first) : c.idx <= last.idx
  <1> DEFINE cap == FloorLot(MaxChunk)
             n == (v + cap - 1) \div cap
             C(j) == [inst |-> i, side |-> s, idx |-> first + j, vol |-> Least(cap, v - j * cap)]
  <1>1. cap \in Int /\ cap > 0
    BY PlannerAssumption DEF FloorLot
  <1>2. n \in Int
    BY <1>1
  <1>3. Chunks(i, s, v, first) = { C(j) : j \in 0..(n - 1) }
    BY DEF Chunks
  <1>4. \A j \in 0..(n - 1) : /\ C(j) \in Children /\ C(j).inst = i /\ C(j).side = s
                            /\ C(j).idx = first + j
    BY <1>1, <1>2 DEF Children, Least
  <1> HIDE DEF cap, n
  <1> HIDE DEF C
  <1>5. \A c \in Chunks(i, s, v, first) : \E j \in 0..(n - 1) : c = C(j)
    BY <1>3
  <1>6. \A c \in Chunks(i, s, v, first) : c \in Children /\ c.inst = i /\ c.side = s /\ c.idx >= first
    BY <1>2, <1>4, <1>5
  <1>7. ASSUME Chunks(i, s, v, first) # {}
        PROVE  \E last \in Chunks(i, s, v, first) :
                    \A c \in Chunks(i, s, v, first) : c.idx <= last.idx
    <2>1. n - 1 \in 0..(n - 1)
      BY <1>2, <1>5, <1>7
    <2>2. C(n - 1) \in Chunks(i, s, v, first)
      BY <1>3, <2>1
    <2>3. \A c \in Chunks(i, s, v, first) : c.idx <= C(n - 1).idx
      BY <1>2, <1>4, <1>5, <2>1
    <2> QED
      BY <2>2, <2>3
  <1> QED
    BY <1>6, <1>7

\* Every child of _chunks carries at least one share and at most the cap.
LEMMA ChunksCapped ==
    ASSUME NEW i, NEW s, NEW v \in Int, v > 0, NEW first \in Nat, FloorLot(MaxChunk) # 0
    PROVE  \A c \in Chunks(i, s, v, first) : 0 < c.vol /\ c.vol <= FloorLot(MaxChunk)
  <1> DEFINE cap == FloorLot(MaxChunk)
             n == (v + cap - 1) \div cap
  <1>1. cap \in Int /\ cap > 0
    BY PlannerAssumption DEF FloorLot
  <1>2. n \in Int /\ cap * n <= v + cap - 1
    BY <1>1
  <1>3. \A c \in Chunks(i, s, v, first) : \E j \in 0..(n - 1) : c.vol = Least(cap, v - j * cap)
    BY DEF Chunks
  <1> HIDE DEF n, cap
  <1>4. cap * (n - 1) = cap * n - cap
    BY <1>1, <1>2
  <1>5. \A j \in 0..(n - 1) : cap * j <= cap * (n - 1) /\ j * cap = cap * j /\ j * cap \in Int
    BY <1>1, <1>2
  <1>6. \A j \in 0..(n - 1) : v - j * cap >= 1
    BY <1>1, <1>2, <1>4, <1>5
  <1>7. \A j \in 0..(n - 1) : 0 < Least(cap, v - j * cap) /\ Least(cap, v - j * cap) <= cap
    BY <1>1, <1>2, <1>5, <1>6 DEF Least
  <1> QED
    BY <1>3, <1>7 DEF cap

\* A child of a plan comes from the chunks of its instrument.
LEMMA PlanChild ==
    ASSUME NEW goal, NEW acct, NEW shut, NEW fresh, NEW c \in Plan(goal, acct, shut, fresh)
    PROVE  \E i \in Instruments \ Issues(goal, acct, shut) :
             /\ Wanted(goal, acct, i) /\ Volume(goal, acct, i) > 0
             /\ c \in Chunks(i, SideOf(goal, acct, i), Volume(goal, acct, i),
                             fresh[<<i, SideOf(goal, acct, i)>>])
             /\ Chunks(i, SideOf(goal, acct, i), Volume(goal, acct, i),
                       fresh[<<i, SideOf(goal, acct, i)>>]) \subseteq Plan(goal, acct, shut, fresh)
  BY DEF Plan

\* Children with free indices; every instrument and side among them has a last one.
Numbered(P, fresh) ==
    /\ P \subseteq Children
    /\ \A c \in P : c.idx >= fresh[<<c.inst, c.side>>]
    /\ \A c \in P : \E last \in P :
         /\ last.inst = c.inst /\ last.side = c.side
         /\ \A d \in P : (d.inst = c.inst /\ d.side = c.side) => d.idx <= last.idx

\* ExecutionPlanner.plan returns children with indices that are free, and every
\* instrument and side with children has a last one: next_child_index is defined.
LEMMA PlanNumbered ==
    ASSUME NEW goal \in [Instruments -> Int], NEW acct \in Accounts, NEW shut,
           NEW fresh \in [Instruments \X Sides -> Nat]
    PROVE  Numbered(Plan(goal, acct, shut, fresh), fresh)
  <1> DEFINE P == Plan(goal, acct, shut, fresh)
             Side(i) == SideOf(goal, acct, i)
             K(i) == Chunks(i, Side(i), Volume(goal, acct, i), fresh[<<i, Side(i)>>])
  <1> HIDE DEF K, Side
  <1>1. \A c \in P : \E i \in Instruments : c \in K(i) /\ K(i) \subseteq P /\ FloorLot(MaxChunk) # 0
    BY PlanChild DEF Issues, K, Side
  <1> HIDE DEF P
  <1>2. ASSUME NEW i \in Instruments, FloorLot(MaxChunk) # 0
        PROVE  /\ K(i) \subseteq Children
               /\ Side(i) \in Sides
               /\ \A c \in K(i) : c.inst = i /\ c.side = Side(i) /\ c.idx >= fresh[<<i, Side(i)>>]
               /\ K(i) # {} => \E last \in K(i) : \A c \in K(i) : c.idx <= last.idx
    <2>1. Volume(goal, acct, i) \in Int /\ Side(i) \in Sides
      BY VolumeInt DEF Side
    <2>2. fresh[<<i, Side(i)>>] \in Nat
      BY <2>1
    <2> QED
      BY <1>2, <2>1, <2>2, ChunksNumbered DEF K
  <1>3. P \subseteq Children /\ \A c \in P : c.idx >= fresh[<<c.inst, c.side>>]
    BY <1>1, <1>2
  <1>4. ASSUME NEW c \in P
        PROVE  \E last \in P :
                    /\ last.inst = c.inst /\ last.side = c.side
                    /\ \A d \in P : (d.inst = c.inst /\ d.side = c.side) => d.idx <= last.idx
    <2>1. PICK i \in Instruments : c \in K(i) /\ K(i) \subseteq P /\ FloorLot(MaxChunk) # 0
      BY <1>1
    <2>2. PICK last \in K(i) : \A d \in K(i) : d.idx <= last.idx
      BY <1>2, <2>1
    <2>3. ASSUME NEW d \in P, d.inst = i PROVE d \in K(i)
      <3>1. PICK j \in Instruments : d \in K(j) /\ FloorLot(MaxChunk) # 0
        BY <1>1
      <3>2. d.inst = j
        BY <1>2, <3>1
      <3> QED
        BY <2>3, <3>1, <3>2
    <2>4. last \in P /\ c.inst = i /\ last.inst = i /\ last.side = c.side
      BY <1>2, <2>1, <2>2
    <2> QED
      BY <2>2, <2>3, <2>4
  <1> QED
    BY <1>3, <1>4 DEF Numbered, P

-----------------------------------------------------------------------------
(***************************************************************************)
(* Journal before submission.  SubmitAtMostOnce is not inductive: it needs *)
(* that every order at the broker is journalled, and that the child about  *)
(* to be submitted is journalled but not yet at the broker.                *)
(***************************************************************************)
JournalInv ==
    /\ DOMAIN sent = DOMAIN ord
    /\ \A r \in DOMAIN sent : sent[r] = 1
    /\ DOMAIN ord \subseteq DOMAIN journal
    /\ DOMAIN seen \subseteq DOMAIN ord
    /\ pc = "submit" => Ref(cur) \in DOMAIN journal \ DOMAIN ord
    /\ pc = "ack" => Ref(cur) \in DOMAIN journal

\* The empty function has no keys.
LEMMA EmptyDomain == DOMAIN Empty = {}
  BY DEF Empty

\* JournalInv holds initially.
LEMMA JournalInit == Init => JournalInv
  BY EmptyDomain DEF Init, JournalInv

\* JournalInv is preserved by every step.
LEMMA JournalStep == JournalInv /\ [Next]_vars => JournalInv'
  <1> SUFFICES ASSUME JournalInv, [Next]_vars PROVE JournalInv'
    OBVIOUS
  <1> USE DEF JournalInv
  <1>1. CASE Begin
    BY <1>1 DEF Begin, thread, oms, broker, world, history
  <1>2. CASE AdvanceExpired \/ AdvanceBoundary \/ AdvanceShadow \/ AdvanceDisabled \/ AdvancePlanned
    BY <1>2 DEF AdvanceExpired, AdvanceBoundary, AdvanceShadow, AdvanceDisabled,
        AdvancePlanned, Routing, Ready, thread, oms, broker, world, history
  <1>3. ASSUME NEW p, NEW side, NEW done, RouteStart(p, side, done) PROVE JournalInv'
    BY <1>3 DEF RouteStart, Routing, Ready, oms, broker, world, history
  <1>4. ASSUME NEW c \in todo, RouteSkip(c) PROVE JournalInv'
    BY <1>4 DEF RouteSkip, store, oms, broker, world, history
  <1>5. ASSUME NEW c \in todo, RouteJournal(c) PROVE JournalInv'
    BY <1>5 DEF Put, Ref, RouteJournal, Known, oms, broker, world, history
  <1>6. CASE SubmitDenied
    BY <1>6 DEF SubmitDenied, store, oms, broker, world, history
  <1>7. CASE SubmitAccepted
    BY <1>7 DEF Put, Ref, SubmitAccepted, At, store, oms, world
  <1>8. CASE RouteAck
    BY <1>8 DEF Put, Ref, RouteAck, oms, broker, world, history
  <1>9. ASSUME NEW p, NEW side, NEW waiting, RouteWait(p, side, waiting) PROVE JournalInv'
    BY <1>9 DEF RouteWait, oms, broker, world, history
  <1>10. CASE BuyWait
    BY <1>10 DEF BuyWait, Wait, Reconciled, oms, broker, world, history
  <1>11. CASE SellWait
    BY <1>11 DEF SellWait, Routing, Ready, Wait, Reconciled, thread, oms, broker, world, history
  <1>12. CASE AdvanceRefresh
    BY <1>12 DEF AdvanceRefresh, Routing, Ready, thread, oms, broker, world, history
  <1>13. CASE FinalReconcile
    BY <1>13 DEF FinalReconcile, Routing, Ready, Reconciled, thread, oms, broker, world, history
  <1>14. CASE OperatorPause
    BY <1>14 DEF OperatorPause, thread, oms, broker, world, history
  <1>15. CASE Recover
    BY <1>15 DEF Recover, Reconciled, thread, oms, broker, world, history
  <1>16. CASE Crash \/ CrashReporting
    BY <1>16 DEF Crash, CrashReporting, HalfReconciled, Reconciled, Die, oms, broker, history
  <1>17. CASE Restart
    BY <1>17, EmptyDomain DEF Restart, store, broker, world, history
  <1>18. ASSUME NEW r \in DOMAIN ord, DeliverOrder(r) PROVE JournalInv'
    BY <1>18 DEF Put, DeliverOrder, store, thread, broker, world, history
  <1>19. ASSUME NEW r \in DOMAIN ord, DeliverFills(r) PROVE JournalInv'
    BY <1>19 DEF DeliverFills, store, thread, broker, world, history
  <1>20. ASSUME NEW r, NEW o, BrokerMove(r, o) PROVE JournalInv'
    BY <1>20 DEF BrokerMove, store, thread, oms, world, history
  <1>21. ASSUME NEW r \in DOMAIN ord, BrokerAccept(r) \/ BrokerClose(r) \/ \E v \in 1..ord[r].vol : BrokerFill(r, v)
         PROVE JournalInv'
    BY <1>21, <1>20 DEF BrokerAccept, BrokerClose, BrokerFill
  <1>22. CASE Expire \/ External \/ PollPositions
    BY <1>22 DEF Expire, External, PollPositions, store, thread, oms, broker, history
  <1>23. CASE UNCHANGED vars
    BY <1>23 DEF vars, store, thread, oms, broker, history
  <1> QED
    BY <1>1, <1>2, <1>3, <1>4, <1>5, <1>6, <1>7, <1>8, <1>9, <1>10, <1>11, <1>12, <1>13,
       <1>14, <1>15, <1>16, <1>17, <1>18, <1>19, <1>21, <1>22, <1>23
       DEF Next, Advance, Deliver, Broker

\* No reference is ever submitted twice to the broker, and every order at the
\* broker has its journal row: _route_phase commits the row before submit_child.
THEOREM SubmitOnce == Spec => [](SubmitAtMostOnce /\ JournalCoversBroker)
  <1>1. JournalInv => SubmitAtMostOnce /\ JournalCoversBroker
    BY DEF JournalInv, SubmitAtMostOnce, JournalCoversBroker
  <1> QED
    BY <1>1, JournalInit, JournalStep, PTL DEF Spec

\* Whatever reached the broker has a journal row to recover it by, and the child
\* about to be submitted is not at the broker: _route_phase, recover.
THEOREM JournalCovers == Spec => []JournalCoversBroker
  BY SubmitOnce, PTL

(***************************************************************************)
(* Types.  The one hard case is next_child_index, a maximum: it exists     *)
(* because the children of a plan are numbered without a gap.              *)
(***************************************************************************)

\* The account that the planner reads is well typed.
LEMMA AcctTyped == TypeOK => Acct \in Accounts /\ target \in [Instruments -> Int]
  BY DEF TypeOK, OmsTypeOK, StoreTypeOK, Acct, Accounts

\* _next_indices: every index is a number, none goes back, and all lie beyond
\* the children of the plan.
LEMMA NextIndicesTyped ==
    ASSUME TypeOK, NEW children, children = Plan(target, Acct, locked, next)
    PROVE  /\ children \subseteq Children
           /\ \A c \in children : c.idx >= next[<<c.inst, c.side>>]
           /\ NextIndices(children) \in [Instruments \X Sides -> Nat]
           /\ \A k \in Instruments \X Sides : NextIndices(children)[k] >= next[k]
           /\ \A c \in children : c.idx < NextIndices(children)[<<c.inst, c.side>>]
  <1>1. next \in [Instruments \X Sides -> Nat]
    BY DEF TypeOK, StoreTypeOK
  <1>2. /\ children \subseteq Children
        /\ \A c \in children : c.idx >= next[<<c.inst, c.side>>]
        /\ \A c \in children : \E last \in children :
             /\ last.inst = c.inst /\ last.side = c.side
             /\ \A d \in children : (d.inst = c.inst /\ d.side = c.side) => d.idx <= last.idx
    <2>1. Acct \in Accounts /\ target \in [Instruments -> Int]
      BY AcctTyped
    <2>2. Numbered(Plan(target, Acct, locked, next), next)
      BY <1>1, <2>1, PlanNumbered
    <2> QED
      BY <2>2 DEF Numbered
  <1> DEFINE Mine(k) == { d \in children : <<d.inst, d.side>> = k }
             S(k) == { c.idx + 1 : c \in Mine(k) } \cup {next[k]}
             Top(k) == CHOOSE n \in S(k) : \A m \in S(k) : n >= m
  <1>3. ASSUME NEW k \in Instruments \X Sides
        PROVE  S(k) \subseteq Nat /\ \E n \in S(k) : \A m \in S(k) : n >= m
    <2>1. S(k) \subseteq Nat
      BY <1>1, <1>2 DEF Children
    <2>2. CASE Mine(k) = {}
      BY <1>1, <2>2
    <2>3. CASE Mine(k) # {}
      <3>1. PICK c \in Mine(k) : TRUE
        BY <2>3
      <3>2. PICK last \in children :
             /\ last.inst = c.inst /\ last.side = c.side
             /\ \A d \in children : (d.inst = c.inst /\ d.side = c.side) => d.idx <= last.idx
        BY <1>2
      <3>3. last \in Mine(k) /\ \A d \in Mine(k) : d.idx <= last.idx
        BY <3>1, <3>2
      <3>4. last.idx + 1 \in S(k)
        BY <3>3
      <3>5. next[k] <= last.idx + 1 /\ last.idx \in Nat
        BY <1>1, <1>2, <3>3 DEF Children
      <3>6. \A m \in S(k) : last.idx + 1 >= m
        BY <1>2, <3>3, <3>5 DEF Children
      <3> QED
        BY <2>1, <3>4, <3>6
    <2> QED
      BY <2>1, <2>2, <2>3
  <1> HIDE DEF S
  <1>4. \A k \in Instruments \X Sides : Top(k) \in S(k) /\ \A m \in S(k) : Top(k) >= m
    BY <1>3
  <1>5. NextIndices(children) = [k \in Instruments \X Sides |-> Top(k)]
    BY DEF NextIndices, S
  <1> HIDE DEF Top
  <1>6. \A k \in Instruments \X Sides : next[k] \in S(k) /\ \A c \in Mine(k) : c.idx + 1 \in S(k)
    BY DEF S
  <1>7. \A k \in Instruments \X Sides : /\ Top(k) \in Nat /\ Top(k) >= next[k]
                                        /\ \A c \in Mine(k) : Top(k) >= c.idx + 1
    BY <1>3, <1>4, <1>6
  <1>8. ASSUME NEW c \in children PROVE c.idx < Top(<<c.inst, c.side>>)
    <2>1. <<c.inst, c.side>> \in Instruments \X Sides /\ c \in Mine(<<c.inst, c.side>>) /\ c.idx \in Nat
      BY <1>2 DEF Children
    <2> QED
      BY <1>7, <2>1
  <1>9. ASSUME NEW c \in children PROVE <<c.inst, c.side>> \in Instruments \X Sides
    BY <1>2 DEF Children
  <1> QED
    BY <1>2, <1>5, <1>7, <1>8, <1>9

\* The initial states are typed.
LEMMA TypeInit == Init => TypeOK
  <1> SUFFICES ASSUME Init PROVE TypeOK
    OBVIOUS
  <1>1. StoreTypeOK
    BY EmptyDomain, ExecutionAssumption
       DEF Init, StoreTypeOK, Phases, Sides
  <1>2. ThreadTypeOK
    BY DEF Init, ThreadTypeOK
  <1>3. \A h \in Holdings, i \in Instruments : h[i] \in Nat
    BY ExecutionAssumption
  <1>4. hold \in [Instruments -> Int] /\ ydtrue \in [Instruments -> Int]
    <2>1. hold \in [Instruments -> Int]
      BY ExecutionAssumption DEF Init
    <2> DEFINE V == UNION { 0..h[i] : h \in Holdings, i \in Instruments }
    <2>2. V \subseteq Int
      BY <1>3
    <2>3. ydtrue \in [Instruments -> V]
      BY DEF Init
    <2> HIDE DEF V
    <2> QED
      BY <2>1, <2>2, <2>3
  <1>5. OmsTypeOK
    BY <1>4, EmptyDomain DEF Init, OmsTypeOK
  <1>6. BrokerTypeOK
    BY <1>4, EmptyDomain DEF Init, BrokerTypeOK
  <1> QED
    BY <1>1, <1>2, <1>5, <1>6 DEF TypeOK

\* begin and _refresh: what a new plan leaves in the store is typed.
LEMMA ReplanTyped ==
    ASSUME TypeOK, NEW children, children = Plan(target, Acct, locked, next)
    PROVE  children \subseteq Children /\ NextIndices(children) \in [Instruments \X Sides -> Nat]
  BY NextIndicesTyped

\* _refresh keeps the types of the columns it writes.
LEMMA RefreshTyped ==
    ASSUME TypeOK, Refresh
    PROVE  /\ phase' \in Phases /\ mode' = mode /\ target' = target /\ locked' = locked
           /\ plan' \subseteq Children /\ replans' \in 0..MaxReplans
           /\ next' \in [Instruments \X Sides -> Nat]
  <1>1. CASE RefreshBlocked /\ PausePlan
    BY <1>1 DEF PausePlan, Save, TypeOK, StoreTypeOK, Phases
  <1>2. CASE ~RefreshBlocked
    <2> DEFINE children == Plan(target, Acct, locked, next)
    <2>1. /\ plan' = children /\ next' = NextIndices(children)
          /\ phase' = RefreshPhase(children) /\ replans' = replans + 1
          /\ UNCHANGED <<mode, target, locked>>
      BY <1>2 DEF Refresh
    <2>2. children \subseteq Children /\ NextIndices(children) \in [Instruments \X Sides -> Nat]
      BY ReplanTyped
    <2> HIDE DEF children
    <2>3. RefreshPhase(children) \in Phases
      BY DEF RefreshPhase, Phases
    <2>4. replans + 1 \in 0..MaxReplans
      BY <1>2, ExecutionAssumption DEF RefreshBlocked, TypeOK, StoreTypeOK
    <2> QED
      BY <2>1, <2>2, <2>3, <2>4
  <1> QED
    BY <1>1, <1>2 DEF Refresh

\* A child of the plan has a reference.
LEMMA RefTyped == ASSUME NEW c \in Children PROVE Ref(c) \in Refs
  BY DEF Children, Ref, Refs

\* The OMS reports and the recorded fills are keyed by orders of the broker.
LEMMA WaitTyped ==
    ASSUME TypeOK, NEW refs
    PROVE  /\ DOMAIN Reconciled(refs) = DOMAIN journal
           /\ \A r \in DOMAIN journal : Reconciled(refs)[r] \in JournalStates
           /\ DOMAIN Captured(refs) \subseteq DOMAIN ord
  <1>1. \A r \in DOMAIN seen : seen[r].status \in JournalStates
    BY DEF TypeOK, OmsTypeOK, Orders, JournalStates
  <1>2. \A r \in DOMAIN journal : journal[r] \in JournalStates
    BY DEF TypeOK, StoreTypeOK
  <1>3. DOMAIN captured \subseteq DOMAIN ord /\ DOMAIN applied \subseteq DOMAIN ord
    BY DEF TypeOK, StoreTypeOK, OmsTypeOK
  <1> QED
    BY <1>1, <1>2, <1>3 DEF Reconciled, Captured, Fills

\* An active order leaves a whole number of shares to trade.
LEMMA RemainingInt == ASSUME NEW o \in Orders PROVE Remaining(o) \in Int
  BY DEF Orders, Remaining

\* An order that moves stays an order.
LEMMA MoveTyped ==
    ASSUME TypeOK, NEW r \in DOMAIN ord, NEW o \in Orders, BrokerMove(r, o),
           hold' \in [Instruments -> Int], ydtrue' \in [Instruments -> Int]
    PROVE  TypeOK'
  <1>1. DOMAIN ord' = DOMAIN ord /\ \A q \in DOMAIN ord' : ord'[q] \in Orders
    BY DEF BrokerMove, TypeOK, BrokerTypeOK
  <1> QED
    BY <1>1 DEF BrokerMove, TypeOK, StoreTypeOK, ThreadTypeOK, OmsTypeOK, BrokerTypeOK,
                store, thread, oms, world

\* A step that leaves the broker, the OMS and the world alone.
LEMMA QuietTyped ==
    ASSUME TypeOK, UNCHANGED <<oms, broker, expired, external>>, crashes' \in Nat
    PROVE  OmsTypeOK' /\ BrokerTypeOK'
  BY DEF TypeOK, OmsTypeOK, BrokerTypeOK, oms, broker

\* A step that only persists a phase.
LEMMA SaveTyped ==
    ASSUME TypeOK, NEW p \in Phases, Save(p), UNCHANGED <<journal, captured, thread, oms, broker, world>>
    PROVE  TypeOK'
  <1>1. OmsTypeOK' /\ BrokerTypeOK'
    BY QuietTyped DEF world, TypeOK, BrokerTypeOK
  <1> QED
    BY <1>1 DEF Save, TypeOK, StoreTypeOK, ThreadTypeOK, thread, broker

\* Every step keeps the types.
LEMMA TypeStep == TypeOK /\ [Next]_vars => TypeOK'
  <1> SUFFICES ASSUME TypeOK, [Next]_vars PROVE TypeOK'
    OBVIOUS
  <1>1. CASE Begin
    <2>1. /\ plan' \subseteq Children /\ next' \in [Instruments \X Sides -> Nat]
          /\ phase' \in Phases
      BY <1>1, ReplanTyped DEF Begin, Phases
    <2>2. OmsTypeOK' /\ BrokerTypeOK'
      BY <1>1, QuietTyped DEF Begin, world, TypeOK, BrokerTypeOK
    <2> QED
      BY <1>1, <2>1, <2>2 DEF Begin, TypeOK, StoreTypeOK, ThreadTypeOK, thread, broker
  <1>2. CASE AdvanceExpired \/ AdvanceBoundary \/ AdvanceDisabled \/ OperatorPause
    BY <1>2, SaveTyped DEF AdvanceExpired, AdvanceBoundary, AdvanceDisabled, OperatorPause,
       PausePlan, Phases
  <1>3. CASE AdvanceShadow
    <2>1. ShadowNext[phase] \in Phases
      BY <1>3 DEF AdvanceShadow, Open, ShadowNext, Phases, TypeOK, StoreTypeOK
    <2> QED
      BY <1>3, <2>1, SaveTyped DEF AdvanceShadow
  <1>4. CASE AdvancePlanned
    BY <1>4, SaveTyped DEF AdvancePlanned, Phases
  <1>5. ASSUME NEW p \in Phases, NEW side, NEW done \in Phases, RouteStart(p, side, done) PROVE TypeOK'
    <2>1. OmsTypeOK' /\ BrokerTypeOK'
      BY <1>5, QuietTyped DEF RouteStart, world, TypeOK, BrokerTypeOK
    <2>2. ChildrenOn(side) \subseteq plan
      BY DEF ChildrenOn
    <2> QED
      BY <1>5, <2>1, <2>2 DEF RouteStart, Routing, Ready, Save, TypeOK, StoreTypeOK, ThreadTypeOK, broker
  <1>6. ASSUME NEW c \in todo, RouteSkip(c) PROVE TypeOK'
    <2>1. OmsTypeOK' /\ BrokerTypeOK'
      BY <1>6, QuietTyped DEF RouteSkip, world, TypeOK, BrokerTypeOK
    <2> QED
      BY <1>6, <2>1 DEF RouteSkip, TypeOK, StoreTypeOK, ThreadTypeOK, store, broker
  <1>7. ASSUME NEW c \in todo, RouteJournal(c) PROVE TypeOK'
    <2>1. OmsTypeOK' /\ BrokerTypeOK'
      BY <1>7, QuietTyped DEF RouteJournal, world, TypeOK, BrokerTypeOK
    <2>2. Ref(c) \in Refs
      BY RefTyped DEF TypeOK, StoreTypeOK, ThreadTypeOK
    <2>3. DOMAIN journal' \subseteq Refs /\ \A r \in DOMAIN journal' : journal'[r] \in JournalStates
      BY <1>7, <2>2 DEF RouteJournal, Put, JournalStates, TypeOK, StoreTypeOK
    <2> QED
      BY <1>7, <2>1, <2>3 DEF RouteJournal, TypeOK, StoreTypeOK, ThreadTypeOK, broker
  <1>8. CASE SubmitDenied
    <2>1. OmsTypeOK' /\ BrokerTypeOK'
      BY <1>8, QuietTyped DEF SubmitDenied, world, TypeOK, BrokerTypeOK
    <2> QED
      BY <1>8, <2>1 DEF SubmitDenied, TypeOK, StoreTypeOK, ThreadTypeOK, store, broker
  <1>9. CASE SubmitAccepted
    <2> DEFINE o == [vol |-> cur.vol, traded |-> 0, status |-> "submitting"]
    <2>1. cur \in Children
      BY <1>9 DEF SubmitAccepted, TypeOK, StoreTypeOK, ThreadTypeOK
    <2>2. Ref(cur) \in Refs /\ o \in Orders
      BY <2>1, RefTyped DEF Children, Orders, OrderStates, Working
    <2>3. ord' = Put(ord, Ref(cur), o)
      BY <1>9 DEF SubmitAccepted
    <2> HIDE DEF o
    <2>4. /\ DOMAIN ord \subseteq DOMAIN ord' /\ DOMAIN ord' \subseteq Refs
          /\ \A r \in DOMAIN ord' : ord'[r] \in Orders
      BY <2>2, <2>3 DEF Put, TypeOK, BrokerTypeOK
    <2> QED
      BY <1>9, <2>4 DEF SubmitAccepted, TypeOK, StoreTypeOK, ThreadTypeOK, OmsTypeOK, BrokerTypeOK,
         store, oms, world
  <1>10. CASE RouteAck
    <2>1. OmsTypeOK' /\ BrokerTypeOK'
      BY <1>10, QuietTyped DEF RouteAck, world, TypeOK, BrokerTypeOK
    <2>2. Ref(cur) \in Refs
      BY <1>10, RefTyped DEF RouteAck, TypeOK, StoreTypeOK, ThreadTypeOK
    <2>3. DOMAIN journal' \subseteq Refs /\ \A r \in DOMAIN journal' : journal'[r] \in JournalStates
      BY <1>10, <2>2 DEF RouteAck, Put, JournalStates, OrderStates, Terminal, Failed, TypeOK, StoreTypeOK
    <2>4. submitted' \in BOOLEAN
      BY <1>10 DEF RouteAck
    <2> QED
      BY <1>10, <2>1, <2>3, <2>4 DEF RouteAck, TypeOK, StoreTypeOK, ThreadTypeOK, broker
  <1>11. ASSUME NEW p, NEW side, NEW waiting \in Phases, RouteWait(p, side, waiting) PROVE TypeOK'
    <2>1. OmsTypeOK' /\ BrokerTypeOK'
      BY <1>11, QuietTyped DEF RouteWait, world, TypeOK, BrokerTypeOK
    <2> QED
      BY <1>11, <2>1 DEF RouteWait, Save, TypeOK, StoreTypeOK, ThreadTypeOK, broker
  <1>12. ASSUME NEW side, NEW done \in Phases, Wait(side, done), UNCHANGED broker
         PROVE  StoreTypeOK' /\ plan' = plan
    <2>1. \A malformed \in BOOLEAN : WaitVerdict(side, done, malformed) \in Phases
      BY DEF WaitVerdict, Phases, TypeOK, StoreTypeOK
    <2>2. /\ DOMAIN journal' = DOMAIN journal /\ \A r \in DOMAIN journal' : journal'[r] \in JournalStates
          /\ DOMAIN captured' \subseteq DOMAIN ord
      BY <1>12, WaitTyped DEF Wait, TypeOK, StoreTypeOK
    <2> QED
      BY <1>12, <2>1, <2>2 DEF Wait, Save, TypeOK, StoreTypeOK, broker
  <1>13. CASE BuyWait
    <2>1. OmsTypeOK' /\ BrokerTypeOK'
      BY <1>13, QuietTyped DEF BuyWait, world, TypeOK, BrokerTypeOK
    <2>2. StoreTypeOK' /\ plan' = plan
      BY <1>12, <1>13 DEF BuyWait, Phases
    <2> QED
      BY <1>13, <2>1, <2>2 DEF BuyWait, TypeOK, ThreadTypeOK
  <1>14. CASE SellWait
    <2>1. OmsTypeOK' /\ BrokerTypeOK'
      BY <1>14, QuietTyped DEF SellWait, world, TypeOK, BrokerTypeOK
    <2>2. StoreTypeOK' /\ plan' = plan
      BY <1>12, <1>14 DEF SellWait, Phases
    <2> QED
      BY <1>14, <2>1, <2>2 DEF SellWait, TypeOK, ThreadTypeOK, thread
  <1>15. CASE AdvanceRefresh
    <2>1. OmsTypeOK' /\ BrokerTypeOK'
      BY <1>15, QuietTyped DEF AdvanceRefresh, world, TypeOK, BrokerTypeOK
    <2> QED
      BY <1>15, <2>1, RefreshTyped DEF AdvanceRefresh, Routing, Ready, TypeOK, StoreTypeOK,
         ThreadTypeOK, thread, broker
  <1>16. CASE FinalReconcile
    <2>1. OmsTypeOK' /\ BrokerTypeOK'
      BY <1>16, QuietTyped DEF FinalReconcile, world, TypeOK, BrokerTypeOK
    <2>2. /\ DOMAIN journal' = DOMAIN journal /\ \A r \in DOMAIN journal' : journal'[r] \in JournalStates
          /\ DOMAIN captured' \subseteq DOMAIN ord
      BY <1>16, WaitTyped DEF FinalReconcile, TypeOK, StoreTypeOK
    <2>3. Save("paused") \/ Save("completed") \/ Refresh
      BY <1>16 DEF FinalReconcile, PausePlan
    <2>4. /\ phase' \in Phases /\ mode' = mode /\ target' = target /\ locked' = locked
          /\ plan' \subseteq Children /\ replans' \in 0..MaxReplans
          /\ next' \in [Instruments \X Sides -> Nat]
      BY <2>3, RefreshTyped DEF Save, Phases, TypeOK, StoreTypeOK
    <2> QED
      BY <1>16, <2>1, <2>2, <2>4 DEF FinalReconcile, Routing, Ready, TypeOK, StoreTypeOK,
         ThreadTypeOK, thread, broker
  <1>17. CASE Recover
    <2>1. OmsTypeOK' /\ BrokerTypeOK'
      BY <1>17, QuietTyped DEF Recover, world, TypeOK, BrokerTypeOK
    <2>2. /\ DOMAIN journal' = DOMAIN journal /\ \A r \in DOMAIN journal' : journal'[r] \in JournalStates
          /\ DOMAIN captured' \subseteq DOMAIN ord
      BY <1>17, WaitTyped DEF Recover, TypeOK, StoreTypeOK
    <2>3. Save("paused") \/ Save(phase)
      BY <1>17 DEF Recover, PausePlan
    <2> QED
      BY <1>17, <2>1, <2>2, <2>3 DEF Recover, Save, Phases, TypeOK, StoreTypeOK, ThreadTypeOK, thread, broker
  <1>18. CASE Crash \/ CrashReporting
    <2>1. OmsTypeOK' /\ BrokerTypeOK'
      BY <1>18, QuietTyped DEF Crash, CrashReporting, Die, TypeOK, BrokerTypeOK
    <2>2. /\ DOMAIN journal' = DOMAIN journal /\ \A r \in DOMAIN journal' : journal'[r] \in JournalStates
          /\ DOMAIN captured' \subseteq DOMAIN ord
      BY <1>18, WaitTyped DEF Crash, CrashReporting, HalfReconciled, TypeOK, StoreTypeOK
    <2> QED
      BY <1>18, <2>1, <2>2 DEF Crash, CrashReporting, Die, TypeOK, StoreTypeOK, ThreadTypeOK, broker
  <1>19. CASE Restart
    <2>1. \A r \in DOMAIN ord : ord[r].traded \in Int
      BY DEF TypeOK, BrokerTypeOK, Orders
    <2>2. OmsTypeOK'
      BY <1>19, <2>1, EmptyDomain DEF Restart, TypeOK, OmsTypeOK, BrokerTypeOK, broker
    <2> QED
      BY <1>19, <2>2 DEF Restart, TypeOK, StoreTypeOK, ThreadTypeOK, BrokerTypeOK, store, broker, world
  <1>20. ASSUME NEW r \in DOMAIN ord, DeliverOrder(r) PROVE TypeOK'
    <2>1. ord[r] \in Orders /\ Remaining(ord[r]) \in Int
      BY RemainingInt DEF TypeOK, BrokerTypeOK
    <2>2. Remaining(At(seen, r, NoOrder)) \in Int
      BY RemainingInt DEF At, NoOrder, Remaining, Working, TypeOK, OmsTypeOK
    <2>3. work' \in [Instruments \X Sides -> Int]
      <3> DEFINE k == <<r[1], r[2]>>
                 a == Remaining(At(seen, r, NoOrder))
                 b == Remaining(ord[r])
      <3>1. work' = [work EXCEPT ![k] = @ - a + b]
        BY <1>20 DEF DeliverOrder
      <3>2. k \in Instruments \X Sides
        BY DEF TypeOK, BrokerTypeOK, Refs
      <3>3. a \in Int /\ b \in Int
        BY <2>1, <2>2
      <3>4. work \in [Instruments \X Sides -> Int]
        BY DEF TypeOK, OmsTypeOK
      <3> HIDE DEF k, a, b
      <3> QED
        BY <3>1, <3>2, <3>3, <3>4
    <2>4. DOMAIN seen' \subseteq DOMAIN ord /\ \A q \in DOMAIN seen' : seen'[q] \in Orders
      BY <1>20, <2>1 DEF DeliverOrder, Put, TypeOK, OmsTypeOK
    <2> QED
      BY <1>20, <2>3, <2>4 DEF DeliverOrder, TypeOK, StoreTypeOK, ThreadTypeOK, OmsTypeOK, BrokerTypeOK,
         store, thread, broker, world
  <1>21. ASSUME NEW r \in DOMAIN ord, DeliverFills(r) PROVE TypeOK'
    <2>1. ord[r].traded \in Int /\ At(applied, r, 0) \in Int
      BY DEF At, TypeOK, OmsTypeOK, BrokerTypeOK, Orders
    <2>2. pos' \in [Instruments -> Int] /\ yd' \in [Instruments -> Int]
      BY <1>21, <2>1 DEF DeliverFills, Greatest, TypeOK, OmsTypeOK
    <2>3. DOMAIN applied' \subseteq DOMAIN ord /\ \A q \in DOMAIN applied' : applied'[q] \in Int
      BY <1>21, <2>1 DEF DeliverFills, Put, TypeOK, OmsTypeOK
    <2> QED
      BY <1>21, <2>2, <2>3 DEF DeliverFills, TypeOK, StoreTypeOK, ThreadTypeOK, OmsTypeOK, BrokerTypeOK,
         store, thread, broker, world
  <1>22. ASSUME NEW r \in DOMAIN ord, BrokerAccept(r) \/ BrokerClose(r) PROVE TypeOK'
    <2>1. \A s \in OrderStates : [ord[r] EXCEPT !.status = s] \in Orders
      BY DEF TypeOK, BrokerTypeOK, Orders
    <2>2. PICK s \in OrderStates : BrokerMove(r, [ord[r] EXCEPT !.status = s])
      BY <1>22 DEF BrokerAccept, BrokerClose, OrderStates, Working, Terminal
    <2>3. hold' \in [Instruments -> Int] /\ ydtrue' \in [Instruments -> Int]
      BY <1>22 DEF BrokerAccept, BrokerClose, TypeOK, BrokerTypeOK
    <2> QED
      BY <2>1, <2>2, <2>3, MoveTyped
  <1>23. ASSUME NEW r \in DOMAIN ord, NEW v \in 1..ord[r].vol, BrokerFill(r, v) PROVE TypeOK'
    <2> DEFINE t == ord[r].traded + v
               o == [ord[r] EXCEPT !.traded = t,
                        !.status = IF t = ord[r].vol THEN "alltraded" ELSE "parttraded"]
    <2>0. ord[r].vol \in Int /\ ord[r].traded \in Int
      BY DEF TypeOK, BrokerTypeOK, Orders
    <2>1. v \in Int /\ t \in Int
      BY <2>0
    <2>2. o \in Orders
      BY <2>1 DEF TypeOK, BrokerTypeOK, Orders, OrderStates, Working, Terminal
    <2>3. BrokerMove(r, o)
      BY <1>23 DEF BrokerFill
    <2>4. hold' \in [Instruments -> Int] /\ ydtrue' \in [Instruments -> Int]
      BY <1>23, <2>1 DEF BrokerFill, TypeOK, BrokerTypeOK
    <2> HIDE DEF o
    <2> QED
      BY <2>2, <2>3, <2>4, MoveTyped
  <1>24. CASE Expire \/ External \/ PollPositions
    BY <1>24 DEF Expire, External, PollPositions, world, TypeOK, StoreTypeOK, ThreadTypeOK, OmsTypeOK, BrokerTypeOK,
       store, thread, oms, broker
  <1>25. CASE UNCHANGED vars
    BY <1>25 DEF vars, TypeOK, StoreTypeOK, ThreadTypeOK, OmsTypeOK, BrokerTypeOK,
       store, thread, oms, broker, world
  <1> QED
    BY <1>1, <1>2, <1>3, <1>4, <1>5, <1>6, <1>7, <1>8, <1>9, <1>10, <1>11, <1>13, <1>14,
       <1>15, <1>16, <1>17, <1>18, <1>19, <1>20, <1>21, <1>22, <1>23, <1>24, <1>25
       DEF Next, Advance, Deliver, Broker, Phases

\* Every variable keeps its type: in particular next_child_index, a maximum over
\* the children, is defined after every plan and replan, and the routing loop
\* never holds a child that the stored plan lost.
THEOREM Typed == Spec => []TypeOK
  BY TypeInit, TypeStep, PTL DEF Spec
=============================================================================
