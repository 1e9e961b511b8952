--------------------------- MODULE AccountProofs ---------------------------
(***************************************************************************)
(* What the plan knows of the account: fills count once, a plan that goes  *)
(* on has its fills in the store, a completed plan has reached its target, *)
(* and no plan orders more than the way to its target.                     *)
(* All of it holds in the process that began the plan: a restarted one     *)
(* counts the fills of the day twice.  For every universe, book, target    *)
(* and bound; what a theorem needs of the gateway is its assumption.       *)
(***************************************************************************)
EXTENDS PromiseProofs, FiniteSetTheorems

(***************************************************************************)
(* Sums.  The volume that orders have traded and the OMS has not applied   *)
(* is a sum over orders.  What a sum over every finite set is cannot be    *)
(* proved here without induction over sets; instead the invariant says     *)
(* that there is a table mu of the sums of w over all subsets of D, and    *)
(* each step, which changes one weight or adds one order, changes the      *)
(* table accordingly.                                                      *)
(***************************************************************************)
Sums(mu, D, w) ==
    /\ mu \in [SUBSET D -> Nat]
    /\ \A S \in SUBSET D : \A r \in S : mu[S] = mu[S \ {r}] + w[r]
    /\ \A S \in SUBSET D : (\A r \in S : w[r] = 0) => mu[S] = 0

\* z differs from w in the weight of r only, which is v.
Reweighed(D, w, z, r, v) ==
    /\ r \in D /\ v \in Nat /\ \A q \in D : w[q] \in Nat
    /\ z[r] = v /\ \A q \in D \ {r} : z[q] = w[q]

\* The table nu after r has got the weight v instead of u.
SumsMoved(mu, nu, D, r, u, v) ==
    \A S \in SUBSET D : nu[S] = IF r \in S THEN mu[S] - u + v ELSE mu[S]

\* z extends w to r with the weight v.
Extended(D, w, z, r, v) ==
    /\ r \notin D /\ v \in Nat /\ \A q \in D : w[q] \in Nat
    /\ z[r] = v /\ \A q \in D : z[q] = w[q]

\* The table nu after r has been added with the weight v.
SumsAdded(mu, nu, D, r, v) ==
    \A S \in SUBSET D : nu[S] = mu[S] /\ nu[S \cup {r}] = mu[S] + v

\* All weights are zero: so are all sums.
LEMMA SumsZero ==
    ASSUME NEW D, NEW w, \A r \in D : w[r] = 0
    PROVE  Sums([S \in SUBSET D |-> 0], D, w)
  BY DEF Sums

\* One weight is set to a new value.
LEMMA SumsSet ==
    ASSUME NEW D, NEW w, NEW z, NEW r, NEW v, NEW mu, Sums(mu, D, w), Reweighed(D, w, z, r, v)
    PROVE  \E nu : Sums(nu, D, z) /\ SumsMoved(mu, nu, D, r, w[r], v)
  <1> USE DEF Reweighed
  <1> DEFINE nu == [S \in SUBSET D |-> IF r \in S THEN mu[S \ {r}] + v ELSE mu[S]]
  <1>1. nu \in [SUBSET D -> Nat]
    BY DEF Sums
  <1>2. ASSUME NEW S \in SUBSET D
        PROVE  nu[S] = IF r \in S THEN mu[S] - w[r] + v ELSE mu[S]
    <2>1. r \in S => mu[S] = mu[S \ {r}] + w[r] /\ mu[S \ {r}] \in Nat
      BY <1>2 DEF Sums
    <2> QED
      BY <1>2, <2>1
  <1>3. ASSUME NEW S \in SUBSET D, NEW q \in S
        PROVE  nu[S] = nu[S \ {q}] + z[q]
    <2>1. CASE q = r
      BY <1>3, <2>1
    <2>2. CASE q # r /\ r \in S
      <3>1. (S \ {r}) \ {q} = (S \ {q}) \ {r} /\ S \ {r} \in SUBSET D /\ q \in S \ {r}
        BY <1>3, <2>2
      <3>2. mu[S \ {r}] = mu[(S \ {q}) \ {r}] + w[q]
        BY <3>1 DEF Sums
      <3>3. mu[(S \ {q}) \ {r}] \in Nat /\ w[q] \in Nat /\ z[q] = w[q] /\ S \ {q} \in SUBSET D
        BY <1>3, <2>2 DEF Sums
      <3> QED
        BY <1>3, <2>2, <3>2, <3>3
    <2>3. CASE r \notin S
      <3>1. mu[S] = mu[S \ {q}] + w[q] /\ z[q] = w[q]
        BY <1>3, <2>3 DEF Sums
      <3> QED
        BY <1>3, <2>3, <3>1
    <2> QED
      BY <2>1, <2>2, <2>3
  <1>4. ASSUME NEW S \in SUBSET D, \A q \in S : z[q] = 0
        PROVE  nu[S] = 0
    <2>1. CASE r \in S
      <3>1. \A q \in S \ {r} : w[q] = 0
        BY <1>4
      <3>2. mu[S \ {r}] = 0 /\ v = 0
        BY <1>4, <2>1, <3>1 DEF Sums
      <3> QED
        BY <2>1, <3>2
    <2>2. CASE r \notin S
      <3>1. \A q \in S : w[q] = 0
        BY <1>4, <2>2
      <3> QED
        BY <2>2, <3>1 DEF Sums
    <2> QED
      BY <2>1, <2>2
  <1>5. Sums(nu, D, z)
    BY <1>1, <1>3, <1>4 DEF Sums
  <1>6. SumsMoved(mu, nu, D, r, w[r], v)
    BY <1>2 DEF SumsMoved
  <1> QED
    BY <1>5, <1>6

\* A new element.
LEMMA SumsGrow ==
    ASSUME NEW D, NEW w, NEW z, NEW r, NEW v, NEW mu, Sums(mu, D, w), Extended(D, w, z, r, v)
    PROVE  \E nu : Sums(nu, D \cup {r}, z) /\ SumsAdded(mu, nu, D, r, v)
  <1> USE DEF Extended
  <1> DEFINE E == D \cup {r}
             nu == [S \in SUBSET E |-> IF r \in S THEN mu[S \ {r}] + v ELSE mu[S \ {r}]]
  <1>0. \A S \in SUBSET E : S \ {r} \in SUBSET D /\ mu[S \ {r}] \in Nat
    BY DEF Sums
  <1>1. nu \in [SUBSET E -> Nat]
    <2>1. \A S \in SUBSET E : mu[S \ {r}] + v \in Nat /\ mu[S \ {r}] \in Nat
      BY <1>0
    <2> HIDE DEF E
    <2> QED
      BY <2>1
  <1>2. ASSUME NEW S \in SUBSET D PROVE nu[S] = mu[S] /\ nu[S \cup {r}] = mu[S] + v
    <2>1. S \ {r} = S /\ (S \cup {r}) \ {r} = S
      OBVIOUS
    <2>2. r \notin S /\ r \in S \cup {r} /\ S \in SUBSET E /\ S \cup {r} \in SUBSET E
      OBVIOUS
    <2> HIDE DEF E
    <2>3. nu[S] = mu[S \ {r}] /\ nu[S \cup {r}] = mu[(S \cup {r}) \ {r}] + v
      BY <2>2
    <2> QED
      BY <2>1, <2>3
  <1>3. ASSUME NEW S \in SUBSET E, NEW q \in S
        PROVE  nu[S] = nu[S \ {q}] + z[q]
    <2>1. CASE q = r
      <3>1. (S \ {q}) \ {r} = S \ {r}
        BY <2>1
      <3> QED
        BY <1>0, <2>1, <3>1
    <2>2. CASE q # r
      <3>1. (S \ {q}) \ {r} = (S \ {r}) \ {q} /\ q \in S \ {r} /\ S \ {q} \in SUBSET E
        BY <2>2
      <3>2. mu[S \ {r}] = mu[(S \ {r}) \ {q}] + w[q] /\ q \in D
        BY <1>0, <2>2, <3>1 DEF Sums
      <3>3. mu[(S \ {q}) \ {r}] \in Nat /\ w[q] \in Nat /\ z[q] = w[q] /\ (r \in S <=> r \in S \ {q})
        BY <1>0, <2>2, <3>1, <3>2
      <3> QED
        BY <3>1, <3>2, <3>3
    <2> QED
      BY <2>1, <2>2
  <1>4. ASSUME NEW S \in SUBSET E, \A q \in S : z[q] = 0
        PROVE  nu[S] = 0
    <2>1. mu[S \ {r}] = 0
      BY <1>0, <1>4 DEF Sums
    <2>2. r \in S => v = 0
      BY <1>4
    <2> QED
      BY <2>1, <2>2
  <1>5. Sums(nu, E, z)
    BY <1>1, <1>3, <1>4 DEF Sums
  <1>6. SumsAdded(mu, nu, D, r, v)
    BY <1>2 DEF SumsAdded
  <1> QED
    BY <1>5, <1>6

(***************************************************************************)
(* The steps.  Those that are not named leave broker and OMS alone; they   *)
(* write reported statuses and fills to the store, or nothing, and only    *)
(* they crash.                                                             *)
(***************************************************************************)
Other ==
    /\ UNCHANGED <<seen, applied, pos, work, ord, hold, ydtrue, routed, opening>>
    /\ journal' = journal \/ \E refs : journal' = Reconciled(refs)
    /\ captured' = captured \/ \E refs : captured' = Captured(refs)
    /\ \/ crashes' = crashes /\ (pc' = "down" <=> pc = "down")
       \/ crashes' = crashes + 1 /\ pc' = "down"

\* A step of the broker.
Moves == \E r \in DOMAIN ord :
    BrokerAccept(r) \/ BrokerClose(r) \/ \E v \in 1..ord[r].vol : BrokerFill(r, v)

\* A step is one of the named ones, or leaves broker and OMS alone.
LEMMA Cases ==
    ASSUME [Next]_vars, TypeOK
    PROVE  \/ SubmitAccepted \/ Moves \/ Restart \/ PollPositions \/ RouteAck
           \/ \E r \in DOMAIN ord : DeliverOrder(r) \/ DeliverFills(r)
           \/ \E c \in todo : RouteJournal(c)
           \/ Other
  <1>1. CASE Begin \/ AdvanceExpired \/ AdvanceBoundary \/ AdvanceShadow \/ AdvanceDisabled
             \/ AdvancePlanned \/ AdvanceRefresh \/ OperatorPause
    BY <1>1 DEF Begin, AdvanceExpired, AdvanceBoundary, AdvanceShadow, AdvanceDisabled,
       AdvancePlanned, AdvanceRefresh, OperatorPause, Other, thread, oms, broker, world, history
  <1>2. ASSUME NEW p, NEW side, NEW done, RouteStart(p, side, done) PROVE Other
    BY <1>2 DEF RouteStart, Routing, Ready, Other, oms, broker, world, history
  <1>3. ASSUME NEW p, NEW side, NEW done, RouteWait(p, side, done) PROVE Other
    BY <1>3 DEF RouteWait, Other, oms, broker, world, history
  <1>4. CASE SubmitDenied \/ \E c \in todo : RouteSkip(c)
    BY <1>4 DEF SubmitDenied, RouteSkip, Other, store, oms, broker, world, history
  <1>5. CASE BuyWait
    BY <1>5 DEF BuyWait, Wait, Other, oms, broker, world, history
  <1>6. CASE SellWait
    BY <1>6 DEF SellWait, Wait, Other, thread, oms, broker, world, history
  <1>7. CASE FinalReconcile
    BY <1>7 DEF FinalReconcile, Other, thread, oms, broker, world, history
  <1>8. CASE Recover
    BY <1>8 DEF Recover, Other, thread, oms, broker, world, history
  <1>9. CASE Crash
    BY <1>9 DEF Crash, Die, Other, oms, broker, history
  <1>10. CASE CrashReporting
    BY <1>10 DEF CrashReporting, HalfReconciled, Die, Other, oms, broker, history
  <1>11. CASE Expire \/ External \/ UNCHANGED vars
    BY <1>11 DEF Expire, External, vars, Other, store, thread, oms, broker, world, history
  <1> QED
    BY <1>1, <1>2, <1>3, <1>4, <1>5, <1>6, <1>7, <1>8, <1>9, <1>10, <1>11
       DEF Next, Advance, Deliver, Broker, Moves

\* A step of the process that began the plan.
FirstStep == [Next]_vars /\ crashes = 0 /\ crashes' = 0 /\ pc # "down"

\* That process is up until the first crash.
FirstUp == crashes = 0 => pc # "down"

\* A step without a crash is one of the first process.
LEMMA FirstStays ==
    ASSUME Inv, FirstUp, [Next]_vars
    PROVE  FirstUp' /\ (crashes' = 0 => FirstStep)
  <1>0. TypeOK /\ crashes \in Nat
    BY DEF Inv, TypeOK, BrokerTypeOK
  <1>1. CASE Other
    BY <1>0, <1>1 DEF Other, FirstUp, FirstStep
  <1>2. CASE Restart
    BY <1>2 DEF Restart, world, FirstUp
  <1>3. CASE RouteAck \/ SubmitAccepted \/ \E c \in todo : RouteJournal(c)
    BY <1>3 DEF RouteAck, SubmitAccepted, RouteJournal, world, FirstUp, FirstStep
  <1>4. CASE PollPositions \/ \E r \in DOMAIN ord : DeliverOrder(r) \/ DeliverFills(r)
    BY <1>4 DEF PollPositions, DeliverOrder, DeliverFills, thread, world, FirstUp, FirstStep
  <1>5. CASE Moves
    BY <1>5 DEF Moves, BrokerAccept, BrokerClose, BrokerFill, BrokerMove, thread, world, FirstUp,
       FirstStep
  <1> QED
    BY <1>0, <1>1, <1>2, <1>3, <1>4, <1>5, Cases

(***************************************************************************)
(* Fills count once.  At any time the book of the OMS is the true one      *)
(* without the fills that are on their way; that a sell never makes the    *)
(* book negative, where PositionBook would cut it off at zero, rests on    *)
(* the sellable volume being there.                                        *)
(***************************************************************************)
Pending == [r \in DOMAIN ord |-> ord[r].traded - At(applied, r, 0)]

OrdersOn(i, s) == { r \in DOMAIN ord : r[1] = i /\ r[2] = s }

FillsOrdered ==
    \A r \in DOMAIN ord :
        ord[r].traded \in Nat /\ At(applied, r, 0) \in 0..ord[r].traded

Sellable == \A i \in Instruments : ydtrue[i] \in 0..hold[i]

BookTrue(mu) ==
    \A i \in Instruments :
        /\ pos[i] = hold[i] - mu[OrdersOn(i, "buy")] + mu[OrdersOn(i, "sell")]
        /\ pos[i] - mu[OrdersOn(i, "sell")] >= ydtrue[i]

CountInv ==
    /\ FillsOrdered
    /\ Sellable
    /\ pc # "down" => \E mu : Sums(mu, DOMAIN ord, Pending) /\ BookTrue(mu)

\* The weights and the sets of orders.
LEMMA PendingTyped ==
    ASSUME FillsOrdered
    PROVE  /\ \A r \in DOMAIN ord : Pending[r] \in Nat
           /\ \A i, s : OrdersOn(i, s) \in SUBSET DOMAIN ord
  BY DEF FillsOrdered, Pending, OrdersOn

\* The invariant holds initially.
LEMMA CountInit == Init => CountInv
  <1> SUFFICES ASSUME Init PROVE CountInv
    OBVIOUS
  <1>1. DOMAIN ord = {} /\ FillsOrdered
    BY EmptyDomain DEF Init, FillsOrdered
  <1>2. ASSUME NEW i \in Instruments PROVE hold[i] \in Nat /\ ydtrue[i] \in 0..hold[i] /\ pos[i] = hold[i]
    <2>1. hold \in [Instruments -> Nat]
      BY ExecutionAssumption DEF Init
    <2> DEFINE M == UNION { 0..h[j] : h \in Holdings, j \in Instruments }
    <2>2. \A m \in M : m \in Nat
      BY ExecutionAssumption
    <2>3. ydtrue \in [Instruments -> M] /\ ydtrue[i] <= hold[i] /\ pos[i] = hold[i]
      BY <1>2 DEF Init
    <2> HIDE DEF M
    <2>4. ydtrue[i] \in Nat
      BY <1>2, <2>2, <2>3
    <2> QED
      BY <1>2, <2>1, <2>3, <2>4
  <1> DEFINE mu == [S \in SUBSET DOMAIN ord |-> 0]
  <1>3. Sums(mu, DOMAIN ord, Pending)
    BY <1>1, SumsZero
  <1>4. BookTrue(mu)
    <2>1. \A i, s : mu[OrdersOn(i, s)] = 0
      BY DEF OrdersOn
    <2>2. ASSUME NEW i \in Instruments, NEW m, m = mu[OrdersOn(i, "sell")], NEW n, n = mu[OrdersOn(i, "buy")]
          PROVE  pos[i] = hold[i] - n + m /\ pos[i] - m >= ydtrue[i]
      BY <1>2, <2>1, <2>2
    <2> QED
      BY <2>2 DEF BookTrue
  <1> QED
    BY <1>1, <1>2, <1>3, <1>4 DEF CountInv, Sellable

\* Fills, holdings and sums do not change.
LEMMA CountKept ==
    ASSUME CountInv, UNCHANGED <<applied, pos, hold, ydtrue>>, DOMAIN ord' = DOMAIN ord,
           \A r \in DOMAIN ord : ord'[r].traded = ord[r].traded, pc' = "down" \/ pc # "down"
    PROVE  CountInv'
  <1>1. FillsOrdered' /\ Sellable'
    BY DEF CountInv, FillsOrdered, Sellable
  <1>2. Pending' = Pending /\ \A i, s : OrdersOn(i, s)' = OrdersOn(i, s)
    BY DEF Pending, OrdersOn
  <1>3. ASSUME NEW mu, Sums(mu, DOMAIN ord, Pending), BookTrue(mu), pc' # "down"
        PROVE  Sums(mu, DOMAIN ord', Pending') /\ \A i \in Instruments :
                 /\ pos'[i] = hold'[i] - mu[OrdersOn(i, "buy")'] + mu[OrdersOn(i, "sell")']
                 /\ pos'[i] - mu[OrdersOn(i, "sell")'] >= ydtrue'[i]
    BY <1>2, <1>3 DEF BookTrue
  <1> QED
    BY <1>1, <1>3 DEF CountInv, BookTrue

\* The sums by instrument and side when the weight of r goes from u to v.
MovedOn(mu, nu, r, u, v) ==
    \A i, s : /\ mu[OrdersOn(i, s)] \in Nat
              /\ r[1] = i /\ r[2] = s => /\ nu[OrdersOn(i, s)] = mu[OrdersOn(i, s)] - u + v
                                         /\ u <= mu[OrdersOn(i, s)]
              /\ r[1] # i \/ r[2] # s => nu[OrdersOn(i, s)] = mu[OrdersOn(i, s)]

\* One order is reweighed.
LEMMA MoveOn ==
    ASSUME NEW mu, NEW w, NEW z, NEW r, NEW v, Sums(mu, DOMAIN ord, w),
           Reweighed(DOMAIN ord, w, z, r, v)
    PROVE  \E nu : Sums(nu, DOMAIN ord, z) /\ MovedOn(mu, nu, r, w[r], v)
  <1>1. PICK nu : Sums(nu, DOMAIN ord, z) /\ SumsMoved(mu, nu, DOMAIN ord, r, w[r], v)
    BY SumsSet
  <1>2. ASSUME NEW i, NEW s
        PROVE  /\ mu[OrdersOn(i, s)] \in Nat
               /\ r[1] = i /\ r[2] = s => /\ nu[OrdersOn(i, s)] = mu[OrdersOn(i, s)] - w[r] + v
                                          /\ w[r] <= mu[OrdersOn(i, s)]
               /\ r[1] # i \/ r[2] # s => nu[OrdersOn(i, s)] = mu[OrdersOn(i, s)]
    <2> DEFINE S == OrdersOn(i, s)
    <2>1. S \in SUBSET DOMAIN ord /\ (r \in S <=> (r[1] = i /\ r[2] = s))
      BY DEF OrdersOn, Reweighed
    <2> HIDE DEF S
    <2>2. mu[S] \in Nat
      BY <2>1 DEF Sums
    <2>3. r \in S => mu[S] = mu[S \ {r}] + w[r] /\ mu[S \ {r}] \in Nat /\ w[r] \in Nat
      BY <2>1 DEF Sums, Reweighed
    <2>4. nu[S] = IF r \in S THEN mu[S] - w[r] + v ELSE mu[S]
      BY <1>1, <2>1 DEF SumsMoved
    <2>5. /\ r \in S => nu[S] = mu[S] - w[r] + v /\ w[r] <= mu[S]
          /\ r \notin S => nu[S] = mu[S]
      BY <2>2, <2>3, <2>4
    <2> QED
      BY <2>1, <2>2, <2>5 DEF S
  <1> QED
    BY <1>1, <1>2 DEF MovedOn

\* The sums by instrument and side when r is added with the weight v.
AddedOn(mu, nu, r, v) ==
    \A i, s : /\ mu[OrdersOn(i, s)] \in Nat
              /\ r[1] = i /\ r[2] = s => nu[OrdersOn(i, s)'] = mu[OrdersOn(i, s)] + v
              /\ r[1] # i \/ r[2] # s => nu[OrdersOn(i, s)'] = mu[OrdersOn(i, s)]

\* One order is added.
LEMMA AddOn ==
    ASSUME NEW mu, NEW w, NEW z, NEW r, NEW v, Sums(mu, DOMAIN ord, w),
           Extended(DOMAIN ord, w, z, r, v), DOMAIN ord' = DOMAIN ord \cup {r}
    PROVE  \E nu : Sums(nu, DOMAIN ord', z) /\ AddedOn(mu, nu, r, v)
  <1>1. PICK nu : Sums(nu, DOMAIN ord \cup {r}, z) /\ SumsAdded(mu, nu, DOMAIN ord, r, v)
    BY SumsGrow
  <1>2. ASSUME NEW i, NEW s
        PROVE  /\ mu[OrdersOn(i, s)] \in Nat
               /\ r[1] = i /\ r[2] = s => nu[OrdersOn(i, s)'] = mu[OrdersOn(i, s)] + v
               /\ r[1] # i \/ r[2] # s => nu[OrdersOn(i, s)'] = mu[OrdersOn(i, s)]
    <2>1. OrdersOn(i, s) \in SUBSET DOMAIN ord
      BY DEF OrdersOn
    <2>2. mu[OrdersOn(i, s)] \in Nat
      BY <2>1 DEF Sums
    <2>3. /\ r[1] = i /\ r[2] = s => OrdersOn(i, s)' = OrdersOn(i, s) \cup {r}
          /\ r[1] # i \/ r[2] # s => OrdersOn(i, s)' = OrdersOn(i, s)
      BY DEF OrdersOn
    <2>4. nu[OrdersOn(i, s)] = mu[OrdersOn(i, s)] /\ nu[OrdersOn(i, s) \cup {r}] = mu[OrdersOn(i, s)] + v
      BY <1>1, <2>1 DEF SumsAdded
    <2> QED
      BY <2>2, <2>3, <2>4
  <1> QED
    BY <1>1, <1>2 DEF AddedOn

\* A new order has no fills.
LEMMA CountSubmit ==
    ASSUME Inv, CountInv, SubmitAccepted
    PROVE  CountInv'
  <1> DEFINE r == Ref(cur)
  <1>1. /\ DOMAIN ord' = DOMAIN ord \cup {r} /\ r \notin DOMAIN ord /\ r \notin DOMAIN applied
        /\ ord'[r].traded = 0 /\ \A q \in DOMAIN ord : ord'[q] = ord[q]
    BY DEF SubmitAccepted, Put, Inv, JournalInv, TypeOK, OmsTypeOK, Ref
  <1>2. UNCHANGED <<applied, pos, hold, ydtrue>> /\ pc # "down"
    BY DEF SubmitAccepted, oms
  <1> HIDE DEF r
  <1>3. FillsOrdered' /\ Sellable'
    BY <1>1, <1>2 DEF CountInv, FillsOrdered, Sellable, At
  <1>4. PICK mu : Sums(mu, DOMAIN ord, Pending) /\ BookTrue(mu)
    BY <1>2 DEF CountInv
  <1>5. Extended(DOMAIN ord, Pending, Pending', r, 0)
    BY <1>1, <1>2, PendingTyped DEF Pending, At, CountInv, Extended
  <1>6. PICK nu : Sums(nu, DOMAIN ord', Pending') /\ AddedOn(mu, nu, r, 0)
    BY <1>1, <1>4, <1>5, AddOn
  <1>7. \A i, s : nu[OrdersOn(i, s)'] = mu[OrdersOn(i, s)]
    BY <1>6 DEF AddedOn
  <1>8. ASSUME NEW i \in Instruments
        PROVE  /\ pos'[i] = hold'[i] - nu[OrdersOn(i, "buy")'] + nu[OrdersOn(i, "sell")']
               /\ pos'[i] - nu[OrdersOn(i, "sell")'] >= ydtrue'[i]
    BY <1>2, <1>4, <1>7 DEF BookTrue
  <1> QED
    BY <1>3, <1>6, <1>8 DEF CountInv, BookTrue

\* Without a new order the orders of an instrument stay.
LEMMA OrdersOnKept ==
    ASSUME DOMAIN ord' = DOMAIN ord
    PROVE  \A i, s : OrdersOn(i, s)' = OrdersOn(i, s)
  BY DEF OrdersOn

\* A fill at the broker is on its way.
LEMMA CountFill ==
    ASSUME Inv, CountInv, NEW r \in DOMAIN ord, NEW v, BrokerFill(r, v)
    PROVE  CountInv'
  <1>1. /\ r[1] \in Instruments /\ r[2] \in {"buy", "sell"} /\ v \in Nat
        /\ ord[r].vol \in Int /\ ord[r].traded \in Nat /\ hold \in [Instruments -> Int]
        /\ ydtrue \in [Instruments -> Int] /\ pos \in [Instruments -> Int]
    BY DEF BrokerFill, Inv, TypeOK, BrokerTypeOK, OmsTypeOK, Refs, Orders, Sides, CountInv, FillsOrdered
  <1>2. /\ DOMAIN ord' = DOMAIN ord /\ ord'[r].traded = ord[r].traded + v
        /\ \A q \in DOMAIN ord : q # r => ord'[q] = ord[q]
    BY <1>1 DEF BrokerFill, BrokerMove, Inv, TypeOK, BrokerTypeOK, Orders
  <1>3. UNCHANGED <<applied, pos, pc>>
    BY DEF BrokerFill, BrokerMove, oms, thread
  <1>4. r[2] = "buy" => /\ hold'[r[1]] = hold[r[1]] + v /\ ydtrue' = ydtrue
                        /\ \A i \in Instruments : i # r[1] => hold'[i] = hold[i]
    BY <1>1 DEF BrokerFill
  <1>5. r[2] = "sell" => /\ hold'[r[1]] = hold[r[1]] - v /\ ydtrue'[r[1]] = ydtrue[r[1]] - v
                         /\ v <= ydtrue[r[1]]
                         /\ \A i \in Instruments : i # r[1] => hold'[i] = hold[i] /\ ydtrue'[i] = ydtrue[i]
    BY <1>1 DEF BrokerFill
  <1>6. FillsOrdered'
    BY <1>1, <1>2, <1>3 DEF CountInv, FillsOrdered, At
  <1>7. Sellable'
    BY <1>1, <1>4, <1>5 DEF CountInv, Sellable
  <1>8. ASSUME pc' # "down" PROVE \E nu : Sums(nu, DOMAIN ord', Pending') /\ BookTrue(nu)'
    <2>1. PICK mu : Sums(mu, DOMAIN ord, Pending) /\ BookTrue(mu)
      BY <1>3, <1>8 DEF CountInv
    <2>2. PICK u \in Nat : u = Pending[r]
      BY PendingTyped DEF CountInv
    <2>3. Reweighed(DOMAIN ord, Pending, Pending', r, u + v)
      BY <1>1, <1>2, <1>3, <2>2, PendingTyped DEF Pending, At, CountInv, FillsOrdered, Reweighed
    <2>4. PICK nu : Sums(nu, DOMAIN ord, Pending') /\ MovedOn(mu, nu, r, u, u + v)
      BY <2>1, <2>2, <2>3, MoveOn
    <2>5. ASSUME NEW i \in Instruments
          PROVE  /\ pos'[i] = hold'[i] - nu[OrdersOn(i, "buy")'] + nu[OrdersOn(i, "sell")']
                 /\ pos'[i] - nu[OrdersOn(i, "sell")'] >= ydtrue'[i]
      <3>1. PICK b, s : b = mu[OrdersOn(i, "buy")] /\ s = mu[OrdersOn(i, "sell")]
        OBVIOUS
      <3>2. pos[i] = hold[i] - b + s /\ pos[i] - s >= ydtrue[i]
        BY <2>1, <3>1 DEF BookTrue
      <3>3. /\ b \in Nat
            /\ nu[OrdersOn(i, "buy")'] = IF r[1] = i /\ r[2] = "buy" THEN b + v ELSE b
        BY <1>1, <1>2, <2>2, <2>4, <3>1, OrdersOnKept DEF MovedOn
      <3>4. /\ s \in Nat
            /\ nu[OrdersOn(i, "sell")'] = IF r[1] = i /\ r[2] = "sell" THEN s + v ELSE s
        BY <1>1, <1>2, <2>2, <2>4, <3>1, OrdersOnKept DEF MovedOn
      <3> QED
        BY <1>1, <1>3, <1>4, <1>5, <3>2, <3>3, <3>4
    <2> QED
      BY <1>2, <2>4, <2>5 DEF BookTrue
  <1> QED
    BY <1>6, <1>7, <1>8 DEF CountInv

\* A fill that is delivered is on its way no more.
LEMMA CountDeliver ==
    ASSUME Inv, CountInv, NEW r \in DOMAIN ord, DeliverFills(r)
    PROVE  CountInv'
  <1>1. /\ r[1] \in Instruments /\ r[2] \in {"buy", "sell"}
        /\ pos \in [Instruments -> Int]
        /\ ord[r].traded \in Nat /\ At(applied, r, 0) \in 0..ord[r].traded
    BY DEF Inv, TypeOK, BrokerTypeOK, OmsTypeOK, Refs, Sides, CountInv, FillsOrdered
  <1>2. UNCHANGED <<ord, hold, ydtrue, pc>> /\ pc # "down" /\ applied' = Put(applied, r, ord[r].traded)
    BY DEF DeliverFills, Up, thread, broker
  <1>3. At(applied', r, 0) = ord[r].traded /\ \A q : q # r => At(applied', q, 0) = At(applied, q, 0)
    BY <1>2 DEF At, Put
  <1>4. PICK u \in Nat : u = ord[r].traded - At(applied, r, 0) /\ u = Pending[r]
    BY <1>1 DEF Pending
  <1>5. /\ r[2] = "buy" => pos'[r[1]] = pos[r[1]] + u
        /\ r[2] = "sell" => pos'[r[1]] = Greatest(pos[r[1]] - u, 0)
        /\ \A i \in Instruments : i # r[1] => pos'[i] = pos[i]
    BY <1>1, <1>4 DEF DeliverFills
  <1>6. FillsOrdered' /\ Sellable'
    BY <1>1, <1>2, <1>3 DEF CountInv, FillsOrdered, Sellable
  <1>7. PICK mu : Sums(mu, DOMAIN ord, Pending) /\ BookTrue(mu)
    BY <1>2 DEF CountInv
  <1>8. Reweighed(DOMAIN ord, Pending, Pending', r, 0)
    BY <1>1, <1>2, <1>3, PendingTyped DEF Pending, CountInv, Reweighed
  <1>9. PICK nu : Sums(nu, DOMAIN ord, Pending') /\ MovedOn(mu, nu, r, u, 0)
    BY <1>4, <1>7, <1>8, MoveOn
  <1>10. ASSUME NEW i \in Instruments
         PROVE  /\ pos'[i] = hold'[i] - nu[OrdersOn(i, "buy")'] + nu[OrdersOn(i, "sell")']
                /\ pos'[i] - nu[OrdersOn(i, "sell")'] >= ydtrue'[i]
    <2>1. PICK b, s : b = mu[OrdersOn(i, "buy")] /\ s = mu[OrdersOn(i, "sell")]
      OBVIOUS
    <2>2. pos[i] = hold[i] - b + s /\ pos[i] - s >= ydtrue[i] /\ ydtrue[i] \in Nat /\ hold[i] \in Int
      BY <1>7, <2>1 DEF BookTrue, CountInv, Sellable, Inv, TypeOK, BrokerTypeOK
    <2>3. /\ b \in Nat
          /\ nu[OrdersOn(i, "buy")'] = IF r[1] = i /\ r[2] = "buy" THEN b - u ELSE b
      BY <1>1, <1>2, <1>4, <1>9, <2>1, OrdersOnKept DEF MovedOn
    <2>4. /\ s \in Nat /\ (r[1] = i /\ r[2] = "sell" => u <= s)
          /\ nu[OrdersOn(i, "sell")'] = IF r[1] = i /\ r[2] = "sell" THEN s - u ELSE s
      BY <1>1, <1>2, <1>4, <1>9, <2>1, OrdersOnKept DEF MovedOn
    <2>5. r[2] = "sell" /\ r[1] = i => pos'[i] = pos[i] - u
      BY <1>1, <1>4, <1>5, <2>2, <2>4 DEF Greatest
    <2> QED
      BY <1>1, <1>2, <1>5, <2>2, <2>3, <2>4, <2>5
  <1> QED
    BY <1>2, <1>6, <1>9, <1>10 DEF CountInv, BookTrue

\* Every step keeps the count, when no position is polled behind its back.
LEMMA CountStep ==
    ASSUME "poll" \notin Disturbances
    PROVE  Inv /\ CountInv /\ FirstStep => CountInv'
  <1> SUFFICES ASSUME Inv, CountInv, FirstStep PROVE CountInv'
    OBVIOUS
  <1>1. CASE Other
    BY <1>1, CountKept DEF Other
  <1>2. CASE RouteAck \/ \E c \in todo : RouteJournal(c)
    <2>1. UNCHANGED <<ord, applied, pos, hold, ydtrue>> /\ pc # "down"
      BY <1>2 DEF RouteAck, RouteJournal, oms, broker
    <2> QED
      BY <2>1, CountKept
  <1>3. ASSUME NEW r \in DOMAIN ord, DeliverOrder(r) PROVE CountInv'
    BY <1>3, CountKept DEF DeliverOrder, Up, broker
  <1>4. ASSUME NEW r \in DOMAIN ord, BrokerAccept(r) \/ BrokerClose(r) PROVE CountInv'
    <2>1. ord[r] \in Orders
      BY DEF Inv, TypeOK, BrokerTypeOK
    <2>2. PICK s : ord' = [ord EXCEPT ![r] = [ord[r] EXCEPT !.status = s]]
      BY <1>4 DEF BrokerAccept, BrokerClose, BrokerMove
    <2>3. DOMAIN ord' = DOMAIN ord /\ \A q \in DOMAIN ord : ord'[q].traded = ord[q].traded
      BY <2>1, <2>2 DEF Orders
    <2> QED
      BY <1>4, <2>3, CountKept DEF BrokerAccept, BrokerClose, BrokerMove, oms, thread
  <1>5. CASE Moves
    BY <1>4, <1>5, CountFill DEF Moves
  <1>6. ~PollPositions /\ ~Restart
    BY DEF PollPositions, FirstStep, Restart
  <1>7. TypeOK /\ [Next]_vars
    BY DEF Inv, FirstStep
  <1> QED
    BY <1>1, <1>2, <1>3, <1>5, <1>6, <1>7, Cases, CountSubmit, CountDeliver

\* With nothing on its way the book of the OMS is the true one.
LEMMA NothingPending ==
    ASSUME Inv, CountInv, pc # "down", \A r \in DOMAIN ord : At(applied, r, 0) = ord[r].traded
    PROVE  pos = hold
  <1>1. PICK mu : Sums(mu, DOMAIN ord, Pending) /\ BookTrue(mu)
    BY DEF CountInv
  <1>2. \A r \in DOMAIN ord : Pending[r] = 0
    BY DEF Pending, CountInv, FillsOrdered
  <1>3. ASSUME NEW i, NEW s PROVE mu[OrdersOn(i, s)] = 0
    <2>1. OrdersOn(i, s) \in SUBSET DOMAIN ord /\ \A r \in OrdersOn(i, s) : Pending[r] = 0
      BY <1>2 DEF OrdersOn
    <2> QED
      BY <1>1, <2>1 DEF Sums
  <1>4. pos \in [Instruments -> Int] /\ hold \in [Instruments -> Int]
    BY DEF Inv, TypeOK, OmsTypeOK, BrokerTypeOK
  <1>5. ASSUME NEW i \in Instruments PROVE pos[i] = hold[i]
    <2>1. pos[i] = hold[i] - mu[OrdersOn(i, "buy")] + mu[OrdersOn(i, "sell")]
      BY <1>1 DEF BookTrue
    <2>2. mu[OrdersOn(i, "buy")] = 0 /\ mu[OrdersOn(i, "sell")] = 0
      BY <1>3
    <2> QED
      BY <1>4, <2>1, <2>2
  <1> QED
    BY <1>4, <1>5

CountFirst == FirstUp /\ (crashes = 0 => CountInv)

\* The OMS of the process that began the plan counts every fill once: when no fill
\* is on its way its holdings are those of the account, whatever the order of the
\* reports (OMS.on_trade, PositionBook.update_trade), for a gateway that does not
\* poll.
THEOREM FillsCountOnce ==
    ASSUME "poll" \notin Disturbances
    PROVE  Spec => []CountedOnce
  <1>1. Inv /\ CountFirst => CountedOnce
    BY NothingPending DEF CountedOnce, CountFirst, FirstUp
  <1>2. Inv /\ CountFirst /\ [Next]_vars => CountFirst'
    BY CountStep, FirstStays DEF CountFirst, FirstStep
  <1>3. Init => CountFirst
    BY CountInit DEF CountFirst, FirstUp, Init
  <1> QED
    BY <1>1, <1>2, <1>3, InvInit, InvStep, PTL DEF Spec

(***************************************************************************)
(* Reports that follow their fills.  When the gateway applies a fill       *)
(* before the order report that counts it, a terminal report or row means  *)
(* more than a closed order: the report is the last one, its fills are in  *)
(* the book, and it is still in the OMS.                                   *)
(***************************************************************************)
SeenLast ==
    \A r \in DOMAIN seen :
        seen[r].status \in Terminal => seen[r] = ord[r] /\ At(applied, r, 0) = ord[r].traded

RowLast(r) ==
    /\ journal[r] = ord[r].status
    /\ At(applied, r, 0) = ord[r].traded
    /\ r \in DOMAIN seen /\ seen[r].status \in Terminal

RowsLast == \A r \in DOMAIN ord : journal[r] \in Terminal => RowLast(r)

RecordsApplied == DOMAIN captured \subseteq DOMAIN applied

LastInv == SeenLast /\ RowsLast /\ RecordsApplied

\* The invariant holds initially.
LEMMA LastInit == Init => LastInv
  BY EmptyDomain DEF Init, LastInv, SeenLast, RowsLast, RecordsApplied

\* A closed order does not move.
LEMMA ClosedStays ==
    ASSUME TypeOK, Moves
    PROVE  /\ UNCHANGED <<journal, captured, seen, applied, crashes, pc>>
           /\ DOMAIN ord' = DOMAIN ord
           /\ \A q \in DOMAIN ord : ord[q].status \in Terminal => ord'[q] = ord[q]
  <1>1. PICK r \in DOMAIN ord : ord[r].status \in Working /\ \E o : BrokerMove(r, o)
    BY DEF Moves, BrokerAccept, BrokerClose, BrokerFill, Working
  <1>2. ord[r].status \notin Terminal
    BY <1>1, OpenOrClosed
  <1> QED
    BY <1>1, <1>2 DEF BrokerMove, store, thread, oms, world

\* Every step keeps the invariant.
LEMMA LastStep ==
    ASSUME FillsFirst = TRUE
    PROVE  Inv /\ LastInv /\ FirstStep => LastInv'
  <1> SUFFICES ASSUME Inv, LastInv, FirstStep PROVE LastInv'
    OBVIOUS
  <1>0. /\ TypeOK /\ DOMAIN ord \subseteq DOMAIN journal /\ DOMAIN seen \subseteq DOMAIN ord
        /\ crashes = 0 /\ [Next]_vars
    BY DEF Inv, JournalInv, TypeOK, OmsTypeOK, FirstStep
  <1>1. CASE Other
    <2>1. UNCHANGED <<ord, seen, applied>>
      BY <1>1 DEF Other
    <2>2. SeenLast'
      BY <2>1 DEF LastInv, SeenLast
    <2>3. ASSUME NEW r \in DOMAIN ord, journal'[r] \in Terminal PROVE RowLast(r)'
      <3>1. CASE journal'[r] = journal[r]
        BY <2>1, <2>3, <3>1 DEF LastInv, RowsLast, RowLast
      <3>2. CASE journal'[r] # journal[r]
        <4>1. PICK refs : journal' = Reconciled(refs)
          BY <1>1, <3>2 DEF Other
        <4>2. r \in DOMAIN seen /\ journal'[r] = seen[r].status
          BY <1>0, <3>2, <4>1 DEF Reconciled
        <4>3. seen[r] = ord[r] /\ At(applied, r, 0) = ord[r].traded
          BY <2>3, <4>2 DEF LastInv, SeenLast
        <4> QED
          BY <2>1, <2>3, <4>2, <4>3 DEF RowLast
      <3> QED
        BY <3>1, <3>2
    <2>4. RowsLast'
      BY <2>1, <2>3 DEF RowsLast
    <2>5. RecordsApplied'
      <3>1. DOMAIN captured' \subseteq DOMAIN captured \cup DOMAIN applied
        BY <1>1 DEF Other, Captured, Fills
      <3> QED
        BY <2>1, <3>1 DEF LastInv, RecordsApplied
    <2> QED
      BY <2>2, <2>4, <2>5 DEF LastInv
  <1>2. ASSUME NEW c \in todo, RouteJournal(c) PROVE LastInv'
    <2>1. UNCHANGED <<ord, seen, applied, captured>>
      BY <1>2 DEF RouteJournal, oms, broker, world
    <2>2. \A r \in DOMAIN ord : journal'[r] = journal[r]
      BY <1>0, <1>2 DEF RouteJournal, Known, Put
    <2> QED
      BY <2>1, <2>2 DEF LastInv, SeenLast, RowsLast, RowLast, RecordsApplied
  <1>3. CASE RouteAck
    <2>1. UNCHANGED <<ord, seen, applied, captured>>
      BY <1>3 DEF RouteAck, oms, broker, world
    <2>2. \A r \in DOMAIN ord : journal'[r] = journal[r] \/ journal'[r] = "submitted"
      BY <1>0, <1>3 DEF RouteAck, Put, Inv, SideInv, ReportsLag
    <2>3. "submitted" \notin Terminal
      BY DEF Terminal, Failed
    <2> QED
      BY <2>1, <2>2, <2>3 DEF LastInv, SeenLast, RowsLast, RowLast, RecordsApplied
  <1>4. CASE SubmitAccepted
    <2>1. UNCHANGED <<journal, seen, applied, captured>>
      BY <1>4 DEF SubmitAccepted, store, oms, world
    <2>2. /\ DOMAIN ord' = DOMAIN ord \cup {Ref(cur)} /\ Ref(cur) \notin DOMAIN ord
          /\ \A r \in DOMAIN ord : ord'[r] = ord[r]
      BY <1>4 DEF SubmitAccepted, Put, Inv, JournalInv
    <2>3. journal[Ref(cur)] \notin Terminal
      BY <1>4 DEF SubmitAccepted, Inv, SideInv, ReportsLag, Terminal, Failed
    <2>4. SeenLast' /\ RecordsApplied'
      BY <1>0, <2>1, <2>2 DEF LastInv, SeenLast, RecordsApplied
    <2>5. RowsLast'
      BY <2>1, <2>2, <2>3 DEF LastInv, RowsLast, RowLast
    <2> QED
      BY <2>4, <2>5 DEF LastInv
  <1>5. CASE Moves
    <2>1. /\ UNCHANGED <<journal, captured, seen, applied>>
          /\ DOMAIN ord' = DOMAIN ord
          /\ \A q \in DOMAIN ord : ord[q].status \in Terminal => ord'[q] = ord[q]
      BY <1>0, <1>5, ClosedStays
    <2>2. SeenLast' /\ RecordsApplied'
      BY <1>0, <2>1 DEF LastInv, SeenLast, RecordsApplied
    <2>3. RowsLast'
      BY <1>0, <2>1 DEF LastInv, RowsLast, RowLast
    <2> QED
      BY <2>2, <2>3 DEF LastInv
  <1>6. ~Restart
    BY DEF Restart, FirstStep
  <1>7. ASSUME NEW r \in DOMAIN ord, DeliverOrder(r) PROVE LastInv'
    <2>1. /\ UNCHANGED <<ord, journal, captured, applied>>
          /\ At(applied, r, 0) = ord[r].traded
          /\ seen' = Put(seen, r, ord[r])
      BY <1>0, <1>7 DEF DeliverOrder, store, thread, broker, world
    <2>2. DOMAIN seen' = DOMAIN seen \cup {r} /\ seen'[r] = ord[r] /\ \A q \in DOMAIN seen : q # r => seen'[q] = seen[q]
      BY <2>1 DEF Put
    <2>3. SeenLast' /\ RecordsApplied'
      BY <2>1, <2>2 DEF LastInv, SeenLast, RecordsApplied
    <2>4. RowsLast'
      BY <2>1, <2>2 DEF LastInv, RowsLast, RowLast
    <2> QED
      BY <2>3, <2>4 DEF LastInv
  <1>8. ASSUME NEW r \in DOMAIN ord, DeliverFills(r) PROVE LastInv'
    <2>1. /\ UNCHANGED <<ord, journal, captured, seen>>
          /\ applied' = Put(applied, r, ord[r].traded)
      BY <1>8 DEF DeliverFills, store, thread, broker, world
    <2>2. /\ At(applied', r, 0) = ord[r].traded /\ DOMAIN applied \subseteq DOMAIN applied'
          /\ \A q : q # r => At(applied', q, 0) = At(applied, q, 0)
      BY <2>1 DEF Put, At
    <2>3. SeenLast' /\ RecordsApplied'
      BY <2>1, <2>2 DEF LastInv, SeenLast, RecordsApplied
    <2>4. RowsLast'
      BY <2>1, <2>2 DEF LastInv, RowsLast, RowLast
    <2> QED
      BY <2>3, <2>4 DEF LastInv
  <1>9. CASE PollPositions
    <2>1. UNCHANGED <<ord, journal, captured, seen, applied>>
      BY <1>9 DEF PollPositions, store, thread, broker, world
    <2> QED
      BY <2>1 DEF LastInv, SeenLast, RowsLast, RowLast, RecordsApplied
  <1> QED
    BY <1>0, <1>1, <1>2, <1>3, <1>4, <1>5, <1>6, <1>7, <1>8, <1>9, Cases

(***************************************************************************)
(* Orders that are done.  An order is done when it is filled, its fills    *)
(* are in the book and in the store.  A phase is left only when the orders *)
(* of its side are done; what is loose belongs to the present phase.       *)
(***************************************************************************)
Done(r) ==
    /\ ord[r].status = "alltraded"
    /\ At(applied, r, 0) = ord[r].traded
    /\ r \in DOMAIN seen => seen[r] = ord[r]
    /\ At(captured, r, 0) = ord[r].traded

Loose == { r \in DOMAIN ord : ~Done(r) }

LooseByPhase ==
    /\ phase \in {"refreshing_account", "final_reconcile", "completed"} => Loose = {}
    /\ phase \in {"selling", "waiting_sell_reports", "buying"} => Loose \subseteq RefsOn(PhaseSide)

\* What is done stays done.
LEMMA DoneKept ==
    ASSUME Inv, LastInv, FirstStep, NEW r \in DOMAIN ord, Done(r)
    PROVE  Done(r)'
  <1>0. /\ TypeOK /\ DOMAIN ord \subseteq DOMAIN journal /\ DOMAIN seen \subseteq DOMAIN ord
        /\ [Next]_vars /\ "alltraded" \in Terminal
    BY DEF Inv, JournalInv, TypeOK, OmsTypeOK, Terminal, FirstStep
  <1>1. CASE Other
    <2>1. UNCHANGED <<ord, seen, applied>>
      BY <1>1 DEF Other
    <2>2. At(captured', r, 0) = At(captured, r, 0) \/ At(captured', r, 0) = At(applied, r, 0)
      BY <1>1 DEF Other, Captured, Fills, At
    <2> QED
      BY <2>1, <2>2 DEF Done
  <1>2. CASE RouteAck \/ PollPositions \/ \E c \in todo : RouteJournal(c)
    <2>1. UNCHANGED <<ord, seen, applied, captured>>
      BY <1>2 DEF RouteAck, PollPositions, RouteJournal, store, oms, broker, world
    <2> QED
      BY <2>1 DEF Done
  <1>3. CASE SubmitAccepted
    <2>1. UNCHANGED <<seen, applied, captured>> /\ ord'[r] = ord[r]
      BY <1>3 DEF SubmitAccepted, Put, store, oms, world, Inv, JournalInv
    <2> QED
      BY <2>1 DEF Done
  <1>4. CASE Moves
    <2>1. UNCHANGED <<seen, applied, captured>> /\ ord'[r] = ord[r]
      BY <1>0, <1>4, ClosedStays DEF Done
    <2> QED
      BY <2>1 DEF Done
  <1>5. ~Restart
    BY DEF Restart, FirstStep
  <1>6. ASSUME NEW q \in DOMAIN ord, DeliverOrder(q) \/ DeliverFills(q) PROVE Done(r)'
    <2>1. UNCHANGED <<ord, captured>>
      BY <1>6 DEF DeliverOrder, DeliverFills, store, broker, world
    <2>2. seen'[r] = ord[r] \/ (r \notin DOMAIN seen' /\ r \notin DOMAIN seen) \/ (seen'[r] = seen[r] /\ r \in DOMAIN seen)
      BY <1>6 DEF DeliverOrder, DeliverFills, Put
    <2>3. At(applied', r, 0) = ord[r].traded \/ At(applied', r, 0) = At(applied, r, 0)
      BY <1>6 DEF DeliverOrder, DeliverFills, Put, At
    <2> QED
      BY <2>1, <2>2, <2>3 DEF Done
  <1> QED
    BY <1>0, <1>1, <1>2, <1>3, <1>4, <1>5, <1>6, Cases

\* Only a submission adds to what is loose.
LEMMA LooseKept ==
    ASSUME Inv, LastInv, FirstStep, DOMAIN ord' = DOMAIN ord
    PROVE  Loose' \subseteq Loose
  BY DoneKept DEF Loose

\* With nothing loose any phase will do.
LEMMA NoneLoose ==
    ASSUME Inv, LastInv, FirstStep, DOMAIN ord' = DOMAIN ord, Loose = {}
    PROVE  LooseByPhase'
  BY LooseKept DEF LooseByPhase

\* A phase that goes on with its plan.
LEMMA LooseStays ==
    ASSUME Inv, LastInv, LooseByPhase, FirstStep, DOMAIN ord' = DOMAIN ord,
           plan' = plan, phase' = phase \/ phase' = "paused"
    PROVE  LooseByPhase'
  BY LooseKept DEF LooseByPhase, PhaseSide, RefsOn, ChildrenOn

\* _wait_phase lets a side go: its orders are done, their fills recorded.
LEMMA SideDone ==
    ASSUME Inv, LastInv, NEW side, NEW refs, refs = RefsOn(side),
           Unknown(side) = {}, NotFilled(side) = {}, StillActive(side) = {},
           captured' = Captured(refs), UNCHANGED <<ord, seen, applied>>,
           NEW r \in DOMAIN ord, r \in refs
    PROVE  Done(r)'
  <1>1. CASE r \in DOMAIN seen
    <2>1. seen[r].status \in OrderStates \ (Failed \cup Working)
      BY <1>1 DEF NotFilled, StillActive, Inv, TypeOK, OmsTypeOK, Orders
    <2>2. seen[r].status = "alltraded"
      BY <2>1 DEF OrderStates, Terminal
    <2>3. seen[r] = ord[r] /\ At(applied, r, 0) = ord[r].traded
      BY <1>1, <2>2 DEF LastInv, SeenLast, Terminal
    <2>4. At(captured', r, 0) = ord[r].traded
      <3>1. CASE r \in DOMAIN applied
        BY <1>1, <2>3, <3>1 DEF Captured, Fills, At
      <3>2. CASE r \notin DOMAIN applied
        <4>1. r \notin DOMAIN captured'
          BY <3>2 DEF Captured, Fills, LastInv, RecordsApplied
        <4> QED
          BY <2>3, <3>2, <4>1 DEF At
      <3> QED
        BY <3>1, <3>2
    <2> QED
      BY <2>2, <2>3, <2>4 DEF Done
  <1>2. CASE r \notin DOMAIN seen
    <2>1. At(journal, r, "") \in Terminal /\ At(journal, r, "") \notin Failed
      BY <1>2 DEF Unknown, NotFilled
    <2>2. journal[r] = "alltraded"
      BY <2>1 DEF At, Terminal, Inv, JournalInv
    <2>3. RowLast(r)
      BY <2>2 DEF LastInv, RowsLast, Terminal
    <2> QED
      BY <1>2, <2>3 DEF RowLast
  <1> QED
    BY <1>1, <1>2

\* _wait_phase: the side is let go, or the phase stays or pauses.
LEMMA LooseWait ==
    ASSUME Inv, LastInv, LooseByPhase, FirstStep, UNCHANGED <<ord, seen, applied>>,
           NEW side, NEW done, Wait(side, done),
           \/ phase = "waiting_sell_reports" /\ side = "sell"
           \/ phase = "buying" /\ side = "buy"
    PROVE  LooseByPhase'
  <1>1. PICK malformed \in BOOLEAN :
          /\ captured' = IF malformed THEN captured ELSE Captured(RefsOn(side))
          /\ phase' = WaitVerdict(side, done, malformed) /\ plan' = plan
    BY DEF Wait, Save
  <1>2. CASE malformed \/ Unknown(side) # {} \/ NotFilled(side) # {} \/ StillActive(side) # {}
    BY <1>1, <1>2, LooseStays DEF WaitVerdict
  <1>3. CASE ~malformed /\ Unknown(side) = {} /\ NotFilled(side) = {} /\ StillActive(side) = {}
    <2>1. Loose' \subseteq RefsOn(side)
      BY LooseKept DEF LooseByPhase, PhaseSide
    <2>2. ASSUME NEW r \in DOMAIN ord, r \in RefsOn(side) PROVE Done(r)'
      BY <1>1, <1>3, <2>2, SideDone
    <2>3. Loose' = {}
      BY <2>1, <2>2 DEF Loose
    <2> QED
      BY <2>3 DEF LooseByPhase
  <1> QED
    BY <1>2, <1>3

\* Every step keeps LooseByPhase.
LEMMA LooseStep == Inv /\ LastInv /\ LooseByPhase /\ FirstStep => LooseByPhase'
  <1> SUFFICES ASSUME Inv, LastInv, LooseByPhase, FirstStep PROVE LooseByPhase'
    OBVIOUS
  <1>1. CASE Begin \/ AdvanceShadow \/ AdvancePlanned
    <2>1. DOMAIN ord = {} /\ ord' = ord
      BY <1>1 DEF Begin, AdvanceShadow, AdvancePlanned, Routing, Inv, SideInv, OpenByPhase, broker
    <2> QED
      BY <2>1, NoneLoose DEF Loose
  <1>2. CASE AdvanceExpired \/ AdvanceBoundary \/ AdvanceDisabled \/ OperatorPause
    BY <1>2, LooseStays DEF AdvanceExpired, AdvanceBoundary, AdvanceDisabled, OperatorPause,
       PausePlan, Save, broker
  <1>3. ASSUME NEW p, NEW side, NEW done, RouteStart(p, side, done),
               \/ p = "selling" /\ side = "sell"
               \/ p = "buying" /\ side = "buy"
        PROVE  LooseByPhase'
    <2>1. phase = p /\ PhaseSide = side /\ ord' = ord
      BY <1>3 DEF RouteStart, Routing, PhaseSide, broker
    <2>2. CASE ChildrenOn(side) = {}
      <3>1. Loose = {}
        BY <1>3, <2>1, <2>2 DEF LooseByPhase, RefsOn
      <3> QED
        BY <2>1, <3>1, NoneLoose
    <2>3. CASE ChildrenOn(side) # {}
      BY <1>3, <2>1, <2>3, LooseStays DEF RouteStart, Save
    <2> QED
      BY <2>2, <2>3
  <1>4. CASE SubmitAccepted
    <2>1. /\ cur \in ChildrenOn(PhaseSide) /\ phase' = phase /\ plan' = plan
          /\ phase \in {"selling", "buying"}
          /\ DOMAIN ord' = DOMAIN ord \cup {Ref(cur)}
      BY <1>4 DEF SubmitAccepted, Put, store, Inv, TypeOK, ThreadTypeOK, SideInv, LoopOnSide
    <2>2. Loose' \subseteq Loose \cup {Ref(cur)}
      BY <2>1, DoneKept DEF Loose
    <2>3. RefsOn(PhaseSide)' = RefsOn(PhaseSide) /\ Ref(cur) \in RefsOn(PhaseSide)
      BY <2>1 DEF RefsOn, PhaseSide, ChildrenOn
    <2> QED
      BY <2>1, <2>2, <2>3 DEF LooseByPhase
  <1>5. CASE RouteWait("selling", "sell", "waiting_sell_reports")
    <2>1. phase = "selling" /\ phase' = "waiting_sell_reports" /\ plan' = plan /\ ord' = ord
      BY <1>5 DEF RouteWait, Save, broker
    <2>2. RefsOn(PhaseSide)' = RefsOn(PhaseSide)
      BY <2>1 DEF RefsOn, PhaseSide, ChildrenOn
    <2> QED
      BY <2>1, <2>2, LooseKept DEF LooseByPhase
  <1>6. CASE RouteWait("buying", "buy", "buying")
    BY <1>6, LooseStays DEF RouteWait, Save, broker
  <1>7. CASE BuyWait \/ SellWait
    BY <1>7, LooseWait DEF BuyWait, SellWait, Routing, oms, broker, world
  <1>8. CASE AdvanceRefresh \/ FinalReconcile
    <2>1. Loose = {} /\ ord' = ord
      BY <1>8 DEF AdvanceRefresh, FinalReconcile, Routing, LooseByPhase, broker
    <2> QED
      BY <2>1, NoneLoose
  <1>9. CASE Recover
    BY <1>9, LooseStays DEF Recover, PausePlan, Save, broker
  <1>10. CASE SubmitDenied \/ RouteAck \/ \E c \in todo : RouteSkip(c) \/ RouteJournal(c)
    BY <1>10, LooseStays DEF SubmitDenied, RouteAck, RouteSkip, RouteJournal, store, broker
  <1>11. CASE Crash \/ CrashReporting \/ Restart \/ PollPositions \/ Expire \/ External \/ UNCHANGED vars
    BY <1>11, LooseStays DEF Crash, CrashReporting, Die, Restart, PollPositions, Expire, External,
       vars, store, broker
  <1>12. CASE Deliver
    BY <1>12, LooseStays DEF Deliver, DeliverOrder, DeliverFills, store, broker
  <1>13. CASE Broker
    <2>1. DOMAIN ord' = DOMAIN ord
      BY <1>13, ClosedStays DEF Broker, Moves, Inv
    <2>2. plan' = plan /\ phase' = phase
      BY <1>13 DEF Broker, BrokerAccept, BrokerFill, BrokerClose, BrokerMove, store
    <2> QED
      BY <2>1, <2>2, LooseStays
  <1> QED
    BY <1>1, <1>2, <1>3, <1>4, <1>5, <1>6, <1>7, <1>8, <1>9, <1>10, <1>11, <1>12, <1>13
       DEF FirstStep, Next, Advance

DurableFirst == FirstUp /\ (crashes = 0 => LastInv /\ LooseByPhase)

\* Fills are durable before the plan goes on: those of the sells before the
\* buys and all of them at the end, as the comment in _wait_phase demands, until
\* the first crash, which may fall between a status row and the fill rows; for a
\* gateway that applies a fill before the order report that counts it.
THEOREM FillsAreDurable ==
    ASSUME FillsFirst = TRUE
    PROVE  Spec => []FillsDurable
  <1>1. Init => DurableFirst
    BY LastInit DEF Init, DurableFirst, FirstUp, LooseByPhase
  <1>2. Inv /\ DurableFirst => FillsDurable
    <2> SUFFICES ASSUME Inv, DurableFirst, crashes = 0, NEW r \in DOMAIN ord, mode = "routed",
                        \/ phase \in {"refreshing_account", "buying", "final_reconcile"} /\ r[2] = "sell"
                        \/ phase = "completed"
                 PROVE  At(captured, r, 0) = ord[r].traded
      BY DEF FillsDurable
    <2>1. Loose \subseteq RefsOn("buy")
      BY DEF DurableFirst, LooseByPhase, PhaseSide
    <2>2. \A q \in RefsOn("buy") : q[2] = "buy"
      BY DEF RefsOn, ChildrenOn, Ref
    <2>3. r \notin Loose
      BY <2>1, <2>2 DEF DurableFirst, LooseByPhase
    <2> QED
      BY <2>3 DEF Loose, Done
  <1>3. Inv /\ DurableFirst /\ [Next]_vars => DurableFirst'
    BY FirstStays, LastStep, LooseStep DEF DurableFirst, FirstStep
  <1> QED
    BY <1>1, <1>2, <1>3, InvInit, InvStep, PTL DEF Spec

(***************************************************************************)
(* A completed plan has reached its target.  _final_reconcile compares the *)
(* target with the book of the OMS; by then nothing is loose, so that the  *)
(* book is the true one, and afterwards nothing is open that could trade.  *)
(***************************************************************************)
OnTargetInv == phase = "completed" /\ mode = "routed" => hold = target

\* The final comparison is made with the true book.
LEMMA FinalIsTrue ==
    ASSUME Inv, CountInv, LooseByPhase, phase = "final_reconcile", pc = "idle"
    PROVE  pos = hold
  <1>1. \A r \in DOMAIN ord : At(applied, r, 0) = ord[r].traded
    BY DEF LooseByPhase, Loose, Done
  <1> QED
    BY <1>1, NothingPending

\* Every step keeps OnTargetInv.
LEMMA OnTargetStep ==
    Inv /\ CountInv /\ LooseByPhase /\ OnTargetInv /\ FirstStep => OnTargetInv'
  <1> SUFFICES ASSUME Inv, CountInv, LooseByPhase, OnTargetInv, FirstStep,
                      phase' = "completed", mode' = "routed"
               PROVE  hold' = target'
    BY DEF OnTargetInv
  <1>1. CASE FinalReconcile
    <2>1. /\ UNCHANGED <<hold, target>> /\ phase = "final_reconcile" /\ pc = "idle"
          /\ OnTarget
      BY <1>1 DEF FinalReconcile, Routing, Ready, PausePlan, Refresh, RefreshPhase, Save, broker
    <2> QED
      BY <2>1, FinalIsTrue DEF OnTarget
  <1>2. CASE Broker
    <2>1. PICK r \in DOMAIN ord : ord[r].status \in Working /\ \E o : BrokerMove(r, o)
      BY <1>2 DEF Broker, BrokerAccept, BrokerClose, BrokerFill, Working
    <2>2. phase = "completed" /\ r \in OpenAtBroker
      BY <2>1 DEF BrokerMove, store, OpenAtBroker
    <2> QED
      BY <2>2 DEF Inv, SideInv, OpenByPhase
  <1>3. CASE ~FinalReconcile /\ ~Broker
    <2>1. UNCHANGED <<hold, mode, target>> /\ phase = "completed"
      <3>1. CASE Begin \/ AdvanceExpired \/ AdvanceBoundary \/ AdvanceShadow \/ AdvanceDisabled
                 \/ AdvancePlanned \/ OperatorPause
        BY <3>1 DEF Begin, AdvanceExpired, AdvanceBoundary, AdvanceShadow, AdvanceDisabled,
           AdvancePlanned, OperatorPause, PausePlan, Save
      <3>2. CASE AdvanceRefresh
        BY <3>2 DEF AdvanceRefresh, Refresh, RefreshPhase, PausePlan, Save
      <3>3. CASE BuyWait \/ SellWait
        BY <3>3 DEF BuyWait, SellWait, Routing, Wait, WaitVerdict, Save
      <3>4. CASE \/ RouteStart("selling", "sell", "refreshing_account")
                 \/ RouteStart("buying", "buy", "final_reconcile")
                 \/ RouteWait("selling", "sell", "waiting_sell_reports")
                 \/ RouteWait("buying", "buy", "buying")
        BY <3>4 DEF RouteStart, RouteWait, Save
      <3>5. CASE \/ SubmitDenied \/ SubmitAccepted \/ RouteAck
                 \/ \E c \in todo : RouteSkip(c) \/ RouteJournal(c)
        BY <3>5 DEF SubmitDenied, SubmitAccepted, RouteAck, RouteSkip, RouteJournal, store, broker
      <3>6. CASE Recover \/ Crash \/ CrashReporting \/ Restart
        BY <3>6 DEF Recover, Crash, CrashReporting, Die, Restart, PausePlan, Save, store, broker
      <3>7. CASE Deliver \/ PollPositions \/ Expire \/ External \/ UNCHANGED vars
        BY <3>7 DEF Deliver, DeliverOrder, DeliverFills, PollPositions, Expire, External, vars,
           store, broker
      <3> QED
        BY <1>3, <3>1, <3>2, <3>3, <3>4, <3>5, <3>6, <3>7 DEF FirstStep, Next, Advance
    <2> QED
      BY <2>1 DEF OnTargetInv
  <1> QED
    BY <1>1, <1>2, <1>3

TargetFirst == FirstUp /\ (crashes = 0 => LastInv /\ LooseByPhase /\ CountInv /\ OnTargetInv)

\* A routed plan that is COMPLETED in the process that began it has the target
\* book at the broker and no order left open (_final_reconcile), over all replans,
\* for a gateway that applies fills before order reports and does not poll.
THEOREM CompletedReached ==
    ASSUME FillsFirst = TRUE, "poll" \notin Disturbances
    PROVE  Spec => []CompletedIsTrue
  <1>1. Init => TargetFirst
    BY LastInit, CountInit DEF Init, TargetFirst, FirstUp, LooseByPhase, OnTargetInv
  <1>2. Inv /\ TargetFirst => CompletedIsTrue
    BY DEF TargetFirst, OnTargetInv, CompletedIsTrue, Inv, SideInv, OpenByPhase
  <1>3. Inv /\ TargetFirst /\ [Next]_vars => TargetFirst'
    BY FirstStays, LastStep, LooseStep, CountStep, OnTargetStep DEF TargetFirst, FirstStep
  <1> QED
    BY <1>1, <1>2, <1>3, InvInit, InvStep, PTL DEF Spec

(***************************************************************************)
(* No order is sent twice.  The volume of an order is traded or still a    *)
(* gap; the working volume of the OMS is what its reports leave to trade;  *)
(* and what was sent and what the plan has not sent yet stay together      *)
(* within the distance from the opening book to the target.  A replan      *)
(* finds nothing loose, hence no gap, nothing working and the true book,   *)
(* and cuts what is left of the distance into chunks.                      *)
(***************************************************************************)
PlanOn(P, i, s) == { c \in P : c.inst = i /\ c.side = s }

Volumes(D) == [c \in D |-> c.vol]

\* Only the weights on D matter.
LEMMA SumsSame ==
    ASSUME NEW D, NEW w, NEW z, NEW mu, Sums(mu, D, w), \A r \in D : z[r] = w[r]
    PROVE  Sums(mu, D, z)
  BY DEF Sums

\* The volumes of the children of _chunks add up to the volume at most.
LEMMA ChunkSums ==
    ASSUME NEW i \in Instruments, NEW s \in Sides, NEW v \in Int, v > 0, NEW first \in Nat,
           FloorLot(MaxChunk) # 0, NEW K, K = Chunks(i, s, v, first)
    PROVE  \E m : Sums(m, K, Volumes(K)) /\ m[K] <= v
  <1> DEFINE cap == FloorLot(MaxChunk)
             n == (v + cap - 1) \div cap
             C(j) == [inst |-> i, side |-> s, idx |-> first + j, vol |-> Least(cap, v - j * cap)]
             last == C(n - 1)
             rest == v - (cap * n - cap)
  <1>1. cap \in Int /\ cap > 0
    BY PlannerAssumption DEF FloorLot
  <1>2. n \in Int /\ cap * n <= v + cap - 1 /\ v + cap - 1 < cap * n + cap
    BY <1>1
  <1>3. K = { C(j) : j \in 0..(n - 1) }
    BY DEF Chunks
  <1>4. \A j : C(j).vol = Least(cap, v - j * cap)
    OBVIOUS
  <1> HIDE DEF n, cap, C
  <1>5. n >= 1 /\ cap * n \in Int
    <2>1. cap * n \in Int /\ cap * n > 0
      BY <1>1, <1>2
    <2>2. n <= 0 => cap * n <= 0
      BY <1>1, <1>2
    <2> QED
      BY <1>2, <2>1, <2>2
  <1>6. rest \in Nat /\ rest >= 1 /\ rest <= cap
    BY <1>1, <1>2, <1>5
  <1>7. ASSUME NEW j \in 0..(n - 1) PROVE C(j).vol = IF j = n - 1 THEN rest ELSE cap
    <2>1. j * cap = cap * j /\ cap * j \in Int /\ cap * (n - 1) = cap * n - cap
      BY <1>1, <1>2, <1>7
    <2>2. CASE j = n - 1
      BY <1>1, <1>2, <1>4, <1>6, <2>1, <2>2 DEF Least
    <2>3. CASE j # n - 1
      <3>1. cap * j <= cap * n - cap - cap
        <4>1. j <= n - 2 /\ cap * (n - 2) = cap * n - cap - cap
          BY <1>1, <1>2, <1>7, <2>3
        <4>2. cap * j <= cap * (n - 2)
          BY <1>1, <1>2, <1>7, <4>1
        <4> QED
          BY <4>1, <4>2
      <3>2. v - j * cap >= cap
        BY <1>1, <1>2, <1>5, <2>1, <3>1
      <3> QED
        BY <1>1, <1>4, <2>1, <2>3, <3>2 DEF Least
    <2> QED
      BY <2>2, <2>3
  <1>8. last \in K /\ \A c \in K : c.vol = IF c = last THEN rest ELSE cap
    <2>1. n - 1 \in 0..(n - 1)
      BY <1>2, <1>5
    <2>2. last \in K /\ last.vol = rest
      BY <1>3, <1>7, <2>1
    <2>3. ASSUME NEW c \in K, c # last PROVE c.vol = cap
      <3>1. PICK j \in 0..(n - 1) : c = C(j)
        BY <1>3
      <3> QED
        BY <1>7, <2>3, <3>1
    <2> QED
      BY <2>2, <2>3
  <1>9. IsFiniteSet(K) /\ Cardinality(K) <= n
    <2> DEFINE f == [j \in 0..(n - 1) |-> C(j)]
    <2>1. f \in Surjection(0..(n - 1), K)
      BY <1>3 DEF Surjection
    <2>2. IsFiniteSet(0..(n - 1)) /\ Cardinality(0..(n - 1)) = n
      <3>1. PICK b \in Nat : b = n - 1
        BY <1>2, <1>5
      <3>2. 0 \in Int /\ b \in Int
        OBVIOUS
      <3>3. IsFiniteSet(0..b) /\ Cardinality(0..b) = IF 0 > b THEN 0 ELSE b - 0 + 1
        BY <3>2, FS_Interval, Zenon
      <3> QED
        BY <1>2, <3>1, <3>3
    <2> QED
      BY <2>1, <2>2, FS_Surjection
  <1> HIDE DEF last, rest
  <1> DEFINE N(S) == Cardinality(S \ {last})
             Q(S) == cap * N(S)
             R(S) == IF last \in S THEN rest ELSE 0
             m == [S \in SUBSET K |-> Q(S) + R(S)]
  <1>10. ASSUME NEW S \in SUBSET K
         PROVE  IsFiniteSet(S \ {last}) /\ N(S) \in Nat /\ Q(S) \in Nat /\ R(S) \in Nat
    <2>1. S \ {last} \in SUBSET K
      OBVIOUS
    <2>2. IsFiniteSet(S \ {last})
      BY <1>9, <2>1, FS_Subset
    <2>3. N(S) \in Nat
      BY <2>2, FS_CardinalityType
    <2> HIDE DEF N
    <2> QED
      BY <1>1, <1>6, <2>2, <2>3
  <1>11. ASSUME NEW S \in SUBSET K, NEW r \in S
         PROVE  Q(S) + R(S) = (Q(S \ {r}) + R(S \ {r})) + Volumes(K)[r]
    <2>0. S \ {r} \in SUBSET K /\ r \in K /\ Volumes(K)[r] = IF r = last THEN rest ELSE cap
      BY <1>8 DEF Volumes
    <2>1. CASE r = last
      <3>1. N(S \ {r}) = N(S)
        BY <2>1
      <3>2. R(S \ {r}) = 0 /\ R(S) = rest
        BY <2>1
      <3>3. Q(S \ {r}) = Q(S)
        BY <3>1
      <3> HIDE DEF N, Q, R
      <3> QED
        BY <1>6, <1>10, <2>0, <2>1, <3>2, <3>3
    <2>2. CASE r # last
      <3>1. (S \ {r}) \ {last} = (S \ {last}) \ {r} /\ r \in S \ {last}
        BY <2>2
      <3>2. PICK T : T = S \ {last} /\ IsFiniteSet(T) /\ r \in T
        BY <1>10, <3>1
      <3>3. Cardinality(T \ {r}) = Cardinality(T) - 1
        BY <3>2, FS_RemoveElement
      <3>4. N(S \ {r}) = N(S) - 1
        BY <3>1, <3>2, <3>3
      <3>5. PICK k \in Nat : k = N(S)
        BY <1>10
      <3>6. cap * (k - 1) = cap * k - cap /\ cap * k \in Int
        BY <1>1
      <3>7. R(S \ {r}) = R(S)
        BY <2>2
      <3>8. Q(S \ {r}) = Q(S) - cap
        BY <3>4, <3>5, <3>6
      <3>9. Q(S) \in Nat /\ R(S) \in Nat /\ Volumes(K)[r] = cap
        BY <1>10, <2>0, <2>2
      <3> HIDE DEF N, Q, R
      <3>10. PICK x, y : x = Q(S) /\ y = R(S) /\ x \in Nat /\ y \in Nat
        BY <3>9
      <3>11. x + y = ((x - cap) + y) + cap
        BY <1>1, <3>10
      <3> QED
        BY <3>7, <3>8, <3>9, <3>10, <3>11
    <2> QED
      BY <2>1, <2>2
  <1>12. Q({}) + R({}) = 0
    <2>1. {} \ {last} = {}
      OBVIOUS
    <2>2. N({}) = 0 /\ R({}) = 0
      BY <2>1, FS_EmptySet
    <2> QED
      BY <1>1, <2>2
  <1>13. Q(K) + R(K) <= v
    <2>1. N(K) = Cardinality(K) - 1 /\ Cardinality(K) \in Nat
      BY <1>8, <1>9, FS_RemoveElement, FS_CardinalityType
    <2>2. PICK k \in Nat : k = N(K)
      BY <1>10
    <2>3. k <= n - 1
      BY <1>2, <1>9, <2>1, <2>2
    <2>4. cap * k <= cap * (n - 1) /\ cap * (n - 1) = cap * n - cap /\ cap * k \in Int
      BY <1>1, <1>2, <2>3
    <2>5. Q(K) = cap * k /\ R(K) = rest
      BY <1>8, <2>2
    <2>6. v = (cap * n - cap) + rest
      BY <1>1, <1>2, <1>5 DEF rest
    <2> HIDE DEF Q, R
    <2>7. PICK x, y : x = cap * k /\ y = cap * n /\ x \in Int /\ y \in Int
      BY <1>5, <2>4
    <2>8. x <= y - cap /\ v = (y - cap) + rest
      BY <2>4, <2>6, <2>7
    <2>9. x + rest <= v
      BY <1>1, <1>6, <2>7, <2>8
    <2> QED
      BY <2>5, <2>7, <2>9
  <1> HIDE DEF N, Q, R
  <1>14. m \in [SUBSET K -> Nat]
    <2>1. ASSUME NEW S \in SUBSET K PROVE Q(S) + R(S) \in Nat
      <3>1. Q(S) \in Nat /\ R(S) \in Nat
        BY <1>10
      <3> QED
        BY <3>1
    <2> QED
      BY <2>1
  <1>15. \A S \in SUBSET K : \A r \in S : m[S] = m[S \ {r}] + Volumes(K)[r]
    BY <1>11
  <1>16. ASSUME NEW S \in SUBSET K, \A r \in S : Volumes(K)[r] = 0
         PROVE  m[S] = 0
    <2>1. \A r \in K : Volumes(K)[r] # 0
      <3>1. \A r \in K : r.vol = rest \/ r.vol = cap
        BY <1>8
      <3> QED
        BY <1>1, <1>6, <3>1 DEF Volumes
    <2>2. S = {}
      BY <1>16, <2>1
    <2> QED
      BY <1>12, <2>2
  <1>17. Sums(m, K, Volumes(K))
    BY <1>14, <1>15, <1>16 DEF Sums
  <1>18. m[K] <= v
    BY <1>13
  <1> QED
    BY <1>17, <1>18

\* The volume that is cut into chunks is within the delta.
LEMMA VolumeBound ==
    ASSUME NEW t \in [Instruments -> Int], NEW acct \in Accounts, NEW i \in Instruments,
           NEW d, d = Delta(t, acct, i)
    PROVE  /\ SideOf(t, acct, i) = "buy" => Volume(t, acct, i) <= Greatest(d, 0)
           /\ SideOf(t, acct, i) = "sell" => Volume(t, acct, i) <= Greatest(-d, 0)
  <1>1. d \in Int
    BY VolumeInt
  <1>2. PICK y \in Int : y = Greatest(acct.yd[i] - acct.work[<<i, "sell">>], 0)
    BY DEF Greatest, Accounts, Sides
  <1>3. CASE d < 0
    <2>1. Least(Abs(d), y) \in Int /\ Least(Abs(d), y) <= -d
      BY <1>1, <1>2, <1>3 DEF Least, Abs
    <2>2. Volume(t, acct, i) = FloorLot(Least(Abs(d), y)) /\ SideOf(t, acct, i) = "sell"
      BY <1>2, <1>3 DEF Volume, SideOf
    <2>3. FloorLot(Least(Abs(d), y)) \in Int /\ FloorLot(Least(Abs(d), y)) <= Least(Abs(d), y)
      BY <2>1, FloorLotBound
    <2>4. Greatest(-d, 0) = -d
      BY <1>1, <1>3 DEF Greatest
    <2> QED
      BY <1>1, <2>1, <2>2, <2>3, <2>4
  <1>4. CASE ~(d < 0)
    <2>1. Volume(t, acct, i) = FloorLot(d) /\ SideOf(t, acct, i) = "buy"
      BY <1>4 DEF Volume, SideOf
    <2>2. FloorLot(d) <= d /\ Greatest(d, 0) = d
      BY <1>1, <1>4, FloorLotBound DEF Greatest
    <2> QED
      BY <2>1, <2>2
  <1> QED
    BY <1>3, <1>4

\* P is the plan of the target t for the account acct.
IsPlan(P, t, acct, l, nx) ==
    /\ t \in [Instruments -> Int] /\ acct \in Accounts
    /\ nx \in [Instruments \X Sides -> Nat]
    /\ P = Plan(t, acct, l, nx)

\* The chunks of an instrument are the children of the plan for it.
LEMMA PlanIsChunks ==
    ASSUME NEW t, NEW acct, NEW l, NEW nx, NEW P, IsPlan(P, t, acct, l, nx), NEW c \in P
    PROVE  /\ c.inst \in Instruments /\ c.side = SideOf(t, acct, c.inst)
           /\ FloorLot(MaxChunk) # 0 /\ Volume(t, acct, c.inst) > 0
           /\ PlanOn(P, c.inst, c.side) =
                Chunks(c.inst, c.side, Volume(t, acct, c.inst), nx[<<c.inst, c.side>>])
  <1>0. /\ t \in [Instruments -> Int] /\ acct \in Accounts
        /\ nx \in [Instruments \X Sides -> Nat] /\ P = Plan(t, acct, l, nx)
    BY DEF IsPlan
  <1> DEFINE Side(i) == SideOf(t, acct, i)
             K(i) == Chunks(i, Side(i), Volume(t, acct, i), nx[<<i, Side(i)>>])
  <1> HIDE DEF K, Side
  <1>1. \A d \in P : \E i \in Instruments : /\ d \in K(i) /\ K(i) \subseteq P /\ FloorLot(MaxChunk) # 0
                                            /\ Volume(t, acct, i) > 0
    BY <1>0, PlanChild DEF Issues, K, Side
  <1>2. ASSUME NEW i \in Instruments, FloorLot(MaxChunk) # 0
        PROVE  \A d \in K(i) : d.inst = i /\ d.side = Side(i)
    <2>1. Volume(t, acct, i) \in Int /\ Side(i) \in Sides
      BY <1>0, VolumeInt DEF Side
    <2>2. nx[<<i, Side(i)>>] \in Nat
      BY <1>0, <2>1
    <2> QED
      BY <1>2, <2>1, <2>2, ChunksNumbered DEF K
  <1>3. PICK i \in Instruments : c \in K(i) /\ K(i) \subseteq P /\ FloorLot(MaxChunk) # 0 /\ Volume(t, acct, i) > 0
    BY <1>1
  <1>4. c.inst = i /\ c.side = Side(i)
    BY <1>2, <1>3
  <1>5. PlanOn(P, i, Side(i)) = K(i)
    BY <1>1, <1>2, <1>3 DEF PlanOn
  <1> QED
    BY <1>3, <1>4, <1>5 DEF K, Side

\* A plan has each reference once, and volumes are numbers.
LEMMA PlanDistinct ==
    ASSUME NEW t, NEW acct, NEW l, NEW nx, NEW P, IsPlan(P, t, acct, l, nx), NEW c \in P
    PROVE  c.vol \in Nat /\ \A d \in P : Ref(c) = Ref(d) => c = d
  <1>0. /\ t \in [Instruments -> Int] /\ acct \in Accounts
        /\ nx \in [Instruments \X Sides -> Nat] /\ P = Plan(t, acct, l, nx)
    BY DEF IsPlan
  <1> DEFINE v == Volume(t, acct, c.inst)
             first == nx[<<c.inst, c.side>>]
             K == Chunks(c.inst, c.side, v, first)
  <1>1. /\ c.inst \in Instruments /\ c.side \in Sides /\ FloorLot(MaxChunk) # 0 /\ v > 0
        /\ PlanOn(P, c.inst, c.side) = K /\ v \in Int
    <2>1. /\ c.inst \in Instruments /\ c.side = SideOf(t, acct, c.inst)
          /\ FloorLot(MaxChunk) # 0 /\ v > 0 /\ PlanOn(P, c.inst, c.side) = K
      BY PlanIsChunks
    <2> QED
      BY <1>0, <2>1, VolumeInt
  <1>2. first \in Nat /\ c \in K
    BY <1>0, <1>1 DEF PlanOn
  <1> HIDE DEF v, first
  <1>3. c.vol \in Nat
    <2>1. K \subseteq Children /\ \A d \in K : 0 < d.vol
      BY <1>1, <1>2, ChunksNumbered, ChunksCapped
    <2> QED
      BY <1>2, <2>1 DEF Children
  <1>4. ASSUME NEW d \in P, Ref(c) = Ref(d) PROVE c = d
    <2>1. d.inst = c.inst /\ d.side = c.side /\ d.idx = c.idx
      BY <1>4 DEF Ref
    <2>2. d \in K
      BY <1>1, <2>1 DEF PlanOn
    <2> DEFINE cap == FloorLot(MaxChunk)
               n == (v + cap - 1) \div cap
               C(j) == [inst |-> c.inst, side |-> c.side, idx |-> first + j, vol |-> Least(cap, v - j * cap)]
    <2>3. K = { C(j) : j \in 0..(n - 1) }
      BY DEF Chunks
    <2> HIDE DEF K, cap, n
    <2>4. PICK j \in 0..(n - 1) : c = C(j)
      BY <1>2, <2>3
    <2>5. PICK k \in 0..(n - 1) : d = C(k)
      BY <2>2, <2>3
    <2>6. first + j = first + k /\ j \in Int /\ k \in Int
      BY <2>1, <2>4, <2>5
    <2>7. j = k
      BY <1>2, <2>6
    <2> QED
      BY <2>4, <2>5, <2>7
  <1> QED
    BY <1>3, <1>4

\* What a plan sends for an instrument and side is within the delta.
LEMMA PlanSums ==
    ASSUME NEW t, NEW acct, NEW l, NEW nx, NEW P, IsPlan(P, t, acct, l, nx),
           NEW i \in Instruments, NEW s \in Sides,
           NEW D, D = PlanOn(P, i, s), NEW d, d = Delta(t, acct, i)
    PROVE  \E m : Sums(m, D, Volumes(D)) /\ m[D] <= Greatest(IF s = "buy" THEN d ELSE -d, 0)
  <1>0. /\ t \in [Instruments -> Int] /\ acct \in Accounts
        /\ nx \in [Instruments \X Sides -> Nat] /\ P = Plan(t, acct, l, nx)
    BY DEF IsPlan
  <1>1. d \in Int
    BY <1>0, VolumeInt
  <1>2. CASE D = {}
    <2> DEFINE m == [S \in SUBSET D |-> 0]
    <2>1. Sums(m, D, Volumes(D))
      BY <1>2, SumsZero
    <2>2. m[D] = 0
      OBVIOUS
    <2> QED
      BY <1>1, <2>1, <2>2 DEF Greatest
  <1>3. CASE D # {}
    <2>1. PICK c \in P : c.inst = i /\ c.side = s
      BY <1>3 DEF PlanOn
    <2> DEFINE v == Volume(t, acct, i)
               first == nx[<<i, s>>]
    <2>2. /\ s = SideOf(t, acct, i) /\ FloorLot(MaxChunk) # 0 /\ v > 0
          /\ D = Chunks(i, s, v, first) /\ v \in Int /\ first \in Nat
      <3>1. /\ c.side = SideOf(t, acct, c.inst) /\ FloorLot(MaxChunk) # 0 /\ Volume(t, acct, c.inst) > 0
            /\ PlanOn(P, c.inst, c.side) =
                 Chunks(c.inst, c.side, Volume(t, acct, c.inst), nx[<<c.inst, c.side>>])
        BY PlanIsChunks
      <3>2. v \in Int /\ first \in Nat
        BY <1>0, VolumeInt
      <3> QED
        BY <2>1, <3>1, <3>2
    <2>3. v <= Greatest(IF s = "buy" THEN d ELSE -d, 0)
      BY <1>0, <2>2, VolumeBound DEF Sides
    <2> HIDE DEF v, first
    <2>4. PICK m : Sums(m, D, Volumes(D)) /\ m[D] <= v
      BY <2>2, ChunkSums
    <2>5. m[D] \in Nat
      BY <2>4 DEF Sums
    <2>6. Greatest(IF s = "buy" THEN d ELSE -d, 0) \in Int
      BY <1>1 DEF Greatest
    <2> QED
      BY <2>2, <2>3, <2>4, <2>5, <2>6
  <1> QED
    BY <1>2, <1>3

(***************************************************************************)
(* Gaps: what an order has not traded is not in the book of the broker.    *)
(***************************************************************************)
Gap == [r \in DOMAIN ord |-> ord[r].vol - ord[r].traded]

OrdersFilled ==
    \A r \in DOMAIN ord :
        /\ ord[r].vol \in Nat /\ ord[r].traded \in 0..ord[r].vol
        /\ ord[r].status = "alltraded" => ord[r].traded = ord[r].vol

BookRouted(g) ==
    \A i \in Instruments :
        hold[i] = opening[i] + (routed[<<i, "buy">>] - g[OrdersOn(i, "buy")])
                             - (routed[<<i, "sell">>] - g[OrdersOn(i, "sell")])

GapInv ==
    /\ OrdersFilled
    /\ opening \in [Instruments -> Nat] /\ routed \in [Instruments \X Sides -> Nat]
    /\ \E g : Sums(g, DOMAIN ord, Gap) /\ BookRouted(g)

\* The weights.
LEMMA GapTyped ==
    ASSUME OrdersFilled
    PROVE  \A r \in DOMAIN ord : Gap[r] \in Nat
  BY DEF OrdersFilled, Gap

\* Initially there is no order.
LEMMA GapInit == Init => GapInv
  <1> SUFFICES ASSUME Init PROVE GapInv
    OBVIOUS
  <1>1. DOMAIN ord = {} /\ OrdersFilled /\ hold = opening
    BY EmptyDomain DEF Init, OrdersFilled
  <1>2. opening \in [Instruments -> Nat] /\ routed = [k \in Instruments \X Sides |-> 0]
    BY ExecutionAssumption DEF Init
  <1> DEFINE g == [S \in SUBSET DOMAIN ord |-> 0]
  <1>3. Sums(g, DOMAIN ord, Gap)
    BY <1>1, SumsZero
  <1>4. BookRouted(g)
    <2>1. \A i, s : g[OrdersOn(i, s)] = 0
      BY DEF OrdersOn
    <2> HIDE DEF g
    <2>2. ASSUME NEW i \in Instruments
          PROVE  hold[i] = opening[i] + (routed[<<i, "buy">>] - g[OrdersOn(i, "buy")])
                                      - (routed[<<i, "sell">>] - g[OrdersOn(i, "sell")])
      <3>1. routed[<<i, "buy">>] = 0 /\ routed[<<i, "sell">>] = 0 /\ opening[i] \in Nat
        BY <1>2 DEF Sides
      <3> QED
        BY <1>1, <2>1, <3>1
    <2> QED
      BY <2>2 DEF BookRouted
  <1> QED
    BY <1>1, <1>2, <1>3, <1>4 DEF GapInv

\* Orders keep their volumes, and the book and the history stay.
LEMMA GapKept ==
    ASSUME GapInv, UNCHANGED <<hold, opening, routed>>, DOMAIN ord' = DOMAIN ord,
           \A r \in DOMAIN ord : /\ ord'[r].vol = ord[r].vol /\ ord'[r].traded = ord[r].traded
                                 /\ ord'[r].status = "alltraded" => ord[r].status = "alltraded"
    PROVE  GapInv'
  <1>1. OrdersFilled'
    BY DEF GapInv, OrdersFilled
  <1>2. Gap' = Gap /\ \A i, s : OrdersOn(i, s)' = OrdersOn(i, s)
    BY DEF Gap, OrdersOn
  <1>3. ASSUME NEW g, Sums(g, DOMAIN ord, Gap), BookRouted(g)
        PROVE  Sums(g, DOMAIN ord', Gap') /\ BookRouted(g)'
    BY <1>2, <1>3 DEF BookRouted
  <1> QED
    BY <1>1, <1>3 DEF GapInv

\* A child of the plan as it is sent.
LEMMA SentOrder ==
    ASSUME Inv, SubmitAccepted
    PROVE  /\ cur \in plan /\ cur \in Children /\ Ref(cur) \notin DOMAIN ord
           /\ Ref(cur)[1] = cur.inst /\ Ref(cur)[2] = cur.side
           /\ DOMAIN ord' = DOMAIN ord \cup {Ref(cur)}
           /\ ord'[Ref(cur)] = [vol |-> cur.vol, traded |-> 0, status |-> "submitting"]
           /\ \A q \in DOMAIN ord : ord'[q] = ord[q]
           /\ routed' = [routed EXCEPT ![<<cur.inst, cur.side>>] = @ + cur.vol]
           /\ UNCHANGED <<plan, target, hold, opening, seen, work>> /\ pc # "down"
  <1>1. cur \in plan /\ plan \subseteq Children
    BY DEF SubmitAccepted, Inv, TypeOK, ThreadTypeOK, StoreTypeOK
  <1> QED
    BY <1>1 DEF SubmitAccepted, Put, Inv, JournalInv, Ref, store, oms

\* A new order is a gap of its volume.
LEMMA GapSubmit ==
    ASSUME Inv, GapInv, SubmitAccepted, cur.vol \in Nat
    PROVE  GapInv'
  <1> DEFINE r == Ref(cur)
             k == <<cur.inst, cur.side>>
  <1>1. /\ cur.inst \in Instruments /\ cur.side \in {"buy", "sell"} /\ r \notin DOMAIN ord
        /\ r[1] = cur.inst /\ r[2] = cur.side /\ DOMAIN ord' = DOMAIN ord \cup {r}
        /\ ord'[r].vol = cur.vol /\ ord'[r].traded = 0 /\ ord'[r].status # "alltraded"
        /\ \A q \in DOMAIN ord : ord'[q] = ord[q]
        /\ routed' = [routed EXCEPT ![k] = @ + cur.vol] /\ UNCHANGED <<hold, opening>>
    BY SentOrder DEF Children, Sides
  <1>2. k \in Instruments \X Sides
    BY <1>1 DEF Sides
  <1> HIDE DEF r
  <1>3. OrdersFilled'
    BY <1>1 DEF GapInv, OrdersFilled
  <1>4. routed \in [Instruments \X Sides -> Nat] /\ opening \in [Instruments -> Nat]
    BY DEF GapInv
  <1>5. /\ routed' \in [Instruments \X Sides -> Nat] /\ opening' \in [Instruments -> Nat]
        /\ routed'[k] = routed[k] + cur.vol
        /\ \A q \in Instruments \X Sides : q # k => routed'[q] = routed[q]
    BY <1>1, <1>2, <1>4
  <1>6. PICK g : Sums(g, DOMAIN ord, Gap) /\ BookRouted(g)
    BY DEF GapInv
  <1>7. Extended(DOMAIN ord, Gap, Gap', r, cur.vol)
    BY <1>1, GapTyped DEF Gap, GapInv, Extended
  <1>8. PICK h : Sums(h, DOMAIN ord', Gap') /\ AddedOn(g, h, r, cur.vol)
    BY <1>1, <1>6, <1>7, AddOn
  <1>9. ASSUME NEW i \in Instruments
        PROVE  hold'[i] = opening'[i] + (routed'[<<i, "buy">>] - h[OrdersOn(i, "buy")'])
                                      - (routed'[<<i, "sell">>] - h[OrdersOn(i, "sell")'])
    <2>1. PICK b, s : b = g[OrdersOn(i, "buy")] /\ s = g[OrdersOn(i, "sell")]
      OBVIOUS
    <2>2. /\ b \in Nat
          /\ h[OrdersOn(i, "buy")'] = IF cur.inst = i /\ cur.side = "buy" THEN b + cur.vol ELSE b
      BY <1>1, <1>8, <2>1 DEF AddedOn
    <2>3. /\ s \in Nat
          /\ h[OrdersOn(i, "sell")'] = IF cur.inst = i /\ cur.side = "sell" THEN s + cur.vol ELSE s
      BY <1>1, <1>8, <2>1 DEF AddedOn
    <2>4. PICK x \in Nat, y \in Nat : x = routed[<<i, "buy">>] /\ y = routed[<<i, "sell">>]
      BY <1>4 DEF Sides
    <2>5. routed'[<<i, "buy">>] = IF cur.inst = i /\ cur.side = "buy" THEN x + cur.vol ELSE x
      BY <1>5, <2>4 DEF Sides
    <2>6. routed'[<<i, "sell">>] = IF cur.inst = i /\ cur.side = "sell" THEN y + cur.vol ELSE y
      BY <1>5, <2>4 DEF Sides
    <2>7. hold[i] = opening[i] + (x - b) - (y - s) /\ opening[i] \in Nat
      BY <1>4, <1>6, <2>1, <2>4 DEF BookRouted
    <2>8. hold'[i] = hold[i] /\ opening'[i] = opening[i]
      BY <1>1
    <2> QED
      BY <2>2, <2>3, <2>4, <2>5, <2>6, <2>7, <2>8
  <1> QED
    BY <1>3, <1>5, <1>8, <1>9 DEF GapInv, BookRouted

\* A fill closes a part of a gap.
LEMMA GapFill ==
    ASSUME Inv, GapInv, NEW r \in DOMAIN ord, NEW v, BrokerFill(r, v)
    PROVE  GapInv'
  <1>1. /\ r[1] \in Instruments /\ r[2] \in {"buy", "sell"} /\ hold \in [Instruments -> Int]
        /\ ord[r].vol \in Nat /\ ord[r].traded \in Nat /\ ord[r] \in Orders
    BY DEF Inv, TypeOK, BrokerTypeOK, Refs, Sides, GapInv, OrdersFilled
  <1>2. v \in 1..(ord[r].vol - ord[r].traded)
    BY DEF BrokerFill
  <1>3. PICK o : /\ ord' = [ord EXCEPT ![r] = o]
                 /\ o = [ord[r] EXCEPT !.traded = ord[r].traded + v,
                          !.status = IF ord[r].traded + v = ord[r].vol THEN "alltraded" ELSE "parttraded"]
    BY DEF BrokerFill, BrokerMove
  <1>4. /\ DOMAIN ord' = DOMAIN ord /\ ord'[r].traded = ord[r].traded + v /\ ord'[r].vol = ord[r].vol
        /\ ord'[r].status = "alltraded" => ord[r].traded + v = ord[r].vol
        /\ \A q \in DOMAIN ord : q # r => ord'[q] = ord[q]
    BY <1>1, <1>3 DEF Orders
  <1>5. UNCHANGED <<routed, opening>>
    BY DEF BrokerFill, BrokerMove, history
  <1>6. /\ r[2] = "buy" => hold'[r[1]] = hold[r[1]] + v
        /\ r[2] = "sell" => hold'[r[1]] = hold[r[1]] - v
        /\ \A i \in Instruments : i # r[1] => hold'[i] = hold[i]
    BY <1>1 DEF BrokerFill
  <1>7. OrdersFilled'
    BY <1>1, <1>2, <1>4 DEF GapInv, OrdersFilled
  <1>8. PICK g : Sums(g, DOMAIN ord, Gap) /\ BookRouted(g)
    BY DEF GapInv
  <1>9. PICK u \in Nat : u = Gap[r] /\ u - v \in Nat
    BY <1>1, <1>2 DEF Gap
  <1>10. Reweighed(DOMAIN ord, Gap, Gap', r, u - v)
    BY <1>1, <1>2, <1>4, <1>9, GapTyped DEF Gap, GapInv, Reweighed
  <1>11. PICK h : Sums(h, DOMAIN ord, Gap') /\ MovedOn(g, h, r, u, u - v)
    BY <1>8, <1>9, <1>10, MoveOn
  <1>12. u - (u - v) = v /\ v \in Int
    BY <1>1, <1>2, <1>9
  <1>13. ASSUME NEW i \in Instruments
         PROVE  hold'[i] = opening'[i] + (routed'[<<i, "buy">>] - h[OrdersOn(i, "buy")'])
                                       - (routed'[<<i, "sell">>] - h[OrdersOn(i, "sell")'])
    <2>1. PICK b, s : b = g[OrdersOn(i, "buy")] /\ s = g[OrdersOn(i, "sell")]
      OBVIOUS
    <2>2. PICK x \in Nat, y \in Nat : x = routed[<<i, "buy">>] /\ y = routed[<<i, "sell">>]
      BY DEF Sides, GapInv
    <2>3. hold[i] = opening[i] + (x - b) - (y - s) /\ opening[i] \in Nat
      BY <1>8, <2>1, <2>2 DEF BookRouted, GapInv
    <2>4. /\ b \in Nat
          /\ h[OrdersOn(i, "buy")'] = IF r[1] = i /\ r[2] = "buy" THEN b - v ELSE b
      <3>1. /\ b \in Nat
            /\ r[1] = i /\ r[2] = "buy" => h[OrdersOn(i, "buy")'] = b - u + (u - v)
            /\ r[1] # i \/ r[2] # "buy" => h[OrdersOn(i, "buy")'] = b
        BY <1>4, <1>11, <2>1, OrdersOnKept DEF MovedOn
      <3> QED
        BY <1>9, <1>12, <3>1
    <2>5. /\ s \in Nat
          /\ h[OrdersOn(i, "sell")'] = IF r[1] = i /\ r[2] = "sell" THEN s - v ELSE s
      <3>1. /\ s \in Nat
            /\ r[1] = i /\ r[2] = "sell" => h[OrdersOn(i, "sell")'] = s - u + (u - v)
            /\ r[1] # i \/ r[2] # "sell" => h[OrdersOn(i, "sell")'] = s
        BY <1>4, <1>11, <2>1, OrdersOnKept DEF MovedOn
      <3> QED
        BY <1>9, <1>12, <3>1
    <2>6. routed'[<<i, "buy">>] = x /\ routed'[<<i, "sell">>] = y /\ opening'[i] = opening[i] /\ v \in Int
      BY <1>1, <1>2, <1>5, <2>2
    <2>7. hold'[i] = IF r[1] # i THEN hold[i] ELSE IF r[2] = "buy" THEN hold[i] + v ELSE hold[i] - v
      BY <1>1, <1>6
    <2> QED
      BY <1>1, <2>2, <2>3, <2>4, <2>5, <2>6, <2>7
  <1>14. opening' \in [Instruments -> Nat] /\ routed' \in [Instruments \X Sides -> Nat]
    BY <1>5 DEF GapInv
  <1> QED
    BY <1>4, <1>7, <1>11, <1>13, <1>14 DEF GapInv, BookRouted

\* Every step keeps the gaps.
LEMMA GapStep ==
    ASSUME Inv, GapInv, [Next]_vars, \A c \in plan : c.vol \in Nat
    PROVE  GapInv'
  <1>1. CASE Other
    BY <1>1, GapKept DEF Other
  <1>2. CASE RouteAck \/ PollPositions \/ Restart \/ \E c \in todo : RouteJournal(c)
    <2>1. UNCHANGED <<ord, hold, opening, routed>>
      BY <1>2 DEF RouteAck, PollPositions, Restart, RouteJournal, broker, history
    <2> QED
      BY <2>1, GapKept
  <1>3. ASSUME NEW r \in DOMAIN ord, DeliverOrder(r) \/ DeliverFills(r) PROVE GapInv'
    <2>1. UNCHANGED <<ord, hold, opening, routed>>
      BY <1>3 DEF DeliverOrder, DeliverFills, broker, history
    <2> QED
      BY <2>1, GapKept
  <1>4. ASSUME NEW r \in DOMAIN ord, BrokerAccept(r) \/ BrokerClose(r) PROVE GapInv'
    <2>1. ord[r] \in Orders
      BY DEF Inv, TypeOK, BrokerTypeOK
    <2>2. PICK s \in {"nottraded"} \cup Failed : ord' = [ord EXCEPT ![r] = [ord[r] EXCEPT !.status = s]]
      BY <1>4 DEF BrokerAccept, BrokerClose, BrokerMove
    <2>3. /\ DOMAIN ord' = DOMAIN ord
          /\ \A q \in DOMAIN ord : /\ ord'[q].vol = ord[q].vol /\ ord'[q].traded = ord[q].traded
                                   /\ ord'[q].status = "alltraded" => ord[q].status = "alltraded"
      BY <2>1, <2>2 DEF Orders, Failed
    <2> QED
      BY <1>4, <2>3, GapKept DEF BrokerAccept, BrokerClose, BrokerMove, history
  <1>5. CASE Moves
    BY <1>4, <1>5, GapFill DEF Moves
  <1>6. CASE SubmitAccepted
    BY <1>6, SentOrder, GapSubmit
  <1>7. TypeOK
    BY DEF Inv
  <1> QED
    BY <1>1, <1>2, <1>3, <1>5, <1>6, <1>7, Cases

(***************************************************************************)
(* Working volumes: the OMS counts what the last reports leave to trade.   *)
(***************************************************************************)
Reported(r) == IF r \in DOMAIN seen THEN Remaining(seen[r]) ELSE 0

Rest == [r \in DOMAIN ord |-> Reported(r)]

SeenFilled == \A r \in DOMAIN seen : seen[r].vol \in Nat /\ seen[r].traded \in 0..seen[r].vol

WorkTrue(k) == \A i \in Instruments, s \in Sides : work[<<i, s>>] = k[OrdersOn(i, s)]

WorkInv ==
    /\ SeenFilled
    /\ pc # "down" => \E k : Sums(k, DOMAIN ord, Rest) /\ WorkTrue(k)

\* The weights.
LEMMA RestTyped ==
    ASSUME SeenFilled
    PROVE  \A r \in DOMAIN ord : Rest[r] \in Nat
  BY DEF SeenFilled, Rest, Reported, Remaining

\* A table of zeros.
LEMMA WorkZero ==
    ASSUME \A r \in DOMAIN ord : Rest[r] = 0, \A i \in Instruments, s \in Sides : work[<<i, s>>] = 0
    PROVE  \E k : Sums(k, DOMAIN ord, Rest) /\ WorkTrue(k)
  <1> DEFINE k == [S \in SUBSET DOMAIN ord |-> 0]
  <1>1. Sums(k, DOMAIN ord, Rest)
    BY SumsZero
  <1>2. \A i, s : k[OrdersOn(i, s)] = 0
    BY DEF OrdersOn
  <1> HIDE DEF k
  <1> QED
    BY <1>1, <1>2 DEF WorkTrue

\* Initially nothing works.
LEMMA WorkInit == Init => WorkInv
  <1> SUFFICES ASSUME Init PROVE WorkInv
    OBVIOUS
  <1>1. DOMAIN ord = {} /\ DOMAIN seen = {} /\ work = [k \in Instruments \X Sides |-> 0]
    BY EmptyDomain DEF Init
  <1> QED
    BY <1>1, WorkZero DEF WorkInv, SeenFilled

\* Orders and reports stay.
LEMMA WorkKept ==
    ASSUME WorkInv, UNCHANGED <<seen, work>>, DOMAIN ord' = DOMAIN ord, pc' = "down" \/ pc # "down"
    PROVE  WorkInv'
  <1>1. SeenFilled'
    BY DEF WorkInv, SeenFilled
  <1>2. Rest' = Rest /\ \A i, s : OrdersOn(i, s)' = OrdersOn(i, s)
    BY DEF Rest, Reported, Remaining, OrdersOn
  <1>3. ASSUME NEW k, Sums(k, DOMAIN ord, Rest), WorkTrue(k)
        PROVE  Sums(k, DOMAIN ord', Rest') /\ WorkTrue(k)'
    BY <1>2, <1>3 DEF WorkTrue
  <1> QED
    BY <1>1, <1>3 DEF WorkInv

\* A new order has not been reported.
LEMMA WorkSubmit ==
    ASSUME Inv, WorkInv, SubmitAccepted
    PROVE  WorkInv'
  <1> DEFINE r == Ref(cur)
  <1>1. /\ DOMAIN ord' = DOMAIN ord \cup {r} /\ r \notin DOMAIN ord /\ r \notin DOMAIN seen
        /\ UNCHANGED <<seen, work>> /\ pc # "down"
    BY SentOrder DEF Inv, TypeOK, OmsTypeOK
  <1> HIDE DEF r
  <1>2. SeenFilled'
    BY <1>1 DEF WorkInv, SeenFilled
  <1>3. PICK k : Sums(k, DOMAIN ord, Rest) /\ WorkTrue(k)
    BY <1>1 DEF WorkInv
  <1>4. Extended(DOMAIN ord, Rest, Rest', r, 0)
    BY <1>1, RestTyped DEF Rest, Reported, Remaining, WorkInv, Extended
  <1>5. PICK h : Sums(h, DOMAIN ord', Rest') /\ AddedOn(k, h, r, 0)
    BY <1>1, <1>3, <1>4, AddOn
  <1>6. \A i, s : h[OrdersOn(i, s)'] = k[OrdersOn(i, s)]
    BY <1>5 DEF AddedOn
  <1>7. \A i \in Instruments, s \in Sides : work'[<<i, s>>] = h[OrdersOn(i, s)']
    BY <1>1, <1>3, <1>6 DEF WorkTrue
  <1> QED
    BY <1>2, <1>5, <1>7 DEF WorkInv, WorkTrue

\* A report replaces the one before it.
LEMMA WorkDeliver ==
    ASSUME Inv, GapInv, WorkInv, NEW r \in DOMAIN ord, DeliverOrder(r)
    PROVE  WorkInv'
  <1>1. /\ UNCHANGED <<ord, pc>> /\ pc # "down" /\ DOMAIN seen' = DOMAIN seen \cup {r}
        /\ seen'[r] = ord[r] /\ \A q \in DOMAIN seen : q # r => seen'[q] = seen[q]
    BY DEF DeliverOrder, Up, Put, thread, broker
  <1>2. SeenFilled'
    BY <1>1 DEF WorkInv, SeenFilled, GapInv, OrdersFilled
  <1>3. PICK v \in Nat : v = Remaining(ord[r])
    BY DEF Remaining, GapInv, OrdersFilled
  <1>4. PICK u \in Nat : u = Rest[r]
    BY RestTyped DEF WorkInv
  <1>5. Remaining(At(seen, r, NoOrder)) = u
    BY <1>4 DEF Rest, Reported, Remaining, At, NoOrder, Working
  <1>6. /\ <<r[1], r[2]>> \in Instruments \X Sides /\ work \in [Instruments \X Sides -> Int]
        /\ work' = [work EXCEPT ![<<r[1], r[2]>>] = @ - u + v]
    BY <1>3, <1>5 DEF DeliverOrder, Inv, TypeOK, OmsTypeOK, BrokerTypeOK, Refs
  <1>7. PICK k : Sums(k, DOMAIN ord, Rest) /\ WorkTrue(k)
    BY <1>1 DEF WorkInv
  <1>8. Reweighed(DOMAIN ord, Rest, Rest', r, v)
    <2>1. Rest'[r] = v
      BY <1>1, <1>3 DEF Rest, Reported, Remaining
    <2>2. \A q \in DOMAIN ord \ {r} : Rest'[q] = Rest[q]
      BY <1>1 DEF Rest, Reported, Remaining
    <2> QED
      BY <2>1, <2>2, RestTyped DEF Reweighed, WorkInv
  <1>9. PICK h : Sums(h, DOMAIN ord, Rest') /\ MovedOn(k, h, r, u, v)
    BY <1>4, <1>7, <1>8, MoveOn
  <1>10. ASSUME NEW i \in Instruments, NEW s \in Sides
         PROVE  work'[<<i, s>>] = h[OrdersOn(i, s)']
    <2>1. work[<<i, s>>] = k[OrdersOn(i, s)] /\ h[OrdersOn(i, s)'] = h[OrdersOn(i, s)]
      BY <1>1, <1>7, OrdersOnKept DEF WorkTrue
    <2>2. CASE r[1] = i /\ r[2] = s
      <3>1. h[OrdersOn(i, s)] = k[OrdersOn(i, s)] - u + v
        BY <1>9, <2>2 DEF MovedOn
      <3>2. work'[<<i, s>>] = work[<<i, s>>] - u + v
        BY <1>6, <2>2
      <3> QED
        BY <2>1, <3>1, <3>2
    <2>3. CASE r[1] # i \/ r[2] # s
      <3>1. h[OrdersOn(i, s)] = k[OrdersOn(i, s)]
        BY <1>9, <2>3 DEF MovedOn
      <3>2. work'[<<i, s>>] = work[<<i, s>>]
        BY <1>6, <2>3
      <3> QED
        BY <2>1, <3>1, <3>2
    <2> QED
      BY <2>2, <2>3
  <1> QED
    BY <1>1, <1>2, <1>9, <1>10 DEF WorkInv, WorkTrue

\* Every step keeps the working volumes.
LEMMA WorkStep ==
    ASSUME Inv, GapInv, WorkInv, [Next]_vars
    PROVE  WorkInv'
  <1>1. CASE Other
    BY <1>1, WorkKept DEF Other
  <1>2. CASE RouteAck \/ PollPositions \/ \E c \in todo : RouteJournal(c)
    <2>1. UNCHANGED <<ord, seen, work>> /\ pc # "down"
      BY <1>2 DEF RouteAck, PollPositions, RouteJournal, Up, oms, broker
    <2> QED
      BY <2>1, WorkKept
  <1>3. ASSUME NEW r \in DOMAIN ord, DeliverFills(r) PROVE WorkInv'
    <2>1. UNCHANGED <<ord, seen, work>> /\ pc # "down"
      BY <1>3 DEF DeliverFills, Up, broker
    <2> QED
      BY <2>1, WorkKept
  <1>4. CASE Moves
    <2>1. UNCHANGED <<seen, work, pc>>
      BY <1>4 DEF Moves, BrokerAccept, BrokerClose, BrokerFill, BrokerMove, thread, oms
    <2>2. DOMAIN ord' = DOMAIN ord
      BY <1>4, ClosedStays DEF Inv
    <2> QED
      BY <2>1, <2>2, WorkKept
  <1>5. CASE Restart
    <2>1. DOMAIN seen' = {} /\ work' = [k \in Instruments \X Sides |-> 0] /\ ord' = ord
      BY <1>5, EmptyDomain DEF Restart, broker
    <2>2. SeenFilled'
      BY <2>1 DEF SeenFilled
    <2>3. (\A r \in DOMAIN ord : Rest[r] = 0)'
      BY <2>1 DEF Rest, Reported
    <2>4. (\A i \in Instruments, s \in Sides : work[<<i, s>>] = 0)'
      BY <2>1
    <2>5. (\E k : Sums(k, DOMAIN ord, Rest) /\ WorkTrue(k))'
      <3> DEFINE k == [S \in SUBSET DOMAIN ord' |-> 0]
      <3>1. Sums(k, DOMAIN ord', Rest')
        <4>1. PICK D, z : D = DOMAIN ord' /\ z = Rest'
          OBVIOUS
        <4>2. \A r \in D : z[r] = 0
          BY <2>3, <4>1
        <4> QED
          BY <4>1, <4>2, SumsZero
      <3>2. \A i, s : k[OrdersOn(i, s)'] = 0
        BY DEF OrdersOn
      <3> HIDE DEF k
      <3> QED
        BY <2>4, <3>1, <3>2 DEF WorkTrue
    <2> QED
      BY <2>2, <2>5 DEF WorkInv
  <1>6. TypeOK
    BY DEF Inv
  <1> QED
    BY <1>1, <1>2, <1>3, <1>4, <1>5, <1>6, Cases, WorkSubmit, WorkDeliver

(***************************************************************************)
(* Orders within the target: what was sent for a side and what the plan    *)
(* has still to send for it.                                               *)
(***************************************************************************)
Unsent(P, refs) == [c \in P |-> IF Ref(c) \in refs THEN 0 ELSE c.vol]

Within(P, refs, i, s, done, limit) ==
    \E m : Sums(m, PlanOn(P, i, s), Unsent(P, refs)) /\ done + m[PlanOn(P, i, s)] <= limit

Distinct(P) == \A c \in P : c.vol \in Nat /\ \A d \in P : Ref(c) = Ref(d) => c = d

Limit(i, s) == IF s = "buy" THEN Greatest(target[i] - opening[i], 0)
                            ELSE Greatest(opening[i] - target[i], 0)

UnsentInv ==
    /\ Distinct(plan)
    /\ \A i \in Instruments, s \in Sides :
           Within(plan, DOMAIN ord, i, s, routed[<<i, s>>], Limit(i, s))

\* Initially nothing was sent and there is no plan.
LEMMA UnsentInit == Init => UnsentInv
  <1> SUFFICES ASSUME Init PROVE UnsentInv
    OBVIOUS
  <1>1. plan = {} /\ routed = [k \in Instruments \X Sides |-> 0]
    BY DEF Init
  <1>2. Distinct(plan)
    BY <1>1 DEF Distinct
  <1>3. opening \in [Instruments -> Nat] /\ target \in [Instruments -> Nat]
    BY ExecutionAssumption DEF Init
  <1>4. ASSUME NEW i \in Instruments, NEW s \in Sides
        PROVE  Within(plan, DOMAIN ord, i, s, routed[<<i, s>>], Limit(i, s))
    <2> DEFINE D == PlanOn(plan, i, s)
               m == [S \in SUBSET D |-> 0]
    <2>1. D = {}
      BY <1>1 DEF PlanOn
    <2>2. Sums(m, D, Unsent(plan, DOMAIN ord))
      BY <2>1, SumsZero
    <2>3. m[D] = 0 /\ routed[<<i, s>>] = 0
      BY <1>1
    <2>4. PICK x \in Nat, y \in Nat : x = opening[i] /\ y = target[i]
      BY <1>3
    <2>5. 0 <= Limit(i, s) /\ 0 + 0 = 0
      BY <2>4 DEF Limit, Greatest
    <2> HIDE DEF m, D
    <2>6. routed[<<i, s>>] + m[D] <= Limit(i, s)
      BY <2>3, <2>5
    <2> QED
      BY <2>2, <2>6 DEF Within, D
  <1> QED
    BY <1>2, <1>4 DEF UnsentInv

\* One child of a plan is sent.
LEMMA WithinSent ==
    ASSUME NEW P, NEW refs, NEW i, NEW s, NEW done \in Nat, NEW limit \in Int,
           Distinct(P), NEW c \in P, c.inst = i, c.side = s, Ref(c) \notin refs,
           Within(P, refs, i, s, done, limit)
    PROVE  Within(P, refs \cup {Ref(c)}, i, s, done + c.vol, limit)
  <1> DEFINE D == PlanOn(P, i, s)
             w == Unsent(P, refs)
             z == Unsent(P, refs \cup {Ref(c)})
  <1>1. PICK m : Sums(m, D, w) /\ done + m[D] <= limit
    BY DEF Within
  <1>2. c \in D /\ D \subseteq P /\ c.vol \in Nat
    BY DEF PlanOn, Distinct
  <1>3. w[c] = c.vol /\ z[c] = 0 /\ \A d \in D : w[d] \in Nat
    BY <1>2 DEF Unsent, Distinct
  <1>4. \A d \in D \ {c} : z[d] = w[d]
    BY <1>2 DEF Unsent, Distinct
  <1> HIDE DEF D, w, z
  <1>5. Reweighed(D, w, z, c, 0)
    BY <1>2, <1>3, <1>4 DEF Reweighed
  <1>6. PICK n : Sums(n, D, z) /\ SumsMoved(m, n, D, c, w[c], 0)
    BY <1>1, <1>5, SumsSet
  <1>7. m[D] \in Nat /\ D \in SUBSET D
    BY <1>1 DEF Sums
  <1>8. n[D] = m[D] - c.vol + 0
    BY <1>2, <1>3, <1>6, <1>7 DEF SumsMoved
  <1>9. done + c.vol + n[D] <= limit
    BY <1>1, <1>2, <1>7, <1>8
  <1> QED
    BY <1>6, <1>9 DEF Within, D, z

\* A child of another instrument or side is sent.
LEMMA WithinOther ==
    ASSUME NEW P, NEW refs, NEW i, NEW s, NEW done, NEW limit,
           NEW c \in P, c.inst # i \/ c.side # s, Within(P, refs, i, s, done, limit)
    PROVE  Within(P, refs \cup {Ref(c)}, i, s, done, limit)
  <1> DEFINE D == PlanOn(P, i, s)
             w == Unsent(P, refs)
             z == Unsent(P, refs \cup {Ref(c)})
  <1>1. PICK m : Sums(m, D, w) /\ done + m[D] <= limit
    BY DEF Within
  <1>2. \A d \in D : z[d] = w[d]
    <2> SUFFICES ASSUME NEW d \in D PROVE z[d] = w[d]
      OBVIOUS
    <2>1. d \in P /\ d.inst = i /\ d.side = s
      BY DEF PlanOn
    <2>2. Ref(d) # Ref(c)
      BY <2>1 DEF Ref
    <2> QED
      BY <2>1, <2>2 DEF Unsent
  <1> HIDE DEF D, w, z
  <1>3. Sums(m, D, z)
    BY <1>1, <1>2, SumsSame
  <1> QED
    BY <1>1, <1>3 DEF Within, D, z

\* What is sent stays within the target.
LEMMA UnsentBound ==
    ASSUME NEW P, NEW refs, NEW i, NEW s, NEW done \in Nat, NEW limit \in Int,
           Within(P, refs, i, s, done, limit)
    PROVE  done <= limit
  <1> DEFINE D == PlanOn(P, i, s)
  <1>1. PICK m : Sums(m, D, Unsent(P, refs)) /\ done + m[D] <= limit
    BY DEF Within
  <1>2. m[D] \in Nat
    BY <1>1 DEF Sums
  <1> HIDE DEF D
  <1> QED
    BY <1>1, <1>2

\* The limits are integers.
LEMMA LimitTyped ==
    ASSUME Inv, GapInv
    PROVE  \A i \in Instruments, s \in Sides : Limit(i, s) \in Int /\ routed[<<i, s>>] \in Nat
  BY DEF Inv, TypeOK, StoreTypeOK, GapInv, Limit, Greatest, Sides

\* SubmitAccepted sends a child of the plan.
LEMMA UnsentSubmit ==
    ASSUME Inv, GapInv, UnsentInv, SubmitAccepted
    PROVE  UnsentInv'
  <1>1. /\ cur \in plan /\ cur.inst \in Instruments /\ cur.side \in Sides /\ Ref(cur) \notin DOMAIN ord
        /\ DOMAIN ord' = DOMAIN ord \cup {Ref(cur)}
        /\ routed' = [routed EXCEPT ![<<cur.inst, cur.side>>] = @ + cur.vol]
        /\ UNCHANGED <<plan, target, opening>>
    BY SentOrder DEF Children
  <1>2. routed \in [Instruments \X Sides -> Nat]
    BY DEF GapInv
  <1>3. Distinct(plan) /\ Distinct(plan')
    BY <1>1 DEF UnsentInv
  <1>4. ASSUME NEW i \in Instruments, NEW s \in Sides
        PROVE  Within(plan', DOMAIN ord', i, s, routed'[<<i, s>>], Limit(i, s)')
    <2>1. Within(plan, DOMAIN ord, i, s, routed[<<i, s>>], Limit(i, s))
      BY DEF UnsentInv
    <2>2. Limit(i, s)' = Limit(i, s) /\ plan' = plan
      BY <1>1 DEF Limit
    <2>3. CASE cur.inst = i /\ cur.side = s
      <3>1. routed'[<<i, s>>] = routed[<<i, s>>] + cur.vol
        BY <1>1, <1>2, <2>3
      <3> QED
        BY <1>1, <1>3, <2>1, <2>2, <2>3, <3>1, WithinSent, LimitTyped
    <2>4. CASE cur.inst # i \/ cur.side # s
      <3>1. routed'[<<i, s>>] = routed[<<i, s>>]
        BY <1>1, <1>2, <2>4
      <3> QED
        BY <1>1, <2>1, <2>2, <2>4, <3>1, WithinOther
    <2> QED
      BY <2>3, <2>4
  <1> QED
    BY <1>3, <1>4 DEF UnsentInv

\* Plan, orders and history stay.
LEMMA UnsentKept ==
    ASSUME UnsentInv, UNCHANGED <<plan, routed, opening, target>>, DOMAIN ord' = DOMAIN ord
    PROVE  UnsentInv'
  BY DEF UnsentInv, Limit

\* With nothing loose the account that _refresh reads is the true one: the
\* opening book and everything that was sent.
LEMMA QuietAccount ==
    ASSUME Inv, CountInv, GapInv, WorkInv, Loose = {}, pc = "idle", NEW i \in Instruments
    PROVE  Delta(target, Acct, i) =
             target[i] - (opening[i] + routed[<<i, "buy">>] - routed[<<i, "sell">>])
  <1>1. \A r \in DOMAIN ord : Done(r)
    BY DEF Loose
  <1>2. pos[i] = hold[i]
    <2>1. \A r \in DOMAIN ord : At(applied, r, 0) = ord[r].traded
      BY <1>1 DEF Done
    <2> QED
      BY <2>1, NothingPending
  <1>3. hold[i] = opening[i] + routed[<<i, "buy">>] - routed[<<i, "sell">>]
    <2>1. PICK g : Sums(g, DOMAIN ord, Gap) /\ BookRouted(g)
      BY DEF GapInv
    <2>2. \A r \in DOMAIN ord : Gap[r] = 0
      BY <1>1 DEF Done, GapInv, OrdersFilled, Gap
    <2>3. g[OrdersOn(i, "buy")] = 0 /\ g[OrdersOn(i, "sell")] = 0
      BY <2>1, <2>2 DEF Sums, OrdersOn
    <2>4. PICK x \in Nat, y \in Nat, z \in Nat :
              x = opening[i] /\ y = routed[<<i, "buy">>] /\ z = routed[<<i, "sell">>]
      BY DEF GapInv, Sides
    <2>5. hold[i] = x + (y - 0) - (z - 0)
      BY <2>1, <2>3, <2>4 DEF BookRouted
    <2> QED
      BY <2>4, <2>5
  <1>4. work[<<i, "buy">>] = 0 /\ work[<<i, "sell">>] = 0
    <2>1. PICK k : Sums(k, DOMAIN ord, Rest) /\ WorkTrue(k)
      BY DEF WorkInv
    <2>2. \A r \in DOMAIN ord : Rest[r] = 0
      BY <1>1 DEF Done, Rest, Reported, Remaining, Working
    <2>3. k[OrdersOn(i, "buy")] = 0 /\ k[OrdersOn(i, "sell")] = 0
      BY <2>1, <2>2 DEF Sums, OrdersOn
    <2> QED
      BY <2>1, <2>3 DEF WorkTrue, Sides
  <1>5. Delta(target, Acct, i) = target[i] - (pos[i] + 0 - 0)
    BY <1>4 DEF Delta, Acct
  <1>6. pos[i] \in Int
    BY DEF Inv, TypeOK, OmsTypeOK
  <1> QED
    BY <1>2, <1>3, <1>5, <1>6

\* The children of a plan with fresh references are all unsent.
LEMMA WithinFresh ==
    ASSUME NEW t, NEW acct, NEW l, NEW nx, NEW P, IsPlan(P, t, acct, l, nx),
           NEW refs, \A c \in P : Ref(c) \notin refs,
           NEW i \in Instruments, NEW s \in Sides, NEW d, d = Delta(t, acct, i), NEW done \in Nat,
           NEW limit \in Int, done + Greatest(IF s = "buy" THEN d ELSE -d, 0) <= limit
    PROVE  Within(P, refs, i, s, done, limit)
  <1> DEFINE D == PlanOn(P, i, s)
             b == Greatest(IF s = "buy" THEN d ELSE -d, 0)
  <1>1. PICK m : Sums(m, D, Volumes(D)) /\ m[D] <= b
    BY PlanSums
  <1>2. \A c \in D : Unsent(P, refs)[c] = Volumes(D)[c]
    BY DEF Unsent, Volumes, PlanOn
  <1>3. d \in Int
    BY VolumeInt DEF IsPlan
  <1>4. b \in Int
    BY <1>3 DEF Greatest
  <1>5. m[D] \in Nat
    BY <1>1 DEF Sums
  <1> HIDE DEF D, b
  <1>6. Sums(m, D, Unsent(P, refs))
    BY <1>1, <1>2, SumsSame
  <1>7. done + b <= limit
    BY DEF b
  <1>8. done + m[D] <= limit
    BY <1>1, <1>4, <1>5, <1>7
  <1> QED
    BY <1>6, <1>8 DEF Within, D

\* A plan is made for the account of the OMS when nothing is loose.
Replans ==
    /\ plan' = Plan(target, Acct, locked, next)
    /\ Loose = {} /\ pc = "idle" /\ UNCHANGED <<ord, routed, opening, target>>

\* A replan orders what is left of the distance to the target.
LEMMA UnsentReplan ==
    ASSUME Inv, FreshInv, CountInv, GapInv, WorkInv, UnsentInv, Replans
    PROVE  UnsentInv'
  <1>1. PICK P : P = plan' /\ P = Plan(target, Acct, locked, next)
    BY DEF Replans
  <1>2. IsPlan(P, target, Acct, locked, next)
    BY <1>1 DEF IsPlan, Acct, Accounts, Inv, TypeOK, StoreTypeOK, OmsTypeOK
  <1>3. Distinct(plan')
    BY <1>1, <1>2, PlanDistinct DEF Distinct
  <1>4. \A c \in P : Ref(c) \notin DOMAIN ord
    <2> SUFFICES ASSUME NEW c \in P, Ref(c) \in DOMAIN journal PROVE FALSE
      BY DEF Inv, JournalInv
    <2>1. c \in Children /\ c.idx >= next[<<c.inst, c.side>>]
      BY <1>1, NextIndicesTyped DEF Inv
    <2>2. c.idx < next[<<c.inst, c.side>>] /\ next[<<c.inst, c.side>>] \in Nat
      BY <2>1 DEF FreshInv, Numbers, Ref, Inv, TypeOK, StoreTypeOK, Children
    <2> QED
      BY <2>1, <2>2 DEF Children
  <1>5. ASSUME NEW i \in Instruments, NEW s \in Sides
        PROVE  Within(P, DOMAIN ord, i, s, routed[<<i, s>>], Limit(i, s))
    <2>1. PICK x \in Nat, y \in Nat, o \in Nat, t \in Nat :
              x = routed[<<i, "buy">>] /\ y = routed[<<i, "sell">>] /\ o = opening[i] /\ t = target[i]
      BY DEF GapInv, Sides, Inv, TypeOK, StoreTypeOK
    <2>2. PICK d : d = Delta(target, Acct, i) /\ d = t - (o + x - y)
      BY <2>1, QuietAccount DEF Replans
    <2>3. x <= Limit(i, "buy") /\ y <= Limit(i, "sell")
      <3>1. /\ Within(plan, DOMAIN ord, i, "buy", x, Limit(i, "buy"))
            /\ Within(plan, DOMAIN ord, i, "sell", y, Limit(i, "sell"))
        BY <2>1 DEF UnsentInv, Sides
      <3>2. Limit(i, "buy") \in Int /\ Limit(i, "sell") \in Int
        BY LimitTyped DEF Sides
      <3> QED
        BY <3>1, <3>2, UnsentBound
    <2>4. Limit(i, "buy") = Greatest(t - o, 0) /\ Limit(i, "sell") = Greatest(o - t, 0)
      BY <2>1 DEF Limit
    <2>5. x + Greatest(d, 0) <= Limit(i, "buy") /\ y + Greatest(-d, 0) <= Limit(i, "sell")
      <3>1. CASE t >= o
        <4>1. Limit(i, "buy") = t - o /\ Limit(i, "sell") = 0
          BY <2>4, <3>1 DEF Greatest
        <4>2. y = 0 /\ d = t - (o + x) /\ d >= 0
          BY <2>2, <2>3, <4>1
        <4>3. Greatest(d, 0) = d /\ Greatest(-d, 0) = 0
          BY <4>2 DEF Greatest
        <4> QED
          BY <4>1, <4>2, <4>3
      <3>2. CASE t < o
        <4>1. Limit(i, "buy") = 0 /\ Limit(i, "sell") = o - t
          BY <2>4, <3>2 DEF Greatest
        <4>2. x = 0 /\ d = t - (o - y) /\ -d = o - t - y /\ -d >= 0
          BY <2>2, <2>3, <4>1
        <4>3. Greatest(d, 0) = 0 /\ Greatest(-d, 0) = -d
          BY <2>2, <4>2 DEF Greatest
        <4> QED
          BY <2>2, <4>1, <4>2, <4>3
      <3> QED
        BY <3>1, <3>2
    <2>6. CASE s = "buy"
      BY <1>2, <1>4, <2>1, <2>2, <2>5, <2>6, WithinFresh, LimitTyped
    <2>7. CASE s = "sell"
      BY <1>2, <1>4, <2>1, <2>2, <2>5, <2>7, WithinFresh, LimitTyped
    <2> QED
      BY <2>6, <2>7 DEF Sides
  <1>6. \A i, s : Limit(i, s)' = Limit(i, s)
    BY DEF Limit, Replans
  <1>7. plan' = P /\ ord' = ord /\ routed' = routed
    BY <1>1 DEF Replans
  <1> QED
    BY <1>3, <1>5, <1>6, <1>7 DEF UnsentInv

\* A step sends a child, makes a plan when nothing is loose, or leaves plan and
\* orders as they are.
LEMMA PlanSteps ==
    ASSUME Inv, LooseByPhase, [Next]_vars
    PROVE  \/ SubmitAccepted \/ Replans
           \/ UNCHANGED <<plan, routed, opening, target>> /\ DOMAIN ord' = DOMAIN ord
  <1>1. CASE Begin
    <2>1. /\ plan' = Plan(target, Acct, locked, next) /\ pc = "idle" /\ phase = "none"
          /\ UNCHANGED <<ord, routed, opening, target>>
      BY <1>1 DEF Begin, broker, history
    <2>2. DOMAIN ord = {}
      BY <2>1 DEF Inv, SideInv, OpenByPhase
    <2> QED
      BY <2>1, <2>2 DEF Replans, Loose
  <1>2. CASE AdvanceRefresh \/ FinalReconcile
    <2>1. /\ pc = "idle" /\ phase \in {"refreshing_account", "final_reconcile"}
          /\ UNCHANGED <<ord, routed, opening>>
      BY <1>2 DEF AdvanceRefresh, FinalReconcile, Routing, Ready, broker, history
    <2>2. Loose = {}
      BY <2>1 DEF LooseByPhase
    <2>3. PausePlan \/ Save("completed") \/ Refresh
      BY <1>2 DEF AdvanceRefresh, FinalReconcile
    <2>4. target' = target /\ (plan' = plan \/ plan' = Plan(target, Acct, locked, next))
      BY <2>3 DEF PausePlan, Save, Refresh
    <2> QED
      BY <2>1, <2>2, <2>4 DEF Replans
  <1>3. CASE AdvanceExpired \/ AdvanceBoundary \/ AdvanceShadow \/ AdvanceDisabled \/ AdvancePlanned
             \/ OperatorPause
    BY <1>3 DEF AdvanceExpired, AdvanceBoundary, AdvanceShadow, AdvanceDisabled, AdvancePlanned,
       OperatorPause, PausePlan, Save, broker, history
  <1>4. ASSUME NEW p, NEW side, NEW q, RouteStart(p, side, q) \/ RouteWait(p, side, q)
        PROVE  UNCHANGED <<plan, routed, opening, target, ord>>
    BY <1>4 DEF RouteStart, RouteWait, Save, broker, history
  <1>5. CASE \/ SubmitDenied \/ RouteAck \/ \E c \in todo : RouteSkip(c) \/ RouteJournal(c)
    BY <1>5 DEF SubmitDenied, RouteAck, RouteSkip, RouteJournal, store, broker, history
  <1>6. CASE BuyWait \/ SellWait \/ Recover
    BY <1>6 DEF BuyWait, SellWait, Wait, Recover, PausePlan, Save, broker, history
  <1>7. CASE Crash \/ CrashReporting \/ Restart
    BY <1>7 DEF Crash, CrashReporting, Die, Restart, store, broker, history
  <1>8. CASE Deliver \/ PollPositions \/ Expire \/ External \/ UNCHANGED vars
    BY <1>8 DEF Deliver, DeliverOrder, DeliverFills, PollPositions, Expire, External, vars,
       store, broker, history
  <1>9. CASE Broker
    <2>1. PICK r \in DOMAIN ord : \E o : BrokerMove(r, o)
      BY <1>9 DEF Broker, BrokerAccept, BrokerClose, BrokerFill
    <2> QED
      BY <2>1 DEF BrokerMove, store, history
  <1> QED
    BY <1>1, <1>2, <1>3, <1>4, <1>5, <1>6, <1>7, <1>8, <1>9 DEF Next, Advance

\* Every step keeps the orders within the target.
LEMMA UnsentStep ==
    ASSUME Inv, FreshInv, CountInv, LooseByPhase, GapInv, WorkInv, UnsentInv, [Next]_vars
    PROVE  UnsentInv'
  BY PlanSteps, UnsentSubmit, UnsentReplan, UnsentKept

PlanFirst ==
    /\ FirstUp
    /\ crashes = 0 => /\ LastInv /\ LooseByPhase /\ CountInv /\ FreshInv
                      /\ GapInv /\ WorkInv /\ UnsentInv

\* The orders of a plan never trade an instrument beyond its target: over all
\* replans of the process that began it the volume sent for a side stays within
\* the distance from the opening book to the target, so _refresh never orders
\* again what is filled and not yet reported; for a gateway that applies a fill
\* before the order report that counts it and whose positions never overtake a fill,
\* as the paper broker, which pushes them after the trade.
THEOREM NothingOrderedTwice ==
    ASSUME FillsFirst = TRUE, "poll" \notin Disturbances
    PROVE  Spec => []NoDuplicateOrder
  <1>1. Init => PlanFirst
    <2>1. Init => LooseByPhase /\ FreshInv /\ FirstUp
      BY EmptyDomain DEF Init, LooseByPhase, FreshInv, Numbers, PlanRefs, FirstUp
    <2> QED
      BY <2>1, LastInit, CountInit, GapInit, WorkInit, UnsentInit DEF PlanFirst
  <1>2. Inv /\ PlanFirst => NoDuplicateOrder
    <2> SUFFICES ASSUME Inv, PlanFirst, crashes = 0, NEW i \in Instruments
                 PROVE  /\ routed[<<i, "buy">>] <= Limit(i, "buy")
                        /\ routed[<<i, "sell">>] <= Limit(i, "sell")
      BY DEF NoDuplicateOrder, Limit
    <2>0. GapInv /\ UnsentInv
      BY DEF PlanFirst
    <2>1. \A s \in Sides : /\ Within(plan, DOMAIN ord, i, s, routed[<<i, s>>], Limit(i, s))
                           /\ Limit(i, s) \in Int /\ routed[<<i, s>>] \in Nat
      BY <2>0, LimitTyped DEF UnsentInv
    <2>2. \A s \in Sides : routed[<<i, s>>] <= Limit(i, s)
      BY <2>1, UnsentBound
    <2> QED
      BY <2>2 DEF Sides
  <1>3. Inv /\ PlanFirst /\ [Next]_vars => PlanFirst'
    <2> SUFFICES ASSUME Inv, PlanFirst, [Next]_vars PROVE PlanFirst'
      OBVIOUS
    <2>1. FirstUp'
      BY FirstStays DEF PlanFirst
    <2>2. CASE crashes' = 0
      <3>1. /\ FirstStep /\ LastInv /\ LooseByPhase /\ CountInv /\ FreshInv
            /\ GapInv /\ WorkInv /\ UnsentInv
        BY <2>2, FirstStays DEF PlanFirst, FirstStep
      <3>2. LastInv' /\ LooseByPhase' /\ CountInv'
        BY <3>1, LastStep, LooseStep, CountStep
      <3>3. FreshInv' /\ WorkInv' /\ UnsentInv'
        BY <3>1, FreshStep, WorkStep, UnsentStep DEF Inv
      <3>4. GapInv'
        BY <3>1, GapStep DEF UnsentInv, Distinct
      <3> QED
        BY <2>1, <3>2, <3>3, <3>4 DEF PlanFirst
    <2>3. CASE crashes' # 0
      BY <2>1, <2>3 DEF PlanFirst
    <2> QED
      BY <2>2, <2>3
  <1> QED
    BY <1>1, <1>2, <1>3, InvInit, InvStep, PTL DEF Spec
=============================================================================
