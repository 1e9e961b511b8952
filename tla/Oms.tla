-------------------------------- MODULE Oms --------------------------------
(***************************************************************************)
(* The projection of the broker in the process: the gateway of the XTP     *)
(* family with its order cache (vendor_common.py), the dispatcher that     *)
(* serialises callbacks (dispatch.py, brokers/base.py), the OMS with the   *)
(* order FSM (oms.py, fsm/order_fsm.py) and the position book              *)
(* (position.py), fed by pushes, by the position poll and by the queries   *)
(* of RecoveryService.run (runtime.refresh_broker_state).                  *)
(*                                                                         *)
(* The counter is external: it pushes an order report when it accepts,     *)
(* rejects, cancels or completes an order and a trade report for every     *)
(* fill, and answers queries with its state at that moment; the SDK hands  *)
(* everything over in this order.                                          *)
(*                                                                         *)
(* Abstracted: one instrument that settles T+1; every order is for Volume  *)
(* lots and fills lot by lot; prices, cash and the account are left out;   *)
(* a callback is handled in one step (Execution splits it).                *)
(***************************************************************************)
EXTENDS Integers, Sequences, SequencesExt

CONSTANTS
    Buys, Sells,   \* orders
    Volume,        \* lots of an order
    Held,          \* lots held, and sellable, at the start of the day
    MaxQueue,      \* callbacks in the queue beyond which nothing more is posted
    MaxRecoveries, \* bound on the recoveries of a behaviour
    MaxRestarts    \* bound on restarts of the process

ASSUME OmsAssumption ==
    /\ Buys \cap Sells = {}
    /\ Volume \in Nat \ {0}
    /\ Held \in Nat
    /\ IsFiniteSet(Buys) /\ IsFiniteSet(Sells)
    /\ Cardinality(Sells) * Volume <= Held
    /\ MaxQueue \in Nat
    /\ MaxRecoveries \in Nat
    /\ MaxRestarts \in Nat

VARIABLES
    counter,   \* the broker: its orders, the holding and the sellable part
    local,     \* orders whose own record send_order has still to post
    queue,     \* callbacks in the queue of the dispatcher
    cache,     \* AShareVendorGateway.orders
    oms,       \* OMS: orders, trades and the position book
    asking,    \* queries of refresh_broker_state that are not answered
    recoveries, \* recoveries so far
    restarts   \* restarts so far

vars == <<counter, local, queue, cache, oms, asking, recoveries, restarts>>

Orders == Buys \cup Sells

Live == {"submitting", "nottraded", "parttraded"}

Over == {"alltraded", "cancelled", "rejected"}

Reports == [status: Live \cup Over, traded: 0..Volume + 1]

Unknown == [status |-> "none", traded |-> 0]

\* A fill is the k-th lot of an order.
Fills == Orders \X (1..Volume)

Books == [volume: Nat, yd: Nat, frozen: Nat]

Callbacks ==
         [kind: {"local"}, o: Orders]
    \cup [kind: {"order"}, o: Orders, report: Reports]
    \cup [kind: {"trade", "replay"}, fill: Fills]
    \cup [kind: {"position"}, book: Books]

\* order_fsm.ALLOWED
ALLOWED ==
    [none |-> Live \cup Over,
     submitting |-> Live \cup Over,
     nottraded |-> {"nottraded", "parttraded"} \cup Over,
     parttraded |-> {"parttraded"} \cup Over,
     alltraded |-> {}, cancelled |-> {}, rejected |-> {}]

\* The lots an order has still to trade; Order.remaining is their number.
Remaining(r) == r.traded + 1 .. Volume

\* The remaining volume of the sells that work, of a table of orders.
Frozen(orders) ==
    Cardinality({f \in Sells \X (1..Volume):
                     /\ orders[f[1]].status \in Live
                     /\ f[2] \in Remaining(orders[f[1]])})

NewOms == [orders |-> [o \in Orders |-> Unknown], trades |-> {},
           book |-> [volume |-> 0, yd |-> 0, frozen |-> 0]]

\* What the counter answers to query_position.
Position == [volume |-> counter.hold, yd |-> counter.yd,
             frozen |-> Frozen(counter.orders)]

TypeOK ==
    /\ counter \in [orders: [Orders -> Reports \cup {Unknown}], hold: Nat, yd: Nat]
    /\ local \subseteq Orders
    /\ queue \in Seq(Callbacks)
    /\ cache \in [Orders -> Reports \cup {Unknown}]
    /\ oms \in [orders: [Orders -> Reports \cup {Unknown}], trades: SUBSET Fills, book: Books]
    /\ asking \in Seq({"position", "orders", "trades"})
    /\ recoveries \in 0..MaxRecoveries
    /\ restarts \in 0..MaxRestarts

\* A process that has just connected: refresh_broker_state asks for the
\* positions, the orders and the trades of the day, in this order.
Init ==
    /\ counter = [orders |-> [o \in Orders |-> Unknown], hold |-> Held, yd |-> Held]
    /\ local = {}
    /\ queue = <<>>
    /\ cache = [o \in Orders |-> Unknown]
    /\ oms = NewOms
    /\ asking = <<"position", "orders", "trades">>
    /\ recoveries = 0
    /\ restarts = 0

-----------------------------------------------------------------------------
(***************************************************************************)
(* The OMS.                                                                *)
(***************************************************************************)

\* Mutant: reports are taken as they come.
OnOrderBare(m, o, report) ==
    LET orders == [m.orders EXCEPT ![o] = report]
    IN  [m EXCEPT !.orders = orders,
                  !.book.frozen = IF o \in Sells THEN Frozen(orders) ELSE @]

\* on_order: the FSM refuses what would go back; update_order.
OnOrder(m, o, report) ==
    IF report.status \notin ALLOWED[m.orders[o].status] THEN m
    ELSE LET orders == [m.orders EXCEPT ![o] = report]
         IN  [m EXCEPT !.orders = orders,
                       !.book.frozen = IF o \in Sells THEN Frozen(orders) ELSE @]

Less(n) == IF n > 0 THEN n - 1 ELSE 0

\* Mutant: a sell is not stopped at zero.
UpdateTradeBare(b, o) ==
    IF o \in Buys THEN [b EXCEPT !.volume = @ + 1]
    ELSE [b EXCEPT !.volume = @ - 1, !.yd = @ - 1]

\* PositionBook.update_trade: today's buys are not sellable today.
UpdateTrade(b, o) ==
    IF o \in Buys THEN [b EXCEPT !.volume = @ + 1]
    ELSE [b EXCEPT !.volume = Less(@), !.yd = Less(@)]

\* on_trade: each fill counts once.
OnTrade(m, fill) ==
    IF fill \in m.trades THEN m
    ELSE [m EXCEPT !.trades = @ \cup {fill}, !.book = UpdateTrade(@, fill[1])]

\* Mutant: the sellable part of the snapshot is not taken over.
OnPositionTotal(m, b) ==
    [m EXCEPT !.book = [volume |-> b.volume, yd |-> m.book.yd,
                        frozen |-> Max({Frozen(m.orders), b.frozen})]]

\* update_position: the snapshot replaces the totals; the frozen part of the
\* broker is a floor.
OnPosition(m, b) ==
    [m EXCEPT !.book = [volume |-> b.volume, yd |-> b.yd,
                        frozen |-> Max({Frozen(m.orders), b.frozen})]]

-----------------------------------------------------------------------------
(***************************************************************************)
(* The dispatch thread: the head of the queue.                             *)
(***************************************************************************)

Handle(kind) ==
    /\ queue # <<>>
    /\ Head(queue).kind = kind
    /\ queue' = Tail(queue)
    /\ UNCHANGED <<counter, local, asking, recoveries, restarts>>

\* _handle_local_order
HandleLocal ==
    LET o == Head(queue).o
        report == [status |-> "submitting", traded |-> 0]
    IN  /\ Handle("local")
        /\ cache' = [cache EXCEPT ![o] = report]
        /\ oms' = OnOrder(oms, o, report)

\* _handle_order_event
HandleOrder ==
    LET c == Head(queue)
    IN  /\ Handle("order")
        /\ cache' = [cache EXCEPT ![c.o] = c.report]
        /\ oms' = OnOrder(oms, c.o, c.report)

\* The cached order after one more lot.
OneMore(r) ==
    [status |-> IF r.traded + 1 < Volume THEN "parttraded" ELSE "alltraded",
     traded |-> r.traded + 1]

\* _handle_trade_event: the order of the cache and then the trade; without a
\* cached order only the trade.
HandleTrade ==
    LET fill == Head(queue).fill
        o == fill[1]
        known == cache[o].status # "none"
        report == OneMore(cache[o])
    IN  /\ Handle("trade")
        /\ cache' = IF known THEN [cache EXCEPT ![o] = report] ELSE cache
        /\ oms' = OnTrade(IF known THEN OnOrder(oms, o, report) ELSE oms, fill)

\* Mutant: a queried trade goes the way of a pushed one.
HandleReplayTrade ==
    LET fill == Head(queue).fill
        o == fill[1]
        known == cache[o].status # "none" /\ cache[o].traded <= Volume
        report == OneMore(cache[o])
    IN  /\ Handle("replay")
        /\ cache' = IF known THEN [cache EXCEPT ![o] = report] ELSE cache
        /\ oms' = OnTrade(IF known THEN OnOrder(oms, o, report) ELSE oms, fill)

\* _handle_trade_snapshot
HandleReplay ==
    /\ Handle("replay")
    /\ oms' = OnTrade(oms, Head(queue).fill)
    /\ UNCHANGED cache

\* _handle_position
HandlePosition ==
    /\ Handle("position")
    /\ oms' = OnPosition(oms, Head(queue).book)
    /\ UNCHANGED cache

-----------------------------------------------------------------------------
(***************************************************************************)
(* The process: orders, polls, recoveries, restarts.                       *)
(***************************************************************************)

OrderEvent(o, report) == [kind |-> "order", o |-> o, report |-> report]

\* send_order: the counter has the order; its id is known, and the record of
\* it posted, only when the call has returned.
Send(o) ==
    /\ counter.orders[o].status = "none"
    /\ counter' = [counter EXCEPT !.orders[o].status = "submitting"]
    /\ local' = local \cup {o}
    /\ UNCHANGED <<queue, cache, oms, asking, recoveries, restarts>>

PostLocal(o) ==
    /\ o \in local
    /\ Len(queue) < MaxQueue
    /\ local' = local \ {o}
    /\ queue' = Append(queue, [kind |-> "local", o |-> o])
    /\ UNCHANGED <<counter, cache, oms, asking, recoveries, restarts>>

\* The poll installed by SdkBrokerGateway.start; one answer at a time waits
\* in the queue.
Poll ==
    /\ Len(queue) < MaxQueue
    /\ \A i \in DOMAIN queue: queue[i].kind # "position"
    /\ queue' = Append(queue, [kind |-> "position", book |-> Position])
    /\ UNCHANGED <<counter, local, cache, oms, asking, recoveries, restarts>>

\* RecoveryService.run in a process that is up, for reconcile or reconnect.
Recover ==
    /\ recoveries < MaxRecoveries
    /\ asking = <<>>
    /\ recoveries' = recoveries + 1
    /\ asking' = <<"position", "orders", "trades">>
    /\ UNCHANGED <<counter, local, queue, cache, oms, restarts>>

\* The answer to the first query that is outstanding.
Reply(kind, callbacks) ==
    /\ asking # <<>>
    /\ Len(queue) < MaxQueue
    /\ Head(asking) = kind
    /\ asking' = Tail(asking)
    /\ queue' = queue \o callbacks
    /\ UNCHANGED <<counter, local, cache, oms, recoveries, restarts>>

ReplyPosition == Reply("position", <<[kind |-> "position", book |-> Position]>>)

ReplyOrders ==
    Reply("orders",
          SetToSeq({OrderEvent(o, counter.orders[o]):
                       o \in {p \in Orders: counter.orders[p].status # "none"}}))

ReplyTrades ==
    Reply("trades",
          SetToSeq({[kind |-> "replay", fill |-> f]:
                       f \in {g \in Fills: g[2] <= counter.orders[g[1]].traded}}))

\* A new process has an empty OMS and an empty cache; callbacks are lost.
Restart ==
    /\ restarts < MaxRestarts
    /\ restarts' = restarts + 1
    /\ local' = {}
    /\ queue' = <<>>
    /\ cache' = [o \in Orders |-> Unknown]
    /\ oms' = NewOms
    /\ asking' = <<"position", "orders", "trades">>
    /\ UNCHANGED <<counter, recoveries>>

-----------------------------------------------------------------------------
(***************************************************************************)
(* The counter.                                                            *)
(***************************************************************************)

\* An order comes to a state that is reported.
Becomes(o, status) ==
    /\ Len(queue) < MaxQueue
    /\ counter' = [counter EXCEPT !.orders[o].status = status]
    /\ queue' = Append(queue, OrderEvent(o, counter'.orders[o]))
    /\ UNCHANGED <<local, cache, oms, asking, recoveries, restarts>>

CounterAccept(o) == counter.orders[o].status = "submitting" /\ Becomes(o, "nottraded")

CounterReject(o) == counter.orders[o].status = "submitting" /\ Becomes(o, "rejected")

CounterCancel(o) ==
    counter.orders[o].status \in {"nottraded", "parttraded"} /\ Becomes(o, "cancelled")

\* A lot is traded; the last one is reported by the order too, before or after.
CounterFill(o, first) ==
    LET report == OneMore(counter.orders[o])
        trade == [kind |-> "trade", fill |-> <<o, report.traded>>]
        done == report.status = "alltraded"
    IN  /\ Len(queue) < MaxQueue
        /\ counter.orders[o].status \in {"nottraded", "parttraded"}
        /\ done \/ ~first
        /\ counter' = [orders |-> [counter.orders EXCEPT ![o] = report],
                       hold |-> IF o \in Buys THEN counter.hold + 1 ELSE counter.hold - 1,
                       yd |-> IF o \in Buys THEN counter.yd ELSE counter.yd - 1]
        /\ queue' = queue \o (CASE ~done -> <<trade>>
                                [] done /\ first -> <<OrderEvent(o, report), trade>>
                                [] OTHER -> <<trade, OrderEvent(o, report)>>)
        /\ UNCHANGED <<local, cache, oms, asking, recoveries, restarts>>

-----------------------------------------------------------------------------
Dispatch == HandleLocal \/ HandleOrder \/ HandleTrade \/ HandleReplay \/ HandlePosition

Answer == ReplyPosition \/ ReplyOrders \/ ReplyTrades

Counter(o) ==
    \/ CounterAccept(o)
    \/ CounterReject(o)
    \/ CounterCancel(o)
    \/ \E first \in BOOLEAN: CounterFill(o, first)

Next ==
    \/ Dispatch
    \/ Answer
    \/ \E o \in Orders: Send(o) \/ PostLocal(o) \/ Counter(o)
    \/ Poll
    \/ Recover
    \/ Restart

\* The dispatch thread and the timer of the poll run, send_order returns and
\* queries are answered.
Fairness ==
    /\ WF_vars(Dispatch)
    /\ WF_vars(Answer)
    /\ WF_vars(Poll)
    /\ \A o \in Orders: WF_vars(PostLocal(o))

Spec == Init /\ [][Next]_vars /\ Fairness

-----------------------------------------------------------------------------
(***************************************************************************)
(* Properties.                                                             *)
(***************************************************************************)

Quiet == queue = <<>> /\ asking = <<>> /\ local = {}

\* When every callback has been handled, an order is active in the OMS exactly
\* when it works at the broker, whatever the order of the own record, pushes
\* and answers, and across recoveries and restarts: a working order is never
\* out of reach of a cancellation (oms.on_order, order_fsm, vendor_common).
ActiveIsTrue ==
    Quiet => \A o \in Orders: oms.orders[o].status \in Live
                                  <=> counter.orders[o].status \in Live

\* The OMS never runs ahead of the broker: an order that is over in the OMS is
\* over at the broker, in the same way and with the same volume traded, and no
\* order has traded more in the OMS than at the broker.  A trade is applied to
\* the cached order as one lot more (_handle_trade_event), and a terminal state
\* is never left (order_fsm.ALLOWED), so a lot counted twice would close the
\* order for good while it still works.
NeverAhead ==
    \A o \in Orders:
        /\ oms.orders[o].status \in Over => oms.orders[o] = counter.orders[o]
        /\ oms.orders[o].traded <= counter.orders[o].traded

\* However often the process restarts and trades are replayed, the holding and
\* the part of it that can be sold come to agree with the broker for good: the
\* poll of the positions repairs them (position.update_position).
HoldingHeals ==
    <>[](oms.book.volume = counter.hold /\ oms.book.yd = counter.yd)
=============================================================================
