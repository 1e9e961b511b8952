----------------------------- MODULE OmsProofs -----------------------------
(***************************************************************************)
(* Theorems about Oms, for all orders, volumes, holdings and bounds.       *)
(***************************************************************************)
EXTENDS Oms, FiniteSetTheorems, SequenceTheorems, TLAPS

(***************************************************************************)
(* Queues.  A step takes the head or appends; what the invariant says of   *)
(* the queue concerns its elements and, in Before, pairs of elements in    *)
(* the order in which they wait.                                           *)
(***************************************************************************)
Elems(q) == { q[i] : i \in 1..Len(q) }

\* A cached order with t lots traded can take the k-th lot as its next one; the
\* last lot may come after the report that counts it.
Below(t, k) == t < k \/ (k = Volume /\ t <= Volume)

\* c may wait in front of d: a pushed trade follows what does not count it yet.
Before(c, d) ==
    d.kind = "trade" =>
        /\ c.kind = "order" /\ c.o = d.fill[1] => Below(c.report.traded, d.fill[2])
        /\ c.kind = "trade" /\ c.fill[1] = d.fill[1] => c.fill[2] < d.fill[2]

Follows(q, s) == \A c \in Elems(q), d \in Elems(s) : Before(c, d)

Ordered(q) == \A i, j \in 1..Len(q) : i < j => Before(q[i], q[j])

\* The head is handled.
LEMMA Popped ==
    ASSUME NEW S, NEW q \in Seq(S), q # <<>>
    PROVE  /\ Head(q) \in S /\ Tail(q) \in Seq(S)
           /\ Head(q) \in Elems(q) /\ Elems(q) \subseteq Elems(Tail(q)) \cup {Head(q)}
           /\ Elems(Tail(q)) \subseteq Elems(q)
           /\ Ordered(q) => Ordered(Tail(q)) /\ \A d \in Elems(Tail(q)) : Before(Head(q), d)
  <1>1. /\ Head(q) \in S /\ Tail(q) \in Seq(S) /\ Len(Tail(q)) = Len(q) - 1
        /\ \A i \in 1..Len(Tail(q)) : Tail(q)[i] = q[i + 1]
    BY HeadTailProperties
  <1>2. Len(q) \in Nat /\ Len(q) >= 1 /\ Head(q) = q[1]
    BY EmptySeq, LenProperties
  <1>3. PICK n \in Nat : n = Len(q) /\ n >= 1
    BY <1>2
  <1>4. PICK t : t = Tail(q) /\ Len(t) = n - 1 /\ \A i \in 1..(n - 1) : t[i] = q[i + 1]
    BY <1>1, <1>3
  <1>5. Head(q) \in Elems(q)
    BY <1>2, <1>3 DEF Elems
  <1>6. Elems(q) \subseteq Elems(t) \cup {Head(q)}
    <2> SUFFICES ASSUME NEW i \in 1..n, i # 1 PROVE q[i] \in Elems(t)
      BY <1>2, <1>3 DEF Elems
    <2>1. i - 1 \in 1..(n - 1) /\ (i - 1) + 1 = i
      BY <1>3
    <2> QED
      BY <1>4, <2>1 DEF Elems
  <1>7. Elems(t) \subseteq Elems(q)
    <2> SUFFICES ASSUME NEW i \in 1..(n - 1) PROVE t[i] \in Elems(q)
      BY <1>4 DEF Elems
    <2>1. i + 1 \in 1..n
      BY <1>3
    <2> QED
      BY <1>3, <1>4, <2>1 DEF Elems
  <1>8. ASSUME Ordered(q) PROVE Ordered(t) /\ \A d \in Elems(t) : Before(Head(q), d)
    <2>1. ASSUME NEW i \in 1..(n - 1), NEW j \in 1..(n - 1), i < j PROVE Before(t[i], t[j])
      <3>1. i + 1 \in 1..n /\ j + 1 \in 1..n /\ i + 1 < j + 1
        BY <1>3, <2>1
      <3> QED
        BY <1>3, <1>4, <1>8, <3>1 DEF Ordered
    <2>2. ASSUME NEW j \in 1..(n - 1) PROVE Before(Head(q), t[j])
      <3>1. 1 \in 1..n /\ j + 1 \in 1..n /\ 1 < j + 1
        BY <1>3
      <3> QED
        BY <1>2, <1>3, <1>4, <1>8, <3>1 DEF Ordered
    <2> QED
      BY <1>4, <2>1, <2>2 DEF Ordered, Elems
  <1> QED
    BY <1>1, <1>4, <1>5, <1>6, <1>7, <1>8

\* s is appended.
LEMMA Posted ==
    ASSUME NEW S, NEW q \in Seq(S), NEW s \in Seq(S)
    PROVE  /\ q \o s \in Seq(S)
           /\ Elems(q \o s) = Elems(q) \cup Elems(s)
           /\ Ordered(q) /\ Ordered(s) /\ Follows(q, s) => Ordered(q \o s)
  <1>1. PICK m \in Nat, n \in Nat : m = Len(q) /\ n = Len(s)
    BY LenProperties
  <1>2. PICK t : /\ t = q \o s /\ t \in Seq(S) /\ Len(t) = m + n
                 /\ \A i \in 1..(m + n) : t[i] = IF i <= m THEN q[i] ELSE s[i - m]
    <2>1. /\ q \o s \in Seq(S)
          /\ Len(q \o s) = Len(q) + Len(s)
          /\ \A i \in 1..Len(q) + Len(s) :
                 (q \o s)[i] = IF i <= Len(q) THEN q[i] ELSE s[i - Len(q)]
      BY ConcatProperties, Zenon
    <2> QED
      BY ONLY <1>1, <2>1, Zenon
  <1>3. \A i \in 1..m : t[i] = q[i]
    BY <1>1, <1>2
  <1>4. \A i \in 1..n : i + m \in 1..(m + n) /\ t[i + m] = s[i]
    BY <1>1, <1>2
  <1>5. \A i \in 1..(m + n) : i \in 1..m \/ (i - m \in 1..n /\ t[i] = s[i - m])
    BY <1>1, <1>2
  <1>6. Elems(t) = Elems(q) \cup Elems(s)
    <2>1. Elems(t) \subseteq Elems(q) \cup Elems(s)
      BY <1>1, <1>2, <1>3, <1>5 DEF Elems
    <2>2. Elems(q) \subseteq Elems(t)
      <3>1. \A i \in 1..m : i \in 1..(m + n)
        BY <1>1
      <3> QED
        BY <1>1, <1>2, <1>3, <3>1 DEF Elems
    <2>3. Elems(s) \subseteq Elems(t)
      BY <1>1, <1>2, <1>4 DEF Elems
    <2> QED
      BY <2>1, <2>2, <2>3
  <1>7. ASSUME Ordered(q), Ordered(s), Follows(q, s),
               NEW i \in 1..(m + n), NEW j \in 1..(m + n), i < j
        PROVE  Before(t[i], t[j])
    <2>1. CASE j \in 1..m
      BY <1>1, <1>3, <1>7, <2>1 DEF Ordered
    <2>2. CASE i \in 1..m /\ j \notin 1..m
      BY <1>1, <1>3, <1>5, <1>7, <2>2 DEF Elems, Follows
    <2>3. CASE i \notin 1..m
      <3>1. i - m \in 1..n /\ j - m \in 1..n /\ i - m < j - m /\ t[i] = s[i - m] /\ t[j] = s[j - m]
        <4>1. j \notin 1..m
          BY <1>1, <1>7, <2>3
        <4>2. /\ i - m \in 1..n /\ t[i] = s[i - m]
              /\ j - m \in 1..n /\ t[j] = s[j - m]
          BY <1>5, <1>7, <2>3, <4>1
        <4>3. i - m < j - m
          BY <1>1, <1>7
        <4> QED
          BY <4>2, <4>3
      <3> QED
        BY <1>1, <1>7, <3>1 DEF Ordered
    <2> QED
      BY <2>1, <2>2, <2>3
  <1> QED
    BY <1>2, <1>6, <1>7 DEF Ordered

\* SetToSeq lists a finite set.
LEMMA Listed ==
    ASSUME NEW S, IsFiniteSet(S)
    PROVE  SetToSeq(S) \in Seq(S) /\ Elems(SetToSeq(S)) = S
  <1>1. PICK n \in Nat : n = Cardinality(S) /\ ExistsBijection(1..n, S)
    BY FS_CardinalityType
  <1>2. PICK g : g \in Bijection(1..n, S)
    BY <1>1, Zenon DEF ExistsBijection
  <1>3. g \in [1..n -> S] /\ IsInjective(g)
    BY <1>2, Zenon DEF Bijection, Injection
  <1>4. PICK f : f = SetToSeq(S) /\ f \in [1..n -> S] /\ IsInjective(f)
    <2>1. SetToSeq(S) = CHOOSE h \in [1..n -> S] : IsInjective(h)
      BY <1>1 DEF SetToSeq
    <2>2. SetToSeq(S) \in [1..n -> S] /\ IsInjective(SetToSeq(S))
      BY <1>3, <2>1, Zenon
    <2> QED
      BY <2>2
  <1>5. f \in Seq(S) /\ Len(f) = n /\ DOMAIN f = 1..n
    BY <1>4, LenProperties, SeqDef
  <1>6. f \in Injection(1..n, S)
    BY <1>4, Zenon DEF Injection
  <1>7. Cardinality(1..n) = n
    <2>1. 1 \in Int /\ n \in Int
      OBVIOUS
    <2>2. Cardinality(1..n) = IF 1 > n THEN 0 ELSE n - 1 + 1
      BY <2>1, FS_Interval, Zenon
    <2> QED
      BY <2>2
  <1>8. f \in Surjection(1..n, S)
    BY <1>1, <1>6, <1>7, FS_Injection, Zenon
  <1>9. \A x \in S : \E i \in 1..n : f[i] = x
    BY <1>8, Zenon DEF Surjection
  <1> QED
    BY <1>4, <1>5, <1>9 DEF Elems

\* A list of callbacks among which there is no pushed trade.
LEMMA NoTrades ==
    ASSUME NEW S, NEW q \in Seq(S), NEW s \in Seq(S), Ordered(q),
           \A d \in Elems(s) : d.kind # "trade"
    PROVE  Ordered(q \o s)
  <1>1. Ordered(s) /\ Follows(q, s)
    BY DEF Ordered, Before, Elems, Follows
  <1> QED
    BY <1>1, Posted

-----------------------------------------------------------------------------
(***************************************************************************)
(* The inductive invariant.                                                *)
(***************************************************************************)

\* An order at the counter: it is complete exactly when every lot is traded.
Kept(r) ==
    /\ r.traded <= Volume
    /\ r.traded = Volume <=> r.status = "alltraded"
    /\ r.status = "none" => r.traded = 0

\* The sells that were filled, lot by lot.
Sold(c) == {f \in Sells \X (1..Volume) : f[2] <= c.orders[f[1]].traded}

\* What can be sold is what was held, less what was sold: a fill of a sell finds
\* a lot to take.
Covered(c) == c.yd + Cardinality(Sold(c)) = Held /\ c.yd <= c.hold

\* What a report says of an order.
Stated(r, told) ==
    /\ told.status # "none"
    /\ r.traded <= told.traded
    /\ r.traded = Volume => r.status \in Over
    /\ r.status \in Over => r = told

\* What a callback says was so when it was posted and the counter never goes back
\* on it: an order that is over stays as it is.
Faithful(c, orders) ==
    /\ c.kind = "local" => orders[c.o].status # "none"
    /\ c.kind = "order" => Stated(c.report, orders[c.o])
    /\ c.kind \in {"trade", "replay"} => c.fill[2] <= orders[c.fill[1]].traded

\* With t lots traded, an order can take the trades of it that wait.
Fits(q, o, t) == \A d \in Elems(q) : d.kind = "trade" /\ d.fill[1] = o => Below(t, d.fill[2])

\* An order of the cache: it can take every pushed trade that waits, and once it
\* counts every lot the OMS is closed to it.
Cached(o, q, cached, known, told) ==
    /\ Fits(q, o, cached.traded)
    /\ cached.traded <= told.traded \/ told.traded = Volume
    /\ cached.traded >= Volume => known.status \in Over

\* An order of the OMS, beside the counter's.
Behind(known, told) ==
    /\ known.status \in Over => known = told
    /\ known.traded <= told.traded
    /\ known.status # "none" => told.status # "none"

\* What the OMS does not know is on its way.
OnItsWay(o, q, own, asked, known, told) ==
    /\ told.status \in Live =>
          \/ known.status # "none"
          \/ o \in own
          \/ \E d \in Elems(q) : d.kind \in {"local", "order"} /\ d.o = o
          \/ "orders" \in Elems(asked)
    /\ told.status \in Over =>
          \/ known.status \in Over
          \/ \E d \in Elems(q) : d.kind = "order" /\ d.o = o /\ d.report.status \in Over
          \/ "orders" \in Elems(asked)

\* All of it for one order.
Tracked(o, q, own, asked, cached, known, told) ==
    /\ Kept(told)
    /\ o \in own => told.status # "none"
    /\ Cached(o, q, cached, known, told)
    /\ Behind(known, told)
    /\ OnItsWay(o, q, own, asked, known, told)

Safe(C, own, q, K, m, asked) ==
    /\ Covered(C)
    /\ Ordered(q)
    /\ \A c \in Elems(q) : Faithful(c, C.orders)
    /\ \A o \in Orders : Tracked(o, q, own, asked, K[o], m.orders[o], C.orders[o])

IInv == TypeOK /\ Safe(counter, local, queue, cache, oms, asking)

-----------------------------------------------------------------------------
(***************************************************************************)
(* Types.                                                                  *)
(***************************************************************************)
Entries == Reports \cup {Unknown}

OmsType == [orders: [Orders -> Entries], trades: SUBSET Fills, book: Books]

LEMMA Entry ==
    ASSUME NEW r \in Entries
    PROVE  /\ r.status \in Live \cup Over \cup {"none"} /\ r.traded \in 0..Volume + 1
           /\ r.status # "none" => r \in Reports
    BY OmsAssumption DEF Entries, Reports, Unknown, Live, Over

LEMMA Entries2 == Reports \subseteq Entries /\ Unknown \in Entries
    BY DEF Entries

LEMMA Same ==
    ASSUME NEW r \in Entries, NEW s \in Entries, r.status = s.status, r.traded = s.traded
    PROVE  r = s
    BY DEF Entries, Reports, Unknown

\* A record with these fields.
LEMMA Report ==
    ASSUME NEW a \in Live \cup Over, NEW n \in 0..Volume + 1
    PROVE  /\ [status |-> a, traded |-> n] \in Reports
           /\ [status |-> a, traded |-> n].status = a
           /\ [status |-> a, traded |-> n].traded = n
    BY DEF Reports

LEMMA CallbackFields ==
    ASSUME NEW c \in Callbacks
    PROVE  /\ c.kind = "local" => c.o \in Orders
           /\ c.kind = "order" => c.o \in Orders /\ c.report \in Reports
           /\ c.kind \in {"trade", "replay"} =>
                 c.fill \in Fills /\ c.fill[1] \in Orders /\ c.fill[2] \in 1..Volume
           /\ c.kind = "position" => c.book \in Books
  <1>1. CASE c \in [kind: {"local"}, o: Orders]
    BY <1>1
  <1>2. CASE c \in [kind: {"order"}, o: Orders, report: Reports]
    BY <1>2
  <1>3. CASE c \in [kind: {"trade", "replay"}, fill: Fills]
    BY <1>3 DEF Fills
  <1>4. CASE c \in [kind: {"position"}, book: Books]
    BY <1>4
  <1> QED
    BY <1>1, <1>2, <1>3, <1>4 DEF Callbacks

LEMMA CallbackTypes ==
    /\ \A o \in Orders : [kind |-> "local", o |-> o] \in Callbacks
    /\ \A o \in Orders, r \in Reports :
          OrderEvent(o, r) \in Callbacks /\ OrderEvent(o, r).kind = "order"
          /\ OrderEvent(o, r).o = o /\ OrderEvent(o, r).report = r
    /\ \A f \in Fills : /\ [kind |-> "trade", fill |-> f] \in Callbacks
                        /\ [kind |-> "replay", fill |-> f] \in Callbacks
    /\ \A b \in Books : [kind |-> "position", book |-> b] \in Callbacks
  <1>1. \A o \in Orders : [kind |-> "local", o |-> o] \in [kind: {"local"}, o: Orders]
    OBVIOUS
  <1>2. \A o \in Orders, r \in Reports :
           [kind |-> "order", o |-> o, report |-> r]
               \in [kind: {"order"}, o: Orders, report: Reports]
    OBVIOUS
  <1>3. \A f \in Fills, k \in {"trade", "replay"} :
           [kind |-> k, fill |-> f] \in [kind: {"trade", "replay"}, fill: Fills]
    OBVIOUS
  <1>4. \A b \in Books : [kind |-> "position", book |-> b] \in [kind: {"position"}, book: Books]
    OBVIOUS
  <1> QED
    BY <1>1, <1>2, <1>3, <1>4 DEF Callbacks, OrderEvent

\* The lots of the sells, of which there are not more than what is held.
LEMMA Lots ==
    /\ IsFiniteSet(Sells \X (1..Volume))
    /\ Cardinality(Sells \X (1..Volume)) \in Nat
    /\ Cardinality(Sells \X (1..Volume)) <= Held
  <1>1. PICK n \in Nat : n = Volume
    BY OmsAssumption
  <1>2. IsFiniteSet(1..n) /\ Cardinality(1..n) = n
    <2>1. 1 \in Int /\ n \in Int
      OBVIOUS
    <2>2. IsFiniteSet(1..n) /\ Cardinality(1..n) = IF 1 > n THEN 0 ELSE n - 1 + 1
      BY <2>1, FS_Interval, Zenon
    <2> QED
      BY <2>2
  <1>3. /\ IsFiniteSet(Sells \X (1..n))
        /\ Cardinality(Sells \X (1..n)) = Cardinality(Sells) * Cardinality(1..n)
    BY <1>2, OmsAssumption, FS_Product, Zenon
  <1>4. Cardinality(Sells \X (1..n)) \in Nat
    BY <1>3, FS_CardinalityType, Zenon
  <1>5. PICK k : k = Cardinality(Sells) * Volume
    OBVIOUS
  <1>6. Cardinality(Sells \X (1..n)) = k /\ k <= Held
    BY ONLY <1>1, <1>2, <1>3, <1>5, OmsAssumption, Zenon DEF OmsAssumption
  <1> QED
    BY ONLY <1>1, <1>3, <1>4, <1>6, Zenon

LEMMA FrozenType == \A orders : Frozen(orders) \in Nat
  <1> SUFFICES ASSUME NEW orders PROVE Frozen(orders) \in Nat
    OBVIOUS
  <1>1. PICK S : /\ Frozen(orders) = Cardinality(S) /\ S \in SUBSET (Sells \X (1..Volume))
    BY DEF Frozen
  <1>2. IsFiniteSet(S)
    BY <1>1, Lots, FS_Subset, Zenon
  <1> QED
    BY <1>1, <1>2, FS_CardinalityType, Zenon

\* What OnOrder does to the OMS: the report of an order is taken unless the FSM
\* refuses it.
Taken(known, report) == IF report.status \in ALLOWED[known.status] THEN report ELSE known

LEMMA OrderTaken ==
    ASSUME NEW m \in OmsType, NEW o \in Orders, NEW report \in Reports
    PROVE  /\ OnOrder(m, o, report) \in OmsType
           /\ OnOrder(m, o, report).orders[o] = Taken(m.orders[o], report)
           /\ \A p \in Orders \ {o} : OnOrder(m, o, report).orders[p] = m.orders[p]
  <1>1. CASE report.status \notin ALLOWED[m.orders[o].status]
    BY <1>1 DEF OnOrder, Taken
  <1>2. CASE report.status \in ALLOWED[m.orders[o].status]
    <2>1. PICK orders, f : /\ orders = [m.orders EXCEPT ![o] = report]
                           /\ f = IF o \in Sells THEN Frozen(orders) ELSE m.book.frozen
                           /\ OnOrder(m, o, report) =
                                [m EXCEPT !.orders = orders, !.book.frozen = f]
      BY <1>2 DEF OnOrder
    <2>2. orders \in [Orders -> Entries]
      BY <2>1, Entries2 DEF OmsType
    <2>3. f \in Nat
      <3>1. m.book.frozen \in Nat
        BY DEF OmsType, Books
      <3> QED
        BY <2>1, <3>1, FrozenType
    <2>4. [m EXCEPT !.orders = orders, !.book.frozen = f] \in OmsType
      BY <2>2, <2>3 DEF OmsType, Books
    <2>5. [m EXCEPT !.orders = orders, !.book.frozen = f].orders = orders
      BY DEF OmsType
    <2>6. orders[o] = report /\ \A p \in Orders \ {o} : orders[p] = m.orders[p]
      BY <2>1 DEF OmsType
    <2> QED
      BY <1>2, <2>1, <2>4, <2>5, <2>6 DEF Taken
  <1> QED
    BY <1>1, <1>2

LEMMA BookFields ==
    /\ \A b \in Books : b.volume \in Nat /\ b.yd \in Nat /\ b.frozen \in Nat
    /\ \A v \in Nat, y \in Nat, f \in Nat : [volume |-> v, yd |-> y, frozen |-> f] \in Books
    /\ \A b \in Books, v \in Nat : [b EXCEPT !.volume = v] \in Books
    /\ \A b \in Books, v \in Nat, y \in Nat : [b EXCEPT !.volume = v, !.yd = y] \in Books
    BY DEF Books

LEMMA TradeTaken ==
    ASSUME NEW m \in OmsType, NEW f \in Fills
    PROVE  OnTrade(m, f) \in OmsType /\ OnTrade(m, f).orders = m.orders
  <1>1. m.book \in Books
    BY DEF OmsType
  <1>2. \A n \in Nat : n + 1 \in Nat /\ Less(n) \in Nat
    BY DEF Less
  <1>3. PICK b : b = UpdateTrade(m.book, f[1]) /\ b \in Books
    <2>1. CASE f[1] \in Buys
      <3>1. PICK v \in Nat : v = m.book.volume + 1
        BY <1>1, <1>2, BookFields
      <3>2. UpdateTrade(m.book, f[1]) = [m.book EXCEPT !.volume = v]
        BY <2>1, <3>1 DEF UpdateTrade
      <3> QED
        BY <1>1, <3>2, BookFields
    <2>2. CASE f[1] \notin Buys
      <3>1. PICK v \in Nat, y \in Nat : v = Less(m.book.volume) /\ y = Less(m.book.yd)
        BY <1>1, <1>2, BookFields
      <3>2. UpdateTrade(m.book, f[1]) = [m.book EXCEPT !.volume = v, !.yd = y]
        BY <2>2, <3>1 DEF UpdateTrade
      <3> QED
        BY <1>1, <3>2, BookFields
    <2> QED
      BY <2>1, <2>2
  <1>4. PICK n : n = [m EXCEPT !.trades = @ \cup {f}, !.book = b]
    OBVIOUS
  <1>5. n \in OmsType /\ n.orders = m.orders
    BY <1>3, <1>4 DEF OmsType
  <1>6. OnTrade(m, f) \in {m, n}
    BY <1>3, <1>4 DEF OnTrade
  <1> QED
    BY <1>5, <1>6

LEMMA PositionTaken ==
    ASSUME NEW m \in OmsType, NEW b \in Books
    PROVE  OnPosition(m, b) \in OmsType /\ OnPosition(m, b).orders = m.orders
  <1>1. PICK x \in Nat, y \in Nat : x = Frozen(m.orders) /\ y = b.frozen
    BY FrozenType DEF Books
  <1>2. Max({x, y}) \in Nat
    <2>1. \E n \in {x, y} : \A k \in {x, y} : n >= k
      OBVIOUS
    <2>2. Max({x, y}) \in {x, y}
      BY <2>1 DEF Max
    <2> QED
      BY <2>2
  <1>3. PICK c : c = [volume |-> b.volume, yd |-> b.yd, frozen |-> Max({x, y})] /\ c \in Books
    BY <1>2, BookFields
  <1>4. OnPosition(m, b) = [m EXCEPT !.book = c]
    BY <1>1, <1>3 DEF OnPosition
  <1> QED
    BY <1>3, <1>4 DEF OmsType

-----------------------------------------------------------------------------
(***************************************************************************)
(* One order under the steps.                                              *)
(***************************************************************************)

\* The FSM never leaves a terminal state and always takes one.
LEMMA FSM ==
    ASSUME NEW known \in Entries, NEW r \in Reports
    PROVE  /\ Taken(known, r) \in {known, r}
           /\ known.status \in Over => Taken(known, r) = known
           /\ Taken(known, r).status # "none"
           /\ r.status \in Over => Taken(known, r).status \in Over
  <1>1. known.status \in Live \cup Over \cup {"none"} /\ r.status \in Live \cup Over
    BY Entry DEF Reports
  <1>2. /\ known.status \in Over => ALLOWED[known.status] = {}
        /\ known.status = "none" => ALLOWED[known.status] = Live \cup Over
        /\ known.status \notin Over => Over \subseteq ALLOWED[known.status]
    BY <1>1 DEF ALLOWED, Live, Over
  <1> QED
    BY <1>1, <1>2 DEF Taken, Live, Over

\* An order the handled callback says nothing of.
LEMMA Elsewhere ==
    ASSUME NEW S, NEW q \in Seq(S), q # <<>>, NEW p, NEW own, NEW asked,
           NEW cached, NEW known, NEW told,
           Cached(p, q, cached, known, told), OnItsWay(p, q, own, asked, known, told),
           Head(q).kind \in {"local", "order"} => Head(q).o # p
    PROVE  /\ Cached(p, Tail(q), cached, known, told)
           /\ OnItsWay(p, Tail(q), own, asked, known, told)
  <1>1. Elems(q) \subseteq Elems(Tail(q)) \cup {Head(q)} /\ Elems(Tail(q)) \subseteq Elems(q)
    BY Popped, Zenon
  <1>2. Cached(p, Tail(q), cached, known, told)
    BY <1>1 DEF Cached, Fits
  <1>3. \A d \in Elems(q) : d.kind \in {"local", "order"} /\ d.o = p => d \in Elems(Tail(q))
    BY <1>1
  <1>4. OnItsWay(p, Tail(q), own, asked, known, told)
    BY <1>3 DEF OnItsWay
  <1> QED
    BY <1>2, <1>4

\* A report r of order o is handled; q is what waits behind it.
LEMMA Reported ==
    ASSUME NEW q, NEW o, NEW known \in Entries, NEW told \in Entries, NEW r \in Reports,
           Behind(known, told), Kept(told), Stated(r, told), Fits(q, o, r.traded)
    PROVE  Cached(o, q, r, Taken(known, r), told) /\ Behind(Taken(known, r), told)
  <1>1. PICK k : /\ k = Taken(known, r) /\ k \in {known, r} /\ k.status # "none"
                 /\ known.status \in Over => k = known
                 /\ r.status \in Over => k.status \in Over
    BY FSM
  <1>2. r.traded \in 0..Volume + 1 /\ told.traded \in 0..Volume + 1 /\ Volume \in Nat
    BY Entry, Entries2, OmsAssumption
  <1>3. Behind(k, told)
    BY <1>1 DEF Behind, Stated
  <1>4. r.traded >= Volume => r.traded = Volume
    BY <1>2 DEF Kept, Stated
  <1>5. Cached(o, q, r, k, told)
    BY <1>1, <1>4 DEF Cached, Stated
  <1> QED
    BY <1>1, <1>3, <1>5

\* An order of which a callback was handled that tells what state it is in.
LEMMA Arrived ==
    ASSUME NEW S, NEW q \in Seq(S), q # <<>>, NEW o, NEW own, NEW asked,
           NEW known \in Entries, NEW told, NEW r \in Reports,
           OnItsWay(o, q, own, asked, known, told),
           Head(q).kind = "order" /\ Head(q).o = o => Head(q).report = r
    PROVE  OnItsWay(o, Tail(q), own, asked, Taken(known, r), told)
  <1>1. Elems(q) \subseteq Elems(Tail(q)) \cup {Head(q)}
    BY Popped, Zenon
  <1>2. PICK k : /\ k = Taken(known, r) /\ k.status # "none"
                 /\ known.status \in Over => k = known
                 /\ r.status \in Over => k.status \in Over
    BY FSM
  <1>3. ASSUME NEW d \in Elems(q), d.kind = "order" /\ d.o = o /\ d.report.status \in Over
        PROVE  d \in Elems(Tail(q)) \/ k.status \in Over
    BY <1>1, <1>2, <1>3
  <1>4. ASSUME told.status \in Over
        PROVE  \/ k.status \in Over
               \/ \E d \in Elems(Tail(q)) : d.kind = "order" /\ d.o = o /\ d.report.status \in Over
               \/ "orders" \in Elems(asked)
    BY <1>2, <1>3, <1>4 DEF OnItsWay
  <1>5. OnItsWay(o, Tail(q), own, asked, k, told)
    BY <1>2, <1>4 DEF OnItsWay
  <1> QED
    BY <1>2, <1>5

\* The trades of o that wait are of later lots than k.
Later(q, o, k) ==
    \A d \in Elems(q) : d.kind = "trade" /\ d.fill[1] = o => d.fill[2] \in 1..Volume /\ k < d.fill[2]

\* One more lot of a cached order that can take it.
LEMMA Lot ==
    ASSUME NEW q, NEW o, NEW cached \in Entries, NEW known \in Entries, NEW told \in Entries,
           NEW k \in 1..Volume, Below(cached.traded, k), k <= told.traded,
           Behind(known, told), Kept(told), cached.traded >= Volume => known.status \in Over,
           Later(q, o, k)
    PROVE  /\ OneMore(cached) \in Reports
           /\ Cached(o, q, OneMore(cached), Taken(known, OneMore(cached)), told)
           /\ Behind(Taken(known, OneMore(cached)), told)
  <1>1. PICK v \in Nat : v = Volume /\ v > 0
    BY OmsAssumption
  <1>2. PICK t \in 0..v + 1 : t = cached.traded
    BY <1>1, Entry
  <1>3. k \in 1..v /\ (t < k \/ (k = v /\ t = v)) /\ t + 1 \in 0..v + 1
    BY <1>1, <1>2 DEF Below
  <1>4. PICK a : a = IF t + 1 < v THEN "parttraded" ELSE "alltraded"
    OBVIOUS
  <1>5. PICK r : /\ r = OneMore(cached) /\ r \in Reports /\ r.status = a /\ r.traded = t + 1
    <2>1. OneMore(cached) = [status |-> a, traded |-> t + 1]
      BY <1>1, <1>2, <1>4 DEF OneMore
    <2>2. a \in Live \cup Over /\ t + 1 \in 0..Volume + 1
      BY <1>1, <1>3, <1>4 DEF Live, Over
    <2> QED
      BY <2>1, <2>2, Report
  <1>6. PICK s \in 0..v : s = told.traded /\ k <= s /\ told.status # "none"
                          /\ (s = v => told.status = "alltraded")
    <2>1. told.traded \in 0..v + 1 /\ told.traded <= v
      BY <1>1, Entry DEF Kept
    <2> QED
      BY <1>1, <1>3, <2>1 DEF Kept
  <1>7. Fits(q, o, t + 1)
    <2> SUFFICES ASSUME NEW d \in Elems(q), d.kind = "trade" /\ d.fill[1] = o
                 PROVE  Below(t + 1, d.fill[2])
      BY DEF Fits
    <2>1. PICK e \in 1..v : e = d.fill[2] /\ k < e
      BY <1>1 DEF Later
    <2>2. t + 1 < e
      BY <1>3, <2>1
    <2> QED
      BY <2>1, <2>2 DEF Below
  <1>8. CASE t < k
    <2>1. t + 1 <= s /\ (t + 1 >= v => t + 1 = v /\ s = v)
      BY <1>3, <1>6, <1>8
    <2>2. ASSUME r.status \in Over PROVE r = told
      <3>1. t + 1 >= v /\ a = "alltraded"
        BY <1>4, <1>5, <1>3, <2>2 DEF Over
      <3>2. r.traded = told.traded /\ r.status = told.status
        BY <1>5, <1>6, <2>1, <3>1
      <3> QED
        BY <1>5, <3>2, Same, Entries2
    <2>3. Stated(r, told)
      BY <1>1, <1>4, <1>5, <1>6, <2>1, <2>2 DEF Over, Stated
    <2>4. Fits(q, o, r.traded)
      BY <1>5, <1>7
    <2>5. Cached(o, q, r, Taken(known, r), told) /\ Behind(Taken(known, r), told)
      BY <1>5, <2>3, <2>4, Reported
    <2> QED
      BY <1>5, <2>5
  <1>9. CASE k = v /\ t = v
    <2>1. known.status \in Over /\ Taken(known, r) = known
      BY <1>1, <1>2, <1>5, <1>9, FSM
    <2>2. told.traded = Volume
      BY <1>1, <1>6, <1>9
    <2>3. Cached(o, q, r, known, told)
      BY <1>5, <1>7, <2>1, <2>2 DEF Cached
    <2> QED
      BY <1>5, <2>1, <2>3
  <1> QED
    BY <1>3, <1>8, <1>9

-----------------------------------------------------------------------------
(***************************************************************************)
(* The counter moves on: an order that is not over gets a state in which   *)
(* it is known and has traded no less.                                     *)
(***************************************************************************)
CounterType == [orders: [Orders -> Entries], hold: Nat, yd: Nat]

Grows(old, new) ==
    \A p \in Orders :
        \/ new[p] = old[p]
        \/ /\ old[p].status \notin Over /\ new[p].status # "none"
           /\ old[p].traded <= new[p].traded

LEMMA StaysFaithful ==
    ASSUME NEW c \in Callbacks, NEW old \in [Orders -> Entries], NEW new \in [Orders -> Entries],
           Grows(old, new), Faithful(c, old)
    PROVE  Faithful(c, new)
  <1>1. ASSUME c.kind = "local" PROVE new[c.o].status # "none"
    <2>1. c.o \in Orders /\ old[c.o].status # "none"
      BY <1>1, CallbackFields DEF Faithful
    <2> QED
      BY <2>1 DEF Grows
  <1>2. ASSUME c.kind = "order" PROVE Stated(c.report, new[c.o])
    <2>1. c.o \in Orders /\ c.report \in Reports /\ Stated(c.report, old[c.o])
      BY <1>2, CallbackFields DEF Faithful
    <2>2. PICK x \in Nat, y \in Nat, z \in Nat :
             x = c.report.traded /\ y = old[c.o].traded /\ z = new[c.o].traded
      BY <2>1, Entry, Entries2, OmsAssumption
    <2> QED
      BY <2>1, <2>2 DEF Stated, Grows
  <1>3. ASSUME c.kind \in {"trade", "replay"} PROVE c.fill[2] <= new[c.fill[1]].traded
    <2>1. /\ c.fill[1] \in Orders /\ c.fill[2] \in 1..Volume
          /\ c.fill[2] <= old[c.fill[1]].traded
      BY <1>3, CallbackFields DEF Faithful
    <2>2. PICK x \in Nat, y \in Nat, z \in Nat :
             x = c.fill[2] /\ y = old[c.fill[1]].traded /\ z = new[c.fill[1]].traded
      BY <2>1, Entry, OmsAssumption
    <2> QED
      BY <2>1, <2>2 DEF Grows
  <1> QED
    BY <1>1, <1>2, <1>3 DEF Faithful

LEMMA Advanced ==
    ASSUME NEW o, NEW q, NEW cached \in Entries, NEW known \in Entries,
           NEW told \in Entries, NEW new \in Entries, Kept(told),
           Cached(o, q, cached, known, told), Behind(known, told),
           told.status \notin Over, new.status # "none", told.traded <= new.traded
    PROVE  Cached(o, q, cached, known, new) /\ Behind(known, new)
  <1>1. PICK x \in Nat, y \in Nat, z \in Nat, k \in Nat :
           x = cached.traded /\ y = told.traded /\ z = new.traded /\ k = known.traded
    BY Entry, OmsAssumption
  <1>2. told.traded # Volume
    BY DEF Kept, Over
  <1>3. Cached(o, q, cached, known, new)
    BY <1>1, <1>2 DEF Cached
  <1>4. Behind(known, new)
    BY <1>1 DEF Behind
  <1> QED
    BY <1>3, <1>4

\* The queue gets longer.
LEMMA Longer ==
    ASSUME NEW o, NEW q, NEW r, Elems(q) \subseteq Elems(r),
           NEW own, NEW asked, NEW known, NEW told, OnItsWay(o, q, own, asked, known, told)
    PROVE  OnItsWay(o, r, own, asked, known, told)
    BY DEF OnItsWay

\* ... by no trade of order o.
LEMMA LongerCached ==
    ASSUME NEW o, NEW q, NEW r,
           \A d \in Elems(r) : d.kind = "trade" /\ d.fill[1] = o => d \in Elems(q),
           NEW cached, NEW known, NEW told, Cached(o, q, cached, known, told)
    PROVE  Cached(o, r, cached, known, told)
    BY DEF Cached, Fits

-----------------------------------------------------------------------------
(***************************************************************************)
(* The dispatch thread.                                                    *)
(***************************************************************************)

\* Nothing but the entry of o changes.
Only(o, old, new) == \A p \in Orders \ {o} : new[p] = old[p]

\* A callback of order o is handled.
LEMMA Dispatched ==
    ASSUME NEW C, NEW own, NEW q \in Seq(Callbacks), q # <<>>, NEW K, NEW m, NEW asked,
           Safe(C, own, q, K, m, asked), NEW K2, NEW m2, NEW o \in Orders,
           Only(o, K, K2), Only(o, m.orders, m2.orders),
           Head(q).kind \in {"local", "order"} => Head(q).o = o,
           Cached(o, Tail(q), K2[o], m2.orders[o], C.orders[o]),
           Behind(m2.orders[o], C.orders[o]),
           OnItsWay(o, Tail(q), own, asked, m2.orders[o], C.orders[o])
    PROVE  Safe(C, own, Tail(q), K2, m2, asked)
  <1>1. Ordered(Tail(q)) /\ \A c \in Elems(Tail(q)) : Faithful(c, C.orders)
    BY Popped DEF Safe
  <1>2. ASSUME NEW p \in Orders
        PROVE  Tracked(p, Tail(q), own, asked, K2[p], m2.orders[p], C.orders[p])
    <2>1. Tracked(p, q, own, asked, K[p], m.orders[p], C.orders[p])
      BY DEF Safe
    <2>2. CASE p = o
      BY <2>1, <2>2 DEF Tracked
    <2>3. CASE p # o
      <3>1. /\ Cached(p, Tail(q), K[p], m.orders[p], C.orders[p])
            /\ OnItsWay(p, Tail(q), own, asked, m.orders[p], C.orders[p])
        BY <2>1, <2>3, Elsewhere DEF Tracked
      <3> QED
        BY <2>1, <2>3, <3>1 DEF Tracked, Only
    <2> QED
      BY <2>2, <2>3
  <1> QED
    BY <1>1, <1>2 DEF Safe

\* A callback that concerns no order is handled.
LEMMA Passed ==
    ASSUME NEW C, NEW own, NEW q \in Seq(Callbacks), q # <<>>, NEW K, NEW m, NEW asked,
           Safe(C, own, q, K, m, asked), NEW m2, m2.orders = m.orders,
           Head(q).kind \notin {"local", "order"}
    PROVE  Safe(C, own, Tail(q), K, m2, asked)
  <1>1. Ordered(Tail(q)) /\ \A c \in Elems(Tail(q)) : Faithful(c, C.orders)
    BY Popped DEF Safe
  <1>2. ASSUME NEW p \in Orders
        PROVE  Tracked(p, Tail(q), own, asked, K[p], m2.orders[p], C.orders[p])
    <2>1. Tracked(p, q, own, asked, K[p], m.orders[p], C.orders[p])
      BY DEF Safe
    <2>2. /\ Cached(p, Tail(q), K[p], m.orders[p], C.orders[p])
          /\ OnItsWay(p, Tail(q), own, asked, m.orders[p], C.orders[p])
      BY <2>1, Elsewhere DEF Tracked
    <2> QED
      BY <2>1, <2>2 DEF Tracked
  <1> QED
    BY <1>1, <1>2 DEF Safe

-----------------------------------------------------------------------------
(***************************************************************************)
(* The steps of the dispatch thread.                                       *)
(***************************************************************************)
Queries == {"position", "orders", "trades"}

Typed(C, own, q, K, m, asked, n, k) ==
    /\ C \in CounterType
    /\ own \subseteq Orders
    /\ q \in Seq(Callbacks)
    /\ K \in [Orders -> Entries]
    /\ m \in OmsType
    /\ asked \in Seq(Queries)
    /\ n \in 0..MaxRecoveries
    /\ k \in 0..MaxRestarts

LEMMA Types ==
    /\ TypeOK <=> Typed(counter, local, queue, cache, oms, asking, recoveries, restarts)
    /\ TypeOK' <=> Typed(counter', local', queue', cache', oms', asking', recoveries', restarts')
    BY DEF TypeOK, Typed, CounterType, OmsType, Entries, Queries

LEMMA CounterFields ==
    ASSUME NEW C \in CounterType
    PROVE  C.orders \in [Orders -> Entries] /\ C.hold \in Nat /\ C.yd \in Nat
    BY DEF CounterType

LEMMA OmsOrders ==
    ASSUME NEW m \in OmsType
    PROVE  m.orders \in [Orders -> Entries]
    BY DEF OmsType

\* What is true of the head, and what waits behind it.
LEMMA AtHead ==
    ASSUME NEW C, NEW own, NEW q \in Seq(Callbacks), q # <<>>, NEW K, NEW m, NEW asked,
           Safe(C, own, q, K, m, asked)
    PROVE  /\ Head(q) \in Callbacks /\ Faithful(Head(q), C.orders)
           /\ Elems(Tail(q)) \subseteq Callbacks
           /\ \A d \in Elems(Tail(q)) : Before(Head(q), d)
           /\ Tail(q) \in Seq(Callbacks)
  <1>1. /\ Head(q) \in Callbacks /\ Tail(q) \in Seq(Callbacks) /\ Head(q) \in Elems(q)
        /\ Elems(Tail(q)) \subseteq Elems(q)
        /\ \A d \in Elems(Tail(q)) : Before(Head(q), d)
    BY Popped DEF Safe
  <1>2. Elems(Tail(q)) \subseteq Callbacks
    <2>1. \A i \in 1..Len(Tail(q)) : Tail(q)[i] \in Callbacks
      BY <1>1, ElementOfSeq
    <2> QED
      BY <2>1 DEF Elems
  <1> QED
    BY <1>1, <1>2 DEF Safe

\* A pushed report, or the own record of an order, is handled.
LEMMA OrderStep ==
    ASSUME NEW C \in CounterType, NEW own, NEW q \in Seq(Callbacks), q # <<>>,
           NEW K \in [Orders -> Entries], NEW m \in OmsType, NEW asked,
           Safe(C, own, q, K, m, asked), NEW o \in Orders, NEW r \in Reports,
           Head(q).kind = "order" => Head(q).report = r,
           Head(q).kind \in {"local", "order"} /\ Head(q).o = o,
           Stated(r, C.orders[o]), Fits(Tail(q), o, r.traded)
    PROVE  Safe(C, own, Tail(q), [K EXCEPT ![o] = r], OnOrder(m, o, r), asked)
  <1>1. PICK K2, m2 : K2 = [K EXCEPT ![o] = r] /\ m2 = OnOrder(m, o, r)
    OBVIOUS
  <1>2. /\ m2 \in OmsType /\ m2.orders[o] = Taken(m.orders[o], r)
        /\ \A p \in Orders \ {o} : m2.orders[p] = m.orders[p]
    BY <1>1, OrderTaken
  <1>3. K2[o] = r /\ \A p \in Orders \ {o} : K2[p] = K[p]
    BY <1>1
  <1>4. PICK known \in Entries, told \in Entries :
           /\ known = m.orders[o] /\ told = C.orders[o]
           /\ Tracked(o, q, own, asked, K[o], known, told)
    BY CounterFields, OmsOrders DEF Safe
  <1>5. Cached(o, Tail(q), r, Taken(known, r), told) /\ Behind(Taken(known, r), told)
    BY <1>4, Reported DEF Tracked
  <1>6. OnItsWay(o, Tail(q), own, asked, Taken(known, r), told)
    BY <1>4, Arrived DEF Tracked
  <1>7. Safe(C, own, Tail(q), K2, m2, asked)
    <2>1. Only(o, K, K2) /\ Only(o, m.orders, m2.orders)
      BY <1>2, <1>3 DEF Only
    <2> QED
      BY <1>2, <1>3, <1>4, <1>5, <1>6, <2>1, Dispatched
  <1> QED
    BY <1>1, <1>7

\* A pushed trade of an order of the cache is handled.
LEMMA TradeStep ==
    ASSUME NEW C \in CounterType, NEW own, NEW q \in Seq(Callbacks), q # <<>>,
           NEW K \in [Orders -> Entries], NEW m \in OmsType, NEW asked,
           Safe(C, own, q, K, m, asked), NEW f \in Fills, NEW o \in Orders, f[1] = o,
           Head(q).kind = "trade" /\ Head(q).fill = f,
           NEW m2, m2.orders = OnOrder(m, o, OneMore(K[o])).orders
    PROVE  /\ OneMore(K[o]) \in Reports
           /\ Safe(C, own, Tail(q), [K EXCEPT ![o] = OneMore(K[o])], m2, asked)
  <1>1. PICK r, K2 : r = OneMore(K[o]) /\ K2 = [K EXCEPT ![o] = r]
    OBVIOUS
  <1>2. PICK cached \in Entries, known \in Entries, told \in Entries :
           /\ cached = K[o] /\ known = m.orders[o] /\ told = C.orders[o]
           /\ Tracked(o, q, own, asked, cached, known, told)
    BY CounterFields, OmsOrders DEF Safe
  <1>3. PICK k \in 1..Volume : k = f[2]
    BY DEF Fills
  <1>4. k <= told.traded
    BY <1>2, <1>3, AtHead DEF Faithful
  <1>5. Head(q) \in Elems(q)
    BY Popped, Zenon
  <1>6. Below(cached.traded, k)
    BY <1>2, <1>3, <1>5 DEF Tracked, Cached, Fits
  <1>7. Later(Tail(q), o, k)
    <2> SUFFICES ASSUME NEW d \in Elems(Tail(q)), d.kind = "trade" /\ d.fill[1] = o
                 PROVE  d.fill[2] \in 1..Volume /\ k < d.fill[2]
      BY DEF Later
    <2>1. d \in Callbacks /\ Before(Head(q), d)
      BY AtHead
    <2> QED
      BY <1>3, <2>1, CallbackFields DEF Before
  <1>8. /\ r \in Reports
        /\ Cached(o, Tail(q), r, Taken(known, r), told)
        /\ Behind(Taken(known, r), told)
    <2>1. Kept(told) /\ Behind(known, told) /\ (cached.traded >= Volume => known.status \in Over)
      BY <1>2 DEF Tracked, Cached
    <2>2. r = OneMore(cached)
      BY <1>1, <1>2
    <2> QED
      BY <1>4, <1>6, <1>7, <2>1, <2>2, Lot
  <1>9. m2.orders[o] = Taken(known, r) /\ \A p \in Orders \ {o} : m2.orders[p] = m.orders[p]
    BY <1>1, <1>2, <1>8, OrderTaken
  <1>10. OnItsWay(o, Tail(q), own, asked, Taken(known, r), told)
    BY <1>2, <1>8, Arrived DEF Tracked
  <1>11. K2[o] = r /\ \A p \in Orders \ {o} : K2[p] = K[p]
    BY <1>1
  <1>12. Safe(C, own, Tail(q), K2, m2, asked)
    <2>1. Only(o, K, K2) /\ Only(o, m.orders, m2.orders)
      BY <1>9, <1>11 DEF Only
    <2>2. /\ Cached(o, Tail(q), K2[o], m2.orders[o], C.orders[o])
          /\ Behind(m2.orders[o], C.orders[o])
          /\ OnItsWay(o, Tail(q), own, asked, m2.orders[o], C.orders[o])
      BY <1>2, <1>8, <1>9, <1>10, <1>11
    <2>3. Head(q).kind \notin {"local", "order"}
      OBVIOUS
    <2> QED
      BY <2>1, <2>2, <2>3, Dispatched
  <1> QED
    BY <1>1, <1>8, <1>12

LEMMA LocalKept == IInv /\ HandleLocal => IInv'
  <1> SUFFICES ASSUME IInv, HandleLocal PROVE IInv'
    OBVIOUS
  <1>1. /\ Typed(counter, local, queue, cache, oms, asking, recoveries, restarts)
        /\ Safe(counter, local, queue, cache, oms, asking)
    BY Types DEF IInv
  <1>2. /\ queue # <<>> /\ Head(queue).kind = "local" /\ queue' = Tail(queue)
        /\ UNCHANGED <<counter, local, asking, recoveries, restarts>>
    BY DEF HandleLocal, Handle
  <1>3. PICK o, r : o = Head(queue).o /\ r = [status |-> "submitting", traded |-> 0]
    OBVIOUS
  <1>4. cache' = [cache EXCEPT ![o] = r] /\ oms' = OnOrder(oms, o, r)
    BY <1>3 DEF HandleLocal
  <1>5. /\ Head(queue) \in Callbacks /\ Faithful(Head(queue), counter.orders)
        /\ Elems(Tail(queue)) \subseteq Callbacks /\ Tail(queue) \in Seq(Callbacks)
    BY <1>1, <1>2, AtHead DEF Typed
  <1>6. o \in Orders /\ counter.orders[o].status # "none"
    BY <1>2, <1>3, <1>5, CallbackFields DEF Faithful
  <1>7. r \in Reports /\ r.status = "submitting" /\ r.traded = 0
    <2>1. "submitting" \in Live \cup Over /\ 0 \in 0..Volume + 1
      BY OmsAssumption DEF Live
    <2> QED
      BY <1>3, <2>1, Report
  <1>8. Stated(r, counter.orders[o])
    <2>1. counter.orders[o].traded \in 0..Volume + 1
      BY <1>1, <1>6, Entry, CounterFields DEF Typed
    <2> QED
      BY <1>6, <1>7, <2>1, OmsAssumption DEF Stated, Over
  <1>9. Fits(Tail(queue), o, r.traded)
    BY <1>5, <1>7, CallbackFields, OmsAssumption DEF Fits, Below
  <1>10. Safe(counter, local, Tail(queue), cache', oms', asking)
    BY <1>1, <1>2, <1>3, <1>4, <1>6, <1>7, <1>8, <1>9, OrderStep DEF Typed
  <1>11. cache' \in [Orders -> Entries] /\ oms' \in OmsType
    BY <1>1, <1>4, <1>6, <1>7, OrderTaken, Entries2 DEF Typed
  <1> QED
    BY <1>1, <1>2, <1>5, <1>10, <1>11, Types DEF IInv, Typed

LEMMA OrderKept == IInv /\ HandleOrder => IInv'
  <1> SUFFICES ASSUME IInv, HandleOrder PROVE IInv'
    OBVIOUS
  <1>1. /\ Typed(counter, local, queue, cache, oms, asking, recoveries, restarts)
        /\ Safe(counter, local, queue, cache, oms, asking)
    BY Types DEF IInv
  <1>2. /\ queue # <<>> /\ Head(queue).kind = "order" /\ queue' = Tail(queue)
        /\ UNCHANGED <<counter, local, asking, recoveries, restarts>>
    BY DEF HandleOrder, Handle
  <1>3. PICK o, r : o = Head(queue).o /\ r = Head(queue).report
    OBVIOUS
  <1>4. cache' = [cache EXCEPT ![o] = r] /\ oms' = OnOrder(oms, o, r)
    BY <1>3 DEF HandleOrder
  <1>5. /\ Head(queue) \in Callbacks /\ Faithful(Head(queue), counter.orders)
        /\ \A d \in Elems(Tail(queue)) : Before(Head(queue), d)
        /\ Tail(queue) \in Seq(Callbacks)
    BY <1>1, <1>2, AtHead DEF Typed
  <1>6. o \in Orders /\ r \in Reports /\ Stated(r, counter.orders[o])
    BY <1>2, <1>3, <1>5, CallbackFields DEF Faithful
  <1>7. Fits(Tail(queue), o, r.traded)
    BY <1>2, <1>3, <1>5 DEF Fits, Before
  <1>8. Safe(counter, local, Tail(queue), cache', oms', asking)
    BY <1>1, <1>2, <1>3, <1>4, <1>6, <1>7, OrderStep DEF Typed
  <1>9. cache' \in [Orders -> Entries] /\ oms' \in OmsType
    BY <1>1, <1>4, <1>6, OrderTaken, Entries2 DEF Typed
  <1> QED
    BY <1>1, <1>2, <1>5, <1>8, <1>9, Types DEF IInv, Typed

LEMMA TradeKept == IInv /\ HandleTrade => IInv'
  <1> SUFFICES ASSUME IInv, HandleTrade PROVE IInv'
    OBVIOUS
  <1>1. /\ Typed(counter, local, queue, cache, oms, asking, recoveries, restarts)
        /\ Safe(counter, local, queue, cache, oms, asking)
    BY Types DEF IInv
  <1>2. /\ queue # <<>> /\ Head(queue).kind = "trade" /\ queue' = Tail(queue)
        /\ UNCHANGED <<counter, local, asking, recoveries, restarts>>
    BY DEF HandleTrade, Handle
  <1>3. PICK f, o : f = Head(queue).fill /\ o = f[1]
    OBVIOUS
  <1>4. /\ Head(queue) \in Callbacks /\ Tail(queue) \in Seq(Callbacks)
    BY <1>1, <1>2, AtHead DEF Typed
  <1>5. o \in Orders /\ f \in Fills
    BY <1>2, <1>3, <1>4, CallbackFields
  <1>6. CASE cache[o].status = "none"
    <2>1. cache' = cache /\ oms' = OnTrade(oms, f)
      BY <1>3, <1>6 DEF HandleTrade
    <2>2. oms' \in OmsType /\ oms'.orders = oms.orders
      BY <1>1, <1>5, <2>1, TradeTaken DEF Typed
    <2>3. Safe(counter, local, Tail(queue), cache, oms', asking)
      BY <1>1, <1>2, <2>2, Passed DEF Typed
    <2> QED
      BY <1>1, <1>2, <1>4, <2>1, <2>2, <2>3, Types DEF IInv, Typed
  <1>7. CASE cache[o].status # "none"
    <2>1. PICK r, m : r = OneMore(cache[o]) /\ m = OnOrder(oms, o, r)
      OBVIOUS
    <2>2. cache' = [cache EXCEPT ![o] = r] /\ oms' = OnTrade(m, f)
      BY <1>3, <1>7, <2>1 DEF HandleTrade
    <2>3. OneMore(cache[o]) \in Reports
      <3>1. OnOrder(oms, o, OneMore(cache[o])).orders = OnOrder(oms, o, OneMore(cache[o])).orders
        OBVIOUS
      <3> QED
        BY <1>1, <1>2, <1>3, <1>5, <3>1, TradeStep DEF Typed
    <2>4. m \in OmsType
      BY <1>1, <1>5, <2>1, <2>3, OrderTaken DEF Typed
    <2>5. oms' \in OmsType /\ oms'.orders = m.orders
      BY <1>5, <2>2, <2>4, TradeTaken
    <2>6. Safe(counter, local, Tail(queue), cache', oms', asking)
      BY <1>1, <1>2, <1>3, <1>5, <2>1, <2>2, <2>5, TradeStep DEF Typed
    <2>7. cache' \in [Orders -> Entries]
      BY <1>1, <1>5, <2>1, <2>2, <2>3, Entries2 DEF Typed
    <2> QED
      BY <1>1, <1>2, <1>4, <2>5, <2>6, <2>7, Types DEF IInv, Typed
  <1> QED
    BY <1>6, <1>7

LEMMA ReplayKept == IInv /\ HandleReplay => IInv'
  <1> SUFFICES ASSUME IInv, HandleReplay PROVE IInv'
    OBVIOUS
  <1>1. /\ Typed(counter, local, queue, cache, oms, asking, recoveries, restarts)
        /\ Safe(counter, local, queue, cache, oms, asking)
    BY Types DEF IInv
  <1>2. /\ queue # <<>> /\ Head(queue).kind = "replay" /\ queue' = Tail(queue)
        /\ UNCHANGED <<counter, local, cache, asking, recoveries, restarts>>
        /\ oms' = OnTrade(oms, Head(queue).fill)
    BY DEF HandleReplay, Handle
  <1>3. /\ Head(queue) \in Callbacks /\ Tail(queue) \in Seq(Callbacks)
    BY <1>1, <1>2, AtHead DEF Typed
  <1>4. oms' \in OmsType /\ oms'.orders = oms.orders
    BY <1>1, <1>2, <1>3, CallbackFields, TradeTaken DEF Typed
  <1>5. Safe(counter, local, Tail(queue), cache, oms', asking)
    BY <1>1, <1>2, <1>4, Passed DEF Typed
  <1> QED
    BY <1>1, <1>2, <1>3, <1>4, <1>5, Types DEF IInv, Typed

LEMMA PositionKept == IInv /\ HandlePosition => IInv'
  <1> SUFFICES ASSUME IInv, HandlePosition PROVE IInv'
    OBVIOUS
  <1>1. /\ Typed(counter, local, queue, cache, oms, asking, recoveries, restarts)
        /\ Safe(counter, local, queue, cache, oms, asking)
    BY Types DEF IInv
  <1>2. /\ queue # <<>> /\ Head(queue).kind = "position" /\ queue' = Tail(queue)
        /\ UNCHANGED <<counter, local, cache, asking, recoveries, restarts>>
        /\ oms' = OnPosition(oms, Head(queue).book)
    BY DEF HandlePosition, Handle
  <1>3. /\ Head(queue) \in Callbacks /\ Tail(queue) \in Seq(Callbacks)
    BY <1>1, <1>2, AtHead DEF Typed
  <1>4. oms' \in OmsType /\ oms'.orders = oms.orders
    BY <1>1, <1>2, <1>3, CallbackFields, PositionTaken DEF Typed
  <1>5. Safe(counter, local, Tail(queue), cache, oms', asking)
    BY <1>1, <1>2, <1>4, Passed DEF Typed
  <1> QED
    BY <1>1, <1>2, <1>3, <1>4, <1>5, Types DEF IInv, Typed

-----------------------------------------------------------------------------
(***************************************************************************)
(* Callbacks are posted.                                                   *)
(***************************************************************************)
LEMMA Queued ==
    ASSUME NEW S, NEW q \in Seq(S)
    PROVE  Elems(q) \subseteq S
    BY ElementOfSeq DEF Elems

LEMMA PostedElems ==
    ASSUME NEW q \in Seq(Callbacks), NEW s \in Seq(Callbacks)
    PROVE  /\ Elems(q \o s) = Elems(q) \cup Elems(s)
           /\ Elems(q) \subseteq Elems(q \o s) /\ Elems(s) \subseteq Elems(q \o s)
  <1>1. Elems(q \o s) = Elems(q) \cup Elems(s)
    BY Posted
  <1> QED
    BY <1>1

\* No trade is among them and the counter stands still.
LEMMA Extended ==
    ASSUME NEW C, NEW own, NEW q \in Seq(Callbacks), NEW K, NEW m, NEW asked,
           Safe(C, own, q, K, m, asked), NEW s \in Seq(Callbacks),
           \A d \in Elems(s) : d.kind # "trade" /\ Faithful(d, C.orders),
           NEW asked2, NEW own2, own2 \subseteq own,
           \A o \in Orders : OnItsWay(o, q \o s, own2, asked2, m.orders[o], C.orders[o])
    PROVE  Safe(C, own2, q \o s, K, m, asked2) /\ q \o s \in Seq(Callbacks)
  <1>1. PICK r : r = q \o s /\ r \in Seq(Callbacks) /\ Elems(r) = Elems(q) \cup Elems(s)
    BY Posted
  <1>2. Ordered(r)
    BY <1>1, NoTrades DEF Safe
  <1>3. \A c \in Elems(r) : Faithful(c, C.orders)
    BY <1>1 DEF Safe
  <1>4. ASSUME NEW o \in Orders
        PROVE  Tracked(o, r, own2, asked2, K[o], m.orders[o], C.orders[o])
    <2>1. Tracked(o, q, own, asked, K[o], m.orders[o], C.orders[o])
      BY DEF Safe
    <2>2. Cached(o, r, K[o], m.orders[o], C.orders[o])
      <3>1. \A d \in Elems(r) : d.kind = "trade" /\ d.fill[1] = o => d \in Elems(q)
        BY <1>1
      <3> QED
        BY <2>1, <3>1, LongerCached DEF Tracked
    <2> QED
      BY <1>1, <2>1, <2>2 DEF Tracked
  <1> QED
    BY <1>1, <1>2, <1>3, <1>4 DEF Safe

\* An order moves at the counter: s is what is pushed of it.
LEMMA Moved ==
    ASSUME NEW C \in CounterType, NEW own, NEW q \in Seq(Callbacks),
           NEW K \in [Orders -> Entries], NEW m \in OmsType, NEW asked,
           Safe(C, own, q, K, m, asked), NEW o \in Orders,
           NEW D \in CounterType, Only(o, C.orders, D.orders),
           C.orders[o].status \notin Over, D.orders[o].status # "none",
           C.orders[o].traded <= D.orders[o].traded, Kept(D.orders[o]), Covered(D),
           NEW own2, own \subseteq own2, own2 \subseteq own \cup {o},
           NEW s \in Seq(Callbacks), Ordered(s), \A d \in Elems(s) : Faithful(d, D.orders),
           \A d \in Elems(s) : d.kind = "trade" =>
               d.fill[1] = o /\ d.fill[2] \in 1..Volume /\ C.orders[o].traded < d.fill[2],
           OnItsWay(o, q \o s, own2, asked, m.orders[o], D.orders[o])
    PROVE  Safe(D, own2, q \o s, K, m, asked) /\ q \o s \in Seq(Callbacks)
  <1>1. PICK r : /\ r = q \o s /\ r \in Seq(Callbacks) /\ Elems(r) = Elems(q) \cup Elems(s)
                 /\ Ordered(q) /\ Ordered(s) /\ Follows(q, s) => Ordered(r)
    BY Posted
  <1>2. C.orders \in [Orders -> Entries] /\ D.orders \in [Orders -> Entries]
    BY CounterFields
  <1>3. PICK told \in Entries, new \in Entries, t \in 0..Volume + 1 :
           told = C.orders[o] /\ new = D.orders[o] /\ t = told.traded
    BY <1>2, Entry
  <1>4. Follows(q, s)
    <2> SUFFICES ASSUME NEW c \in Elems(q), NEW d \in Elems(s) PROVE Before(c, d)
      BY DEF Follows
    <2> SUFFICES ASSUME d.kind = "trade" PROVE Before(c, d)
      BY DEF Before
    <2>1. PICK k \in 1..Volume : k = d.fill[2] /\ d.fill[1] = o /\ t < k
      BY <1>3
    <2>2. c \in Callbacks /\ Faithful(c, C.orders)
      BY Queued DEF Safe
    <2>3. ASSUME c.kind = "order" /\ c.o = o PROVE Below(c.report.traded, k)
      <3>1. c.report \in Reports /\ c.report.traded <= t
        BY <1>3, <2>2, <2>3, CallbackFields DEF Faithful, Stated
      <3>2. c.report.traded \in 0..Volume + 1
        BY <3>1, Entry, Entries2
      <3> QED
        BY <2>1, <3>1, <3>2, OmsAssumption DEF Below
    <2>4. ASSUME c.kind = "trade" /\ c.fill[1] = o PROVE c.fill[2] < k
      <3>1. c.fill[2] \in 1..Volume /\ c.fill[2] <= t
        BY <1>3, <2>2, <2>4, CallbackFields DEF Faithful
      <3> QED
        BY <2>1, <3>1, OmsAssumption
    <2> QED
      BY <2>1, <2>3, <2>4 DEF Before
  <1>5. Grows(C.orders, D.orders)
    BY DEF Only, Grows
  <1>6. \A c \in Elems(r) : Faithful(c, D.orders)
    <2>1. ASSUME NEW c \in Elems(q) PROVE Faithful(c, D.orders)
      <3>1. c \in Callbacks /\ Faithful(c, C.orders)
        BY Queued DEF Safe
      <3> QED
        BY <1>2, <1>5, <3>1, StaysFaithful
    <2> QED
      BY <1>1, <2>1
  <1>7. ASSUME NEW p \in Orders, p # o
        PROVE  Tracked(p, r, own2, asked, K[p], m.orders[p], D.orders[p])
    <2>1. Tracked(p, q, own, asked, K[p], m.orders[p], C.orders[p]) /\ D.orders[p] = C.orders[p]
      BY <1>7 DEF Safe, Only
    <2>2. Cached(p, r, K[p], m.orders[p], C.orders[p])
      <3>1. \A d \in Elems(r) : d.kind = "trade" /\ d.fill[1] = p => d \in Elems(q)
        BY <1>1, <1>7
      <3> QED
        BY <2>1, <3>1, LongerCached DEF Tracked
    <2>3. OnItsWay(p, r, own, asked, m.orders[p], C.orders[p])
      BY <1>1, <2>1, Longer DEF Tracked
    <2>4. OnItsWay(p, r, own2, asked, m.orders[p], C.orders[p])
      BY <2>3 DEF OnItsWay
    <2>5. p \in own2 => p \in own
      BY <1>7
    <2> QED
      BY <2>1, <2>2, <2>4, <2>5 DEF Tracked
  <1>8. Tracked(o, r, own2, asked, K[o], m.orders[o], D.orders[o])
    <2>1. PICK cached \in Entries, known \in Entries :
             /\ cached = K[o] /\ known = m.orders[o]
             /\ Tracked(o, q, own, asked, cached, known, told)
      BY <1>3, OmsOrders DEF Safe
    <2>2. Cached(o, q, cached, known, new) /\ Behind(known, new)
      BY <1>3, <2>1, Advanced DEF Tracked
    <2>3. PICK x \in 0..Volume + 1 : x = cached.traded
      BY Entry
    <2>4. x <= t
      <3>1. told.traded # Volume
        BY <1>3, <2>1 DEF Tracked, Kept, Over
      <3> QED
        BY <1>3, <2>1, <2>3, <3>1 DEF Tracked, Cached
    <2>5. Fits(r, o, x)
      <3> SUFFICES ASSUME NEW d \in Elems(r), d.kind = "trade" /\ d.fill[1] = o
                   PROVE  Below(x, d.fill[2])
        BY DEF Fits
      <3>1. CASE d \in Elems(q)
        BY <2>2, <2>3, <3>1 DEF Cached, Fits
      <3>2. CASE d \in Elems(s)
        <4>1. PICK k \in 1..Volume : k = d.fill[2] /\ t < k
          BY <1>3, <3>2
        <4> QED
          BY <2>4, <4>1, OmsAssumption DEF Below
      <3> QED
        BY <1>1, <3>1, <3>2
    <2>6. Cached(o, r, cached, known, new)
      BY <2>2, <2>3, <2>5 DEF Cached
    <2> QED
      BY <1>1, <1>3, <2>1, <2>2, <2>6 DEF Tracked
  <1>9. Ordered(r)
    BY <1>1, <1>4 DEF Safe
  <1> QED
    BY <1>1, <1>6, <1>7, <1>8, <1>9 DEF Safe

-----------------------------------------------------------------------------
(***************************************************************************)
(* The steps of the process.                                               *)
(***************************************************************************)

\* A recovery or a start asks for everything.
LEMMA Asked ==
    /\ <<"position", "orders", "trades">> \in Seq(Queries)
    /\ "orders" \in Elems(<<"position", "orders", "trades">>)
  <1>1. PICK a : a = <<"position", "orders", "trades">>
    OBVIOUS
  <1>2. a \in Seq(Queries) /\ Len(a) = 3 /\ a[2] = "orders"
    BY <1>1 DEF Queries
  <1>3. 2 \in 1..3
    OBVIOUS
  <1> QED
    BY <1>1, <1>2, <1>3 DEF Elems

LEMMA EveryOrder ==
    ASSUME NEW asked, "orders" \in Elems(asked), NEW o, NEW q, NEW own, NEW known, NEW told
    PROVE  OnItsWay(o, q, own, asked, known, told)
    BY DEF OnItsWay

LEMMA NoCallbacks ==
    ASSUME NEW S, NEW q \in Seq(S)
    PROVE  <<>> \in Seq(S) /\ Elems(<<>>) = {} /\ q \o <<>> = q /\ Ordered(<<>>)
  <1>1. <<>> \in Seq(S) /\ Len(<<>>) = 0 /\ q \o <<>> = q
    BY EmptySeq, ConcatEmptySeq
  <1> QED
    BY <1>1 DEF Elems, Ordered

LEMMA OneCallback ==
    ASSUME NEW S, NEW q \in Seq(S), NEW d \in S
    PROVE  <<d>> \in Seq(S) /\ Elems(<<d>>) = {d} /\ q \o <<d>> = Append(q, d) /\ Ordered(<<d>>)
  <1>1. PICK s : s = <<d>> /\ s \in Seq(S) /\ Append(q, d) = q \o s
    <2>1. <<d>> \in Seq(S)
      OBVIOUS
    <2>2. Append(q, d) = q \o <<d>>
      BY AppendIsConcat, Zenon
    <2> QED
      BY ONLY <2>1, <2>2, Zenon
  <1>2. Elems(s) = {d} /\ Ordered(s)
    BY <1>1 DEF Elems, Ordered
  <1> QED
    BY <1>1, <1>2

LEMMA PositionType ==
    ASSUME counter \in CounterType
    PROVE  Position \in Books
    BY CounterFields, FrozenType, BookFields DEF Position

LEMMA PostLocalKept == ASSUME IInv, NEW o \in Orders, PostLocal(o) PROVE IInv'
  <1>1. /\ Typed(counter, local, queue, cache, oms, asking, recoveries, restarts)
        /\ Safe(counter, local, queue, cache, oms, asking)
    BY Types DEF IInv
  <1>2. PICK d : d = [kind |-> "local", o |-> o]
    OBVIOUS
  <1>3. /\ o \in local /\ local' = local \ {o} /\ queue' = Append(queue, d)
        /\ UNCHANGED <<counter, cache, oms, asking, recoveries, restarts>>
    BY <1>2 DEF PostLocal
  <1>4. d \in Callbacks /\ d.kind = "local" /\ d.o = o
    BY <1>2, CallbackTypes
  <1>5. PICK s : s = <<d>> /\ s \in Seq(Callbacks) /\ Elems(s) = {d} /\ queue' = queue \o s
    BY <1>1, <1>3, <1>4, OneCallback DEF Typed
  <1>6. \A c \in Elems(s) : c.kind # "trade" /\ Faithful(c, counter.orders)
    <2>1. counter.orders[o].status # "none"
      BY <1>1, <1>3 DEF Safe, Tracked
    <2> QED
      BY <1>4, <1>5, <2>1 DEF Faithful
  <1>7. ASSUME NEW p \in Orders
        PROVE  OnItsWay(p, queue \o s, local', asking, oms.orders[p], counter.orders[p])
    <2>1. Elems(queue) \subseteq Elems(queue \o s) /\ d \in Elems(queue \o s)
      BY <1>1, <1>5, PostedElems DEF Typed
    <2>2. OnItsWay(p, queue, local, asking, oms.orders[p], counter.orders[p])
      BY <1>1 DEF Safe, Tracked
    <2>3. OnItsWay(p, queue \o s, local, asking, oms.orders[p], counter.orders[p])
      BY <2>1, <2>2, Longer
    <2>4. p \in local => p \in local' \/ p = o
      BY <1>3
    <2> QED
      BY <1>4, <2>1, <2>3, <2>4 DEF OnItsWay
  <1>8. local' \subseteq local
    BY <1>3
  <1>9. Safe(counter, local', queue', cache, oms, asking) /\ queue' \in Seq(Callbacks)
    BY <1>1, <1>5, <1>6, <1>7, <1>8, Extended DEF Typed
  <1> QED
    BY <1>1, <1>3, <1>8, <1>9, Types DEF IInv, Typed

LEMMA PollKept == IInv /\ Poll => IInv'
  <1> SUFFICES ASSUME IInv, Poll PROVE IInv'
    OBVIOUS
  <1>1. /\ Typed(counter, local, queue, cache, oms, asking, recoveries, restarts)
        /\ Safe(counter, local, queue, cache, oms, asking)
    BY Types DEF IInv
  <1>2. PICK d : d = [kind |-> "position", book |-> Position]
    OBVIOUS
  <1>3. /\ queue' = Append(queue, d)
        /\ UNCHANGED <<counter, local, cache, oms, asking, recoveries, restarts>>
    BY <1>2 DEF Poll
  <1>4. d \in Callbacks /\ d.kind = "position"
    BY <1>1, <1>2, CallbackTypes, PositionType DEF Typed
  <1>5. PICK s : s = <<d>> /\ s \in Seq(Callbacks) /\ Elems(s) = {d} /\ queue' = queue \o s
    BY <1>1, <1>3, <1>4, OneCallback DEF Typed
  <1>6. \A c \in Elems(s) : c.kind # "trade" /\ Faithful(c, counter.orders)
    BY <1>4, <1>5 DEF Faithful
  <1>7. ASSUME NEW p \in Orders
        PROVE  OnItsWay(p, queue \o s, local, asking, oms.orders[p], counter.orders[p])
    <2>1. Elems(queue) \subseteq Elems(queue \o s) /\ d \in Elems(queue \o s)
      BY <1>1, <1>5, PostedElems DEF Typed
    <2>2. OnItsWay(p, queue, local, asking, oms.orders[p], counter.orders[p])
      BY <1>1 DEF Safe, Tracked
    <2> QED
      BY <2>1, <2>2, Longer
  <1>8. Safe(counter, local, queue', cache, oms, asking) /\ queue' \in Seq(Callbacks)
    BY <1>1, <1>5, <1>6, <1>7, Extended DEF Typed
  <1> QED
    BY <1>1, <1>3, <1>8, Types DEF IInv, Typed

LEMMA RecoverKept == IInv /\ Recover => IInv'
  <1> SUFFICES ASSUME IInv, Recover PROVE IInv'
    OBVIOUS
  <1>1. /\ Typed(counter, local, queue, cache, oms, asking, recoveries, restarts)
        /\ Safe(counter, local, queue, cache, oms, asking)
    BY Types DEF IInv
  <1>2. /\ recoveries < MaxRecoveries /\ recoveries' = recoveries + 1
        /\ UNCHANGED <<counter, local, queue, cache, oms, restarts>>
        /\ asking' \in Seq(Queries) /\ "orders" \in Elems(asking')
    BY Asked DEF Recover
  <1>3. recoveries' \in 0..MaxRecoveries
    BY <1>1, <1>2, OmsAssumption DEF Typed
  <1>4. Safe(counter, local, queue, cache, oms, asking')
    BY <1>1, <1>2, EveryOrder DEF Safe, Tracked
  <1> QED
    BY <1>1, <1>2, <1>3, <1>4, Types DEF IInv, Typed

LEMMA RestartKept == IInv /\ Restart => IInv'
  <1> SUFFICES ASSUME IInv, Restart PROVE IInv'
    OBVIOUS
  <1>1. /\ Typed(counter, local, queue, cache, oms, asking, recoveries, restarts)
        /\ Safe(counter, local, queue, cache, oms, asking)
    BY Types DEF IInv
  <1>2. /\ restarts < MaxRestarts /\ restarts' = restarts + 1
        /\ local' = {} /\ queue' = <<>> /\ oms' = NewOms
        /\ UNCHANGED <<counter, recoveries>>
        /\ asking' \in Seq(Queries) /\ "orders" \in Elems(asking')
    BY Asked DEF Restart
  <1>3. cache' \in [Orders -> Entries] /\ \A o \in Orders : cache'[o] = Unknown
    BY Entries2 DEF Restart
  <1>4. NewOms \in OmsType /\ \A o \in Orders : NewOms.orders[o] = Unknown
    BY Entries2 DEF NewOms, OmsType, Books
  <1>5. restarts' \in 0..MaxRestarts
    BY <1>1, <1>2, OmsAssumption DEF Typed
  <1>6. queue' \in Seq(Callbacks) /\ Elems(queue') = {} /\ Ordered(queue')
    BY <1>1, <1>2, NoCallbacks DEF Typed
  <1>7. ASSUME NEW o \in Orders
        PROVE  Tracked(o, queue', local', asking', cache'[o], oms'.orders[o], counter.orders[o])
    <2>1. cache'[o] = Unknown /\ oms'.orders[o] = Unknown
      BY <1>2, <1>3, <1>4
    <2>2. counter.orders[o].traded \in 0..Volume + 1 /\ Unknown.traded = 0 /\ Unknown.status = "none"
      BY <1>1, CounterFields, Entry DEF Typed, Unknown
    <2>3. Kept(counter.orders[o])
      BY <1>1 DEF Safe, Tracked
    <2>4. Cached(o, queue', Unknown, Unknown, counter.orders[o])
      BY <1>6, <2>2, OmsAssumption DEF Cached, Fits
    <2>5. Behind(Unknown, counter.orders[o])
      BY <2>2, OmsAssumption DEF Behind, Over
    <2>6. OnItsWay(o, queue', local', asking', Unknown, counter.orders[o])
      BY <1>2, EveryOrder
    <2> QED
      BY <1>2, <2>1, <2>3, <2>4, <2>5, <2>6 DEF Tracked
  <1>8. Safe(counter, local', queue', cache', oms', asking')
    BY <1>1, <1>6, <1>7 DEF Safe
  <1> QED
    BY <1>1, <1>2, <1>3, <1>4, <1>5, <1>6, <1>8, Types DEF IInv, Typed

\* The answer to the query of the orders tells of every order that is known.
Tells(kind, s) ==
    kind = "orders" =>
        \A o \in Orders : OnItsWay(o, s, local, <<>>, oms.orders[o], counter.orders[o])

\* A query is answered with callbacks among which there is no pushed trade.
LEMMA Answered ==
    ASSUME IInv, NEW kind, NEW s \in Seq(Callbacks), Reply(kind, s),
           \A d \in Elems(s) : d.kind # "trade" /\ Faithful(d, counter.orders),
           Tells(kind, s)
    PROVE  IInv'
  <1>1. /\ Typed(counter, local, queue, cache, oms, asking, recoveries, restarts)
        /\ Safe(counter, local, queue, cache, oms, asking)
    BY Types DEF IInv
  <1>2. /\ asking # <<>> /\ Head(asking) = kind /\ asking' = Tail(asking)
        /\ queue' = queue \o s
        /\ UNCHANGED <<counter, local, cache, oms, recoveries, restarts>>
    BY DEF Reply
  <1>3. asking' \in Seq(Queries) /\ Elems(asking) \subseteq Elems(asking') \cup {kind}
    BY <1>1, <1>2, Popped DEF Typed
  <1>4. Elems(queue) \subseteq Elems(queue \o s) /\ Elems(s) \subseteq Elems(queue \o s)
    BY <1>1, PostedElems DEF Typed
  <1>5. ASSUME NEW p \in Orders
        PROVE  OnItsWay(p, queue \o s, local, asking', oms.orders[p], counter.orders[p])
    <2>1. OnItsWay(p, queue, local, asking, oms.orders[p], counter.orders[p])
      BY <1>1 DEF Safe, Tracked
    <2>2. CASE kind # "orders"
      <3>1. OnItsWay(p, queue \o s, local, asking, oms.orders[p], counter.orders[p])
        BY <1>4, <2>1, Longer
      <3>2. "orders" \in Elems(asking) => "orders" \in Elems(asking')
        BY <1>3, <2>2
      <3> QED
        BY <3>1, <3>2 DEF OnItsWay
    <2>3. CASE kind = "orders"
      <3>1. OnItsWay(p, s, local, <<>>, oms.orders[p], counter.orders[p])
        BY <2>3 DEF Tells
      <3>2. OnItsWay(p, queue \o s, local, <<>>, oms.orders[p], counter.orders[p])
        BY <1>4, <3>1, Longer
      <3>3. "orders" \notin Elems(<<>>)
        BY DEF Elems
      <3> QED
        BY <3>2, <3>3 DEF OnItsWay
    <2> QED
      BY <2>2, <2>3
  <1>6. Safe(counter, local, queue \o s, cache, oms, asking') /\ queue \o s \in Seq(Callbacks)
    BY <1>1, <1>5, Extended DEF Typed
  <1> QED
    BY <1>1, <1>2, <1>3, <1>6, Types DEF IInv, Typed

LEMMA ReplyPositionKept == IInv /\ ReplyPosition => IInv'
  <1> SUFFICES ASSUME IInv, ReplyPosition PROVE IInv'
    OBVIOUS
  <1>1. counter \in CounterType /\ queue \in Seq(Callbacks)
    BY Types DEF IInv, Typed
  <1>2. PICK d : d = [kind |-> "position", book |-> Position] /\ d \in Callbacks /\ d.kind = "position"
    <2>1. PICK b \in Books : b = Position
      BY <1>1, PositionType
    <2>2. [kind |-> "position", book |-> b] \in Callbacks
      BY CallbackTypes
    <2> QED
      BY <2>1, <2>2
  <1>3. PICK s : s = <<d>> /\ s \in Seq(Callbacks) /\ Elems(s) = {d}
    BY <1>1, <1>2, OneCallback
  <1>4. Reply("position", s)
    BY <1>2, <1>3 DEF ReplyPosition
  <1>5. \A c \in Elems(s) : c.kind # "trade" /\ Faithful(c, counter.orders)
    BY <1>2, <1>3 DEF Faithful
  <1>6. Tells("position", s)
    BY DEF Tells
  <1> QED
    BY <1>3, <1>4, <1>5, <1>6, Answered

LEMMA OrdersFinite == IsFiniteSet(Orders) /\ IsFiniteSet(Fills)
  <1>1. IsFiniteSet(Orders)
    BY OmsAssumption, FS_Union, Zenon DEF OmsAssumption, Orders
  <1>2. IsFiniteSet(1..Volume)
    <2>1. 1 \in Int /\ Volume \in Int
      BY OmsAssumption
    <2> QED
      BY <2>1, FS_Interval, Zenon
  <1> QED
    BY <1>1, <1>2, FS_Product, Zenon DEF Fills

LEMMA ReplyOrdersKept == IInv /\ ReplyOrders => IInv'
  <1> SUFFICES ASSUME IInv, ReplyOrders PROVE IInv'
    OBVIOUS
  <1>1. /\ Typed(counter, local, queue, cache, oms, asking, recoveries, restarts)
        /\ Safe(counter, local, queue, cache, oms, asking)
    BY Types DEF IInv
  <1>2. PICK known : known = {p \in Orders : counter.orders[p].status # "none"}
    OBVIOUS
  <1>3. PICK S : S = {OrderEvent(o, counter.orders[o]) : o \in known}
    OBVIOUS
  <1>4. IsFiniteSet(S)
    <2>1. PICK g : g = [o \in known |-> OrderEvent(o, counter.orders[o])]
      OBVIOUS
    <2>2. g \in Surjection(known, S)
      BY <1>3, <2>1 DEF Surjection
    <2>3. IsFiniteSet(known)
      BY <1>2, OrdersFinite, FS_Subset
    <2> QED
      BY <2>2, <2>3, FS_Surjection, Zenon
  <1>5. PICK s : s = SetToSeq(S) /\ s \in Seq(S) /\ Elems(s) = S
    BY <1>4, Listed
  <1>6. \A o \in known : /\ o \in Orders /\ counter.orders[o] \in Reports
                         /\ Kept(counter.orders[o])
    BY <1>1, <1>2, CounterFields, Entry DEF Typed, Safe, Tracked
  <1>7. ASSUME NEW d \in S
        PROVE  /\ d \in Callbacks /\ d.kind = "order" /\ d.o \in known
               /\ d.report = counter.orders[d.o]
    BY <1>3, <1>6, CallbackTypes
  <1>8. s \in Seq(Callbacks)
    BY <1>5, <1>7, SeqMonotonic
  <1>9. \A d \in Elems(s) : d.kind # "trade" /\ Faithful(d, counter.orders)
    <2> SUFFICES ASSUME NEW d \in S PROVE d.kind # "trade" /\ Faithful(d, counter.orders)
      BY <1>5
    <2>1. PICK r \in Reports : r = counter.orders[d.o] /\ Kept(r) /\ r.status # "none"
      BY <1>2, <1>6, <1>7
    <2>2. r.traded \in 0..Volume + 1
      BY <2>1, Entry, Entries2
    <2>3. Stated(r, r)
      BY <2>1, <2>2, OmsAssumption DEF Stated, Kept, Over
    <2> QED
      BY <1>7, <2>1, <2>3 DEF Faithful
  <1>10. ASSUME NEW o \in Orders
         PROVE  OnItsWay(o, s, local, <<>>, oms.orders[o], counter.orders[o])
    <2>1. CASE counter.orders[o].status = "none"
      BY <2>1 DEF OnItsWay, Live, Over
    <2>2. CASE counter.orders[o].status # "none"
      <3>1. PICK d : d = OrderEvent(o, counter.orders[o])
        OBVIOUS
      <3>2. /\ d \in Elems(s) /\ d.kind = "order" /\ d.o = o
            /\ d.report = counter.orders[o]
        BY <1>2, <1>3, <1>5, <1>6, <2>2, <3>1, CallbackTypes
      <3> QED
        BY <3>2 DEF OnItsWay
    <2> QED
      BY <2>1, <2>2
  <1>11. Reply("orders", s)
    BY <1>2, <1>3, <1>5 DEF ReplyOrders
  <1>12. Tells("orders", s)
    BY <1>10 DEF Tells
  <1> QED
    BY <1>8, <1>9, <1>11, <1>12, Answered

LEMMA ReplyTradesKept == IInv /\ ReplyTrades => IInv'
  <1> SUFFICES ASSUME IInv, ReplyTrades PROVE IInv'
    OBVIOUS
  <1>1. PICK done : done = {g \in Fills : g[2] <= counter.orders[g[1]].traded}
    OBVIOUS
  <1>2. PICK S : S = {[kind |-> "replay", fill |-> f] : f \in done}
    OBVIOUS
  <1>3. IsFiniteSet(S)
    <2>1. PICK g : g = [f \in done |-> [kind |-> "replay", fill |-> f]]
      OBVIOUS
    <2>2. g \in Surjection(done, S)
      BY <1>2, <2>1 DEF Surjection
    <2>3. IsFiniteSet(done)
      BY <1>1, OrdersFinite, FS_Subset
    <2> QED
      BY <2>2, <2>3, FS_Surjection, Zenon
  <1>4. PICK s : s = SetToSeq(S) /\ s \in Seq(S) /\ Elems(s) = S
    BY <1>3, Listed
  <1>5. \A d \in S : d \in Callbacks /\ d.kind = "replay" /\ d.fill \in done
    <2> SUFFICES ASSUME NEW f \in done
                 PROVE  /\ [kind |-> "replay", fill |-> f] \in Callbacks
                        /\ [kind |-> "replay", fill |-> f].kind = "replay"
                        /\ [kind |-> "replay", fill |-> f].fill = f
      BY <1>2
    <2>1. f \in Fills
      BY <1>1
    <2>2. [kind |-> "replay", fill |-> f] \in Callbacks
      BY <2>1, CallbackTypes
    <2> QED
      BY <2>2
  <1>6. s \in Seq(Callbacks)
    BY <1>4, <1>5, SeqMonotonic
  <1>7. \A d \in Elems(s) : d.kind # "trade" /\ Faithful(d, counter.orders)
    BY <1>1, <1>4, <1>5 DEF Faithful
  <1>8. Reply("trades", s)
    BY <1>1, <1>2, <1>4 DEF ReplyTrades
  <1>9. Tells("trades", s)
    BY DEF Tells
  <1> QED
    BY <1>6, <1>7, <1>8, <1>9, Answered

-----------------------------------------------------------------------------
(***************************************************************************)
(* The steps of the counter.                                               *)
(***************************************************************************)

\* Every lot sold is sold once, and none beyond what is held.
LEMMA SoldFinite ==
    ASSUME NEW C
    PROVE  Sold(C) \in SUBSET (Sells \X (1..Volume)) /\ IsFiniteSet(Sold(C))
           /\ Cardinality(Sold(C)) \in Nat
  <1>1. Sold(C) \in SUBSET (Sells \X (1..Volume))
    BY DEF Sold
  <1>2. IsFiniteSet(Sold(C))
    BY <1>1, Lots, FS_Subset, Zenon
  <1> QED
    BY <1>1, <1>2, FS_CardinalityType, Zenon

\* The traded lots of the sells do not change.
LEMMA CoveredSame ==
    ASSUME NEW C, NEW D, Covered(C), D.yd = C.yd, D.hold >= C.hold, D.hold \in Nat, C.hold \in Nat,
           C.yd \in Nat,
           \A p \in Sells : D.orders[p].traded = C.orders[p].traded
    PROVE  Covered(D)
  <1>1. Sold(D) = Sold(C)
    BY DEF Sold
  <1> QED
    BY <1>1 DEF Covered

LEMMA CoveredSell ==
    ASSUME NEW C \in CounterType, NEW D, Covered(C), NEW o \in Sells,
           NEW t \in Nat, t < Volume, C.orders[o].traded = t, D.orders[o].traded = t + 1,
           \A p \in Sells \ {o} : D.orders[p].traded = C.orders[p].traded,
           D.yd = C.yd - 1, D.hold = C.hold - 1
    PROVE  Covered(D) /\ D.yd \in Nat /\ D.hold \in Nat
  <1>1. PICK v \in Nat : v = Volume
    BY OmsAssumption
  <1>2. PICK lot : lot = <<o, t + 1>> /\ lot \in Sells \X (1..v) /\ lot[1] = o /\ lot[2] = t + 1
    <2>1. PICK k \in 1..v : k = t + 1
      BY <1>1
    <2>2. <<o, k>> \in Sells \X (1..v) /\ <<o, k>>[1] = o /\ <<o, k>>[2] = k
      OBVIOUS
    <2> QED
      BY <2>1, <2>2
  <1>3. lot \notin Sold(C)
    BY <1>2 DEF Sold
  <1>4. Sold(D) = Sold(C) \cup {lot}
    <2>1. ASSUME NEW f \in Sells \X (1..v), f[1] = o
          PROVE  f[2] <= t + 1 <=> f[2] <= t \/ f = lot
      <3>1. f = <<f[1], f[2]>> /\ f[2] \in 1..v
        OBVIOUS
      <3>2. f = lot <=> f[2] = t + 1
        BY <1>2, <2>1, <3>1
      <3> QED
        BY <3>1, <3>2
    <2>2. ASSUME NEW f \in Sells \X (1..v), f[1] # o
          PROVE  (f[2] <= D.orders[f[1]].traded <=> f[2] <= C.orders[f[1]].traded) /\ f # lot
      BY <1>2, <2>2
    <2>3. ASSUME NEW f \in Sells \X (1..v) PROVE f \in Sold(D) <=> f \in Sold(C) \/ f = lot
      <3>1. CASE f[1] = o
        BY <1>1, <2>1, <3>1 DEF Sold
      <3>2. CASE f[1] # o
        BY <1>1, <2>2, <3>2 DEF Sold
      <3> QED
        BY <3>1, <3>2
    <2> QED
      BY <1>1, <1>2, <2>3 DEF Sold
  <1>5. PICK n \in Nat : n = Cardinality(Sold(C)) /\ Cardinality(Sold(D)) = n + 1
    <2>1. Cardinality(Sold(C) \cup {lot}) = Cardinality(Sold(C)) + 1
      BY <1>3, SoldFinite, FS_AddElement, Zenon
    <2> QED
      BY <1>4, <2>1, SoldFinite
  <1>6. n + 1 <= Held
    <2>1. Cardinality(Sold(D)) <= Cardinality(Sells \X (1..Volume))
      BY SoldFinite, Lots, FS_Subset, Zenon
    <2>2. PICK k \in Nat : k = Cardinality(Sells \X (1..Volume)) /\ k <= Held
      BY Lots
    <2> QED
      BY <1>5, <2>1, <2>2, OmsAssumption
  <1>7. PICK y \in Nat, h \in Nat : y = C.yd /\ h = C.hold /\ y + n = Held /\ y <= h
    BY <1>5, CounterFields DEF Covered
  <1>8. D.yd = y - 1 /\ D.hold = h - 1 /\ y >= 1
    BY <1>6, <1>7, OmsAssumption
  <1> QED
    BY <1>5, <1>7, <1>8, OmsAssumption DEF Covered

Restate(C, o, a) == [C EXCEPT !.orders[o].status = a]

LEMMA Restated ==
    ASSUME NEW C \in CounterType, NEW o \in Orders, NEW a \in Live \cup Over,
           NEW D, D = Restate(C, o, a)
    PROVE  /\ D \in CounterType /\ Only(o, C.orders, D.orders)
           /\ D.orders[o] \in Reports /\ D.orders[o].status = a
           /\ D.orders[o].traded = C.orders[o].traded
           /\ D.hold = C.hold /\ D.yd = C.yd
  <1>1. PICK r \in Entries : r = C.orders[o]
    BY CounterFields
  <1>2. PICK t \in 0..Volume + 1 : t = r.traded
    BY Entry
  <1>3. PICK s : s = [status |-> a, traded |-> t] /\ s \in Reports /\ s.status = a /\ s.traded = t
    BY Report
  <1>4. [r EXCEPT !.status = a] = s
    <2>1. CASE r \in Reports
      BY <1>2, <1>3, <2>1 DEF Reports
    <2>2. CASE r = Unknown
      BY <1>2, <1>3, <2>2 DEF Unknown
    <2> QED
      BY <2>1, <2>2 DEF Entries
  <1>5. PICK orders : /\ orders = [C.orders EXCEPT ![o] = s] /\ orders \in [Orders -> Entries]
                      /\ orders[o] = s /\ Only(o, C.orders, orders)
    <2>1. PICK old \in [Orders -> Entries] : old = C.orders
      BY CounterFields
    <2>2. s \in Entries
      BY <1>3, Entries2
    <2>3. [old EXCEPT ![o] = s] \in [Orders -> Entries]
      BY <2>2
    <2>4. [old EXCEPT ![o] = s][o] = s /\ \A p \in Orders \ {o} : [old EXCEPT ![o] = s][p] = old[p]
      OBVIOUS
    <2> QED
      BY <2>1, <2>3, <2>4 DEF Only
  <1>7. D = [C EXCEPT !.orders = orders]
    BY <1>1, <1>4, <1>5 DEF Restate
  <1>8. D \in CounterType /\ D.orders = orders /\ D.hold = C.hold /\ D.yd = C.yd
    BY <1>5, <1>7 DEF CounterType
  <1> QED
    BY <1>1, <1>2, <1>3, <1>5, <1>8

LEMMA SendKept == ASSUME IInv, NEW o \in Orders, Send(o) PROVE IInv'
  <1>1. /\ Typed(counter, local, queue, cache, oms, asking, recoveries, restarts)
        /\ Safe(counter, local, queue, cache, oms, asking)
    BY Types DEF IInv
  <1>2. PICK D : D = Restate(counter, o, "submitting")
    OBVIOUS
  <1>3. /\ counter.orders[o].status = "none" /\ counter' = D /\ local' = local \cup {o}
        /\ UNCHANGED <<queue, cache, oms, asking, recoveries, restarts>>
    BY <1>2 DEF Send, Restate
  <1>4. /\ D \in CounterType /\ Only(o, counter.orders, D.orders)
        /\ D.orders[o].status = "submitting"
        /\ D.orders[o].traded = counter.orders[o].traded
        /\ D.hold = counter.hold /\ D.yd = counter.yd
    <2>1. "submitting" \in Live \cup Over
      BY DEF Live
    <2> QED
      BY <1>1, <1>2, <2>1, Restated DEF Typed
  <1>5. Kept(counter.orders[o]) /\ Covered(counter) /\ counter.orders[o].traded = 0
    BY <1>1, <1>3 DEF Safe, Tracked, Kept
  <1>6. Kept(D.orders[o])
    BY <1>4, <1>5, OmsAssumption DEF Kept
  <1>7. Covered(D)
    <2>1. \A p \in Sells : D.orders[p].traded = counter.orders[p].traded
      BY <1>4 DEF Only, Orders
    <2>2. counter.hold \in Nat /\ counter.yd \in Nat
      BY <1>1, CounterFields DEF Typed
    <2> QED
      BY <1>4, <1>5, <2>1, <2>2, CoveredSame
  <1>8. PICK s : s = <<>> /\ s \in Seq(Callbacks) /\ Elems(s) = {} /\ queue \o s = queue /\ Ordered(s)
    BY <1>1, NoCallbacks DEF Typed
  <1>9. OnItsWay(o, queue \o s, local', asking, oms.orders[o], D.orders[o])
    BY <1>3, <1>4 DEF OnItsWay, Over
  <1>10. Safe(D, local', queue \o s, cache, oms, asking)
    <2>1. counter.orders[o].status \notin Over /\ D.orders[o].status # "none"
      BY <1>3, <1>4 DEF Over
    <2>2. local \subseteq local' /\ local' \subseteq local \cup {o}
      BY <1>3
    <2>3. counter.orders[o].traded <= D.orders[o].traded
      BY <1>4, <1>5
    <2> QED
      BY <1>1, <1>4, <1>6, <1>7, <1>8, <1>9, <2>1, <2>2, <2>3, Moved DEF Typed
  <1>11. local' \subseteq Orders
    BY <1>1, <1>3 DEF Typed
  <1> QED
    BY <1>1, <1>3, <1>4, <1>8, <1>10, <1>11, Types DEF IInv, Typed

LEMMA BecomesKept ==
    ASSUME IInv, NEW o \in Orders, NEW status \in {"nottraded", "cancelled", "rejected"},
           counter.orders[o].status \in Live, Becomes(o, status)
    PROVE  IInv'
  <1>1. /\ Typed(counter, local, queue, cache, oms, asking, recoveries, restarts)
        /\ Safe(counter, local, queue, cache, oms, asking)
    BY Types DEF IInv
  <1>2. PICK D, d : /\ D = Restate(counter, o, status)
                    /\ d = OrderEvent(o, D.orders[o])
    OBVIOUS
  <1>3. /\ counter' = D /\ queue' = Append(queue, d)
        /\ UNCHANGED <<local, cache, oms, asking, recoveries, restarts>>
    BY <1>2 DEF Becomes, Restate
  <1>4. /\ D \in CounterType /\ Only(o, counter.orders, D.orders)
        /\ D.orders[o] \in Reports /\ D.orders[o].status = status
        /\ D.orders[o].traded = counter.orders[o].traded
        /\ D.hold = counter.hold /\ D.yd = counter.yd
    <2>1. status \in Live \cup Over
      BY DEF Live, Over
    <2> QED
      BY <1>1, <1>2, <2>1, Restated DEF Typed
  <1>5. Kept(counter.orders[o]) /\ Covered(counter)
    BY <1>1 DEF Safe, Tracked
  <1>6. Kept(D.orders[o]) /\ D.orders[o].traded # Volume
    BY <1>4, <1>5 DEF Kept, Live
  <1>7. Covered(D)
    <2>1. \A p \in Sells : D.orders[p].traded = counter.orders[p].traded
      BY <1>4 DEF Only, Orders
    <2>2. counter.hold \in Nat /\ counter.yd \in Nat
      BY <1>1, CounterFields DEF Typed
    <2> QED
      BY <1>4, <1>5, <2>1, <2>2, CoveredSame
  <1>8. d \in Callbacks /\ d.kind = "order" /\ d.o = o /\ d.report = D.orders[o]
    BY <1>2, <1>4, CallbackTypes
  <1>9. PICK s : /\ s = <<d>> /\ s \in Seq(Callbacks) /\ Elems(s) = {d}
                 /\ queue' = queue \o s /\ Ordered(s)
    BY <1>1, <1>3, <1>8, OneCallback DEF Typed
  <1>10. counter.orders[o].traded \in Nat
    BY <1>1, CounterFields, Entry, OmsAssumption DEF Typed
  <1>11. Faithful(d, D.orders)
    <2>1. Stated(D.orders[o], D.orders[o])
      BY <1>4, <1>6, <1>10 DEF Stated
    <2> QED
      BY <1>8, <2>1 DEF Faithful
  <1>12. OnItsWay(o, queue \o s, local, asking, oms.orders[o], D.orders[o])
    <2>1. d \in Elems(queue \o s)
      BY <1>1, <1>9, PostedElems DEF Typed
    <2> QED
      BY <1>8, <2>1 DEF OnItsWay
  <1>13. Safe(D, local, queue \o s, cache, oms, asking) /\ queue \o s \in Seq(Callbacks)
    <2>1. counter.orders[o].status \notin Over /\ D.orders[o].status # "none"
      BY <1>4 DEF Over, Live
    <2>2. counter.orders[o].traded <= D.orders[o].traded
      BY <1>4, <1>10
    <2>3. \A c \in Elems(s) : Faithful(c, D.orders) /\ c.kind # "trade"
      BY <1>8, <1>9, <1>11
    <2>4. local \subseteq local /\ local \subseteq local \cup {o}
      OBVIOUS
    <2> QED
      BY <1>1, <1>4, <1>6, <1>7, <1>9, <1>12, <2>1, <2>2, <2>3, <2>4, Moved DEF Typed
  <1> QED
    BY <1>1, <1>3, <1>4, <1>9, <1>13, Types DEF IInv, Typed

LEMMA TwoCallbacks ==
    ASSUME NEW S, NEW c \in S, NEW d \in S
    PROVE  <<c, d>> \in Seq(S) /\ Elems(<<c, d>>) = {c, d} /\ (Before(c, d) => Ordered(<<c, d>>))
  <1>1. PICK s : s = <<c, d>> /\ s \in Seq(S) /\ Len(s) = 2 /\ s[1] = c /\ s[2] = d
    <2>1. <<c, d>> \in Seq(S)
      OBVIOUS
    <2>2. Len(<<c, d>>) = 2 /\ <<c, d>>[1] = c /\ <<c, d>>[2] = d
      OBVIOUS
    <2> QED
      BY <2>1, <2>2, Zenon
  <1>2. Elems(s) = {c, d}
    BY <1>1 DEF Elems
  <1>3. Before(c, d) => Ordered(s)
    <2> SUFFICES ASSUME Before(c, d), NEW i \in 1..2, NEW j \in 1..2, i < j PROVE Before(s[i], s[j])
      BY <1>1 DEF Ordered
    <2>1. i = 1 /\ j = 2
      OBVIOUS
    <2> QED
      BY <1>1, <2>1
  <1> QED
    BY <1>1, <1>2, <1>3

LEMMA FillKept ==
    ASSUME IInv, NEW o \in Orders, NEW first \in BOOLEAN, CounterFill(o, first)
    PROVE  IInv'
  <1>1. /\ Typed(counter, local, queue, cache, oms, asking, recoveries, restarts)
        /\ Safe(counter, local, queue, cache, oms, asking)
    BY Types DEF IInv
  <1>2. counter.orders[o].status \in {"nottraded", "parttraded"}
    BY DEF CounterFill
  <1>3. PICK v \in Nat : v = Volume /\ v > 0
    BY OmsAssumption
  <1>4. PICK t \in Nat : t = counter.orders[o].traded /\ t < v
    <2>1. counter.orders[o].traded \in 0..Volume + 1
      BY <1>1, CounterFields, Entry DEF Typed
    <2>2. Kept(counter.orders[o])
      BY <1>1 DEF Safe, Tracked
    <2> QED
      BY <1>2, <1>3, <2>1, <2>2 DEF Kept
  <1>5. PICK a : a = IF t + 1 < v THEN "parttraded" ELSE "alltraded"
    OBVIOUS
  <1>6. PICK r : r = OneMore(counter.orders[o]) /\ r \in Reports /\ r.status = a /\ r.traded = t + 1
    <2>1. OneMore(counter.orders[o]) = [status |-> a, traded |-> t + 1]
      BY <1>3, <1>4, <1>5 DEF OneMore
    <2>2. a \in Live \cup Over /\ t + 1 \in 0..Volume + 1
      BY <1>3, <1>4, <1>5 DEF Live, Over
    <2> QED
      BY <2>1, <2>2, Report
  <1>7. PICK d : d = [kind |-> "trade", fill |-> <<o, t + 1>>] /\ d \in Callbacks
                 /\ d.kind = "trade" /\ d.fill[1] = o /\ d.fill[2] = t + 1 /\ t + 1 \in 1..v
    <2>1. PICK k \in 1..v : k = t + 1
      BY <1>3, <1>4
    <2>2. <<o, k>> \in Orders \X (1..v) /\ <<o, k>>[1] = o /\ <<o, k>>[2] = k
      OBVIOUS
    <2>3. PICK f \in Fills : f = <<o, k>> /\ f[1] = o /\ f[2] = k
      BY <1>3, <2>2 DEF Fills
    <2>4. /\ [kind |-> "trade", fill |-> f].kind = "trade"
          /\ [kind |-> "trade", fill |-> f].fill = f
      OBVIOUS
    <2>5. [kind |-> "trade", fill |-> f] \in Callbacks
      BY CallbackTypes
    <2> QED
      BY <2>1, <2>3, <2>4, <2>5
  <1>8. PICK e : /\ e = OrderEvent(o, r) /\ e \in Callbacks
                 /\ e.kind = "order" /\ e.o = o /\ e.report = r
    BY <1>6, CallbackTypes
  <1>9. PICK s : s = CASE a # "alltraded" -> <<d>>
                       [] a = "alltraded" /\ first -> <<e, d>>
                       [] OTHER -> <<d, e>>
    OBVIOUS
  <1>10. /\ counter' = [orders |-> [counter.orders EXCEPT ![o] = r],
                        hold |-> IF o \in Buys THEN counter.hold + 1 ELSE counter.hold - 1,
                        yd |-> IF o \in Buys THEN counter.yd ELSE counter.yd - 1]
         /\ queue' = queue \o s
         /\ UNCHANGED <<local, cache, oms, asking, recoveries, restarts>>
    <2>1. <<o, OneMore(counter.orders[o]).traded>> = <<o, t + 1>>
      BY <1>6
    <2> QED
      BY <1>6, <1>7, <1>8, <1>9, <2>1 DEF CounterFill
  <1>11. /\ s \in Seq(Callbacks) /\ Ordered(s) /\ d \in Elems(s) /\ Elems(s) \subseteq {d, e}
         /\ a = "alltraded" => e \in Elems(s)
    <2>1. CASE a # "alltraded"
      <3>1. s = <<d>>
        BY <1>9, <2>1
      <3> QED
        <4>1. queue \in Seq(Callbacks)
          BY <1>1 DEF Typed
        <4>2. <<d>> \in Seq(Callbacks) /\ Elems(<<d>>) = {d} /\ Ordered(<<d>>)
          BY <1>7, <4>1, OneCallback
        <4> QED
          BY <2>1, <3>1, <4>2
    <2>2. CASE a = "alltraded" /\ first
      <3>1. s = <<e, d>>
        BY <1>9, <2>2
      <3>2. t + 1 = v
        BY <1>4, <1>5, <2>2
      <3>3. Before(e, d)
        BY <1>3, <1>6, <1>7, <1>8, <3>2 DEF Before, Below
      <3> QED
        BY <1>7, <1>8, <3>1, <3>3, TwoCallbacks
    <2>3. CASE a = "alltraded" /\ ~first
      <3>1. s = <<d, e>>
        BY <1>9, <2>3
      <3>2. Before(d, e)
        BY <1>8 DEF Before
      <3> QED
        BY <1>7, <1>8, <3>1, <3>2, TwoCallbacks
    <2> QED
      BY <2>1, <2>2, <2>3
  <1>12. PICK D : /\ D = counter' /\ D.orders = [counter.orders EXCEPT ![o] = r]
                  /\ D.hold = (IF o \in Buys THEN counter.hold + 1 ELSE counter.hold - 1)
                  /\ D.yd = (IF o \in Buys THEN counter.yd ELSE counter.yd - 1)
                  /\ D = [orders |-> D.orders, hold |-> D.hold, yd |-> D.yd]
    BY <1>10
  <1>13. PICK old \in [Orders -> Entries], hold \in Nat, yd \in Nat :
            /\ old = counter.orders /\ hold = counter.hold /\ yd = counter.yd
    BY <1>1, CounterFields DEF Typed
  <1>14. D.orders \in [Orders -> Entries] /\ D.orders[o] = r /\ Only(o, old, D.orders)
    <2>1. D.orders = [old EXCEPT ![o] = r] /\ r \in Entries
      BY <1>6, <1>12, <1>13, Entries2
    <2> QED
      BY <2>1 DEF Only
  <1>15. Covered(D) /\ D.hold \in Nat /\ D.yd \in Nat
    <2>1. Covered(counter)
      BY <1>1 DEF Safe
    <2>2. CASE o \in Buys
      <3>1. D.hold = hold + 1 /\ D.yd = yd
        BY <1>12, <1>13, <2>2
      <3>2. \A p \in Sells : D.orders[p].traded = counter.orders[p].traded
        BY <1>13, <1>14, <2>2, OmsAssumption DEF Only, Orders
      <3>3. D.yd = counter.yd /\ D.hold >= counter.hold /\ D.hold \in Nat
        BY <1>13, <3>1
      <3> QED
        BY <1>13, <2>1, <3>1, <3>2, <3>3, CoveredSame
    <2>3. CASE o \notin Buys
      <3>1. D.hold = counter.hold - 1 /\ D.yd = counter.yd - 1 /\ o \in Sells
        BY <1>12, <2>3 DEF Orders
      <3>2. \A p \in Sells \ {o} : D.orders[p].traded = counter.orders[p].traded
        BY <1>13, <1>14 DEF Only, Orders
      <3>3. D.orders[o].traded = t + 1 /\ t < Volume
        BY <1>3, <1>4, <1>6, <1>14
      <3>4. counter \in CounterType
        BY <1>1 DEF Typed
      <3> QED
        BY <1>4, <2>1, <3>1, <3>2, <3>3, <3>4, CoveredSell
    <2> QED
      BY <2>2, <2>3
  <1>16. D \in CounterType
    BY <1>12, <1>14, <1>15 DEF CounterType
  <1>17. Kept(r) /\ Stated(r, r)
    BY <1>3, <1>4, <1>5, <1>6 DEF Kept, Stated, Over
  <1>18. \A c \in Elems(s) : Faithful(c, D.orders)
    <2>1. Faithful(d, D.orders)
      BY <1>4, <1>6, <1>7, <1>14 DEF Faithful
    <2>2. Faithful(e, D.orders)
      BY <1>8, <1>14, <1>17 DEF Faithful
    <2> QED
      BY <1>11, <2>1, <2>2
  <1>19. OnItsWay(o, queue \o s, local, asking, oms.orders[o], r)
    <2>1. Elems(queue) \subseteq Elems(queue \o s) /\ Elems(s) \subseteq Elems(queue \o s)
      BY <1>1, <1>11, PostedElems DEF Typed
    <2>2. CASE a = "alltraded"
      <3>1. e \in Elems(queue \o s) /\ r.status \notin Live /\ e.report.status \in Over
        BY <1>6, <1>8, <1>11, <2>1, <2>2 DEF Live, Over
      <3> QED
        BY <1>8, <3>1 DEF OnItsWay
    <2>3. CASE a # "alltraded"
      <3>1. OnItsWay(o, queue, local, asking, oms.orders[o], counter.orders[o])
        BY <1>1 DEF Safe, Tracked
      <3>2. OnItsWay(o, queue \o s, local, asking, oms.orders[o], counter.orders[o])
        BY <2>1, <3>1, Longer
      <3>3. r.status \notin Over /\ counter.orders[o].status \in Live
        BY <1>2, <1>5, <1>6, <2>3 DEF Live, Over
      <3> QED
        BY <3>2, <3>3 DEF OnItsWay
    <2> QED
      BY <2>2, <2>3
  <1>20. Safe(D, local, queue \o s, cache, oms, asking) /\ queue \o s \in Seq(Callbacks)
    <2>1. /\ counter.orders[o].status \notin Over /\ D.orders[o].status # "none"
          /\ counter.orders[o].traded <= D.orders[o].traded
      BY <1>2, <1>4, <1>5, <1>6, <1>14 DEF Over
    <2>2. Kept(D.orders[o]) /\ Only(o, counter.orders, D.orders)
      BY <1>13, <1>14, <1>17
    <2>3. \A c \in Elems(s) : c.kind = "trade" =>
              c.fill[1] = o /\ c.fill[2] \in 1..Volume /\ counter.orders[o].traded < c.fill[2]
      BY <1>3, <1>4, <1>7, <1>8, <1>11
    <2>4. OnItsWay(o, queue \o s, local, asking, oms.orders[o], D.orders[o])
      BY <1>14, <1>19
    <2>5. local \subseteq local /\ local \subseteq local \cup {o}
      OBVIOUS
    <2> QED
      BY <1>1, <1>11, <1>15, <1>16, <1>18, <2>1, <2>2, <2>3, <2>4, <2>5, Moved DEF Typed
  <1> QED
    BY <1>1, <1>10, <1>12, <1>16, <1>20, Types DEF IInv, Typed

-----------------------------------------------------------------------------
(***************************************************************************)
(* The theorems.                                                           *)
(***************************************************************************)
LEMMA InitIInv == Init => IInv
  <1> SUFFICES ASSUME Init PROVE IInv
    OBVIOUS
  <1>1. /\ counter.hold = Held /\ counter.yd = Held /\ counter \in CounterType
        /\ \A o \in Orders : counter.orders[o] = Unknown
    BY OmsAssumption, Entries2 DEF Init, CounterType
  <1>2. /\ local = {} /\ queue = <<>> /\ oms = NewOms /\ recoveries = 0 /\ restarts = 0
        /\ asking \in Seq(Queries) /\ "orders" \in Elems(asking)
    BY Asked DEF Init
  <1>3. cache \in [Orders -> Entries] /\ \A o \in Orders : cache[o] = Unknown
    BY Entries2 DEF Init
  <1>4. NewOms \in OmsType /\ \A o \in Orders : NewOms.orders[o] = Unknown
    BY Entries2 DEF NewOms, OmsType, Books
  <1>5. <<>> \in Seq(Callbacks) /\ Elems(<<>>) = {} /\ Ordered(<<>>)
    <2>1. <<>> \in Seq(Callbacks)
      OBVIOUS
    <2> QED
      BY <2>1, NoCallbacks
  <1>6. Typed(counter, local, queue, cache, oms, asking, recoveries, restarts)
    BY <1>1, <1>2, <1>3, <1>4, <1>5, OmsAssumption DEF Typed
  <1>7. Covered(counter)
    <2>1. \A f \in Sells \X (1..Volume) : ~(f[2] <= counter.orders[f[1]].traded)
      <3> SUFFICES ASSUME NEW f \in Sells \X (1..Volume) PROVE ~(f[2] <= counter.orders[f[1]].traded)
        OBVIOUS
      <3>1. f[1] \in Orders /\ f[2] \in 1..Volume
        BY DEF Orders
      <3>2. counter.orders[f[1]].traded = 0
        BY <1>1, <3>1 DEF Unknown
      <3> QED
        BY <3>1, <3>2, OmsAssumption
    <2>2. Sold(counter) = {}
      BY <2>1 DEF Sold
    <2>3. Cardinality(Sold(counter)) = 0
      BY <2>2, FS_EmptySet
    <2> QED
      BY <1>1, <2>3, OmsAssumption DEF Covered
  <1>8. ASSUME NEW o \in Orders
        PROVE  Tracked(o, queue, local, asking, cache[o], oms.orders[o], counter.orders[o])
    <2>1. Unknown.traded = 0 /\ Unknown.status = "none"
      BY DEF Unknown
    <2>2. Kept(Unknown)
      BY <2>1, OmsAssumption DEF Kept
    <2>3. Cached(o, queue, Unknown, Unknown, Unknown)
      BY <1>2, <1>5, <2>1, OmsAssumption DEF Cached, Fits
    <2>4. Behind(Unknown, Unknown)
      BY <2>1 DEF Behind, Over
    <2>5. OnItsWay(o, queue, local, asking, Unknown, Unknown)
      BY <1>2, EveryOrder
    <2> QED
      BY <1>1, <1>2, <1>3, <1>4, <2>2, <2>3, <2>4, <2>5 DEF Tracked
  <1> QED
    BY <1>2, <1>5, <1>6, <1>7, <1>8, Types DEF IInv, Safe

LEMMA NextIInv == IInv /\ [Next]_vars => IInv'
  <1> SUFFICES ASSUME IInv, [Next]_vars PROVE IInv'
    OBVIOUS
  <1>1. CASE Dispatch
    BY <1>1, LocalKept, OrderKept, TradeKept, ReplayKept, PositionKept DEF Dispatch
  <1>2. CASE Answer
    BY <1>2, ReplyPositionKept, ReplyOrdersKept, ReplyTradesKept DEF Answer
  <1>3. CASE \E o \in Orders : Send(o) \/ PostLocal(o)
    BY <1>3, SendKept, PostLocalKept
  <1>4. ASSUME NEW o \in Orders, CounterAccept(o) \/ CounterReject(o) \/ CounterCancel(o)
        PROVE  IInv'
    <2>1. PICK status \in {"nottraded", "cancelled", "rejected"} :
             Becomes(o, status) /\ counter.orders[o].status \in Live
      BY <1>4 DEF CounterAccept, CounterReject, CounterCancel, Live
    <2> QED
      BY <2>1, BecomesKept
  <1>5. CASE \E o \in Orders : Counter(o)
    BY <1>4, <1>5, FillKept DEF Counter
  <1>6. CASE Poll \/ Recover \/ Restart
    BY <1>6, PollKept, RecoverKept, RestartKept
  <1>7. CASE UNCHANGED vars
    <2>1. UNCHANGED <<counter, local, queue, cache, oms, asking, recoveries, restarts>>
      BY <1>7 DEF vars
    <2> QED
      BY <2>1, Types DEF IInv, Typed
  <1> QED
    BY <1>1, <1>2, <1>3, <1>5, <1>6, <1>7 DEF Next

LEMMA Invariance == Spec => []IInv
  BY InitIInv, NextIInv, PTL DEF Spec

\* What the inductive invariant says of one order, once the tables are typed.
LEMMA OneOrder ==
    ASSUME IInv, NEW o \in Orders
    PROVE  /\ oms.orders[o] \in Entries /\ counter.orders[o] \in Entries
           /\ Behind(oms.orders[o], counter.orders[o])
           /\ OnItsWay(o, queue, local, asking, oms.orders[o], counter.orders[o])
  <1>1. /\ Typed(counter, local, queue, cache, oms, asking, recoveries, restarts)
        /\ Safe(counter, local, queue, cache, oms, asking)
    BY Types DEF IInv
  <1> QED
    BY <1>1, CounterFields, OmsOrders DEF Typed, Safe, Tracked

\* The variables keep their types: the callbacks in the queue are well-formed, no
\* cached order counts more than one lot too many (_handle_trade_event), and the
\* holding at the counter never goes below zero.
THEOREM TypeCorrect == Spec => []TypeOK
  <1>1. IInv => TypeOK
    BY DEF IInv
  <1> QED
    BY <1>1, Invariance, PTL

\* The OMS never runs ahead of the broker, for all orders and volumes and however
\* pushes, own records, answers, polls, recoveries and restarts interleave
\* (oms.on_order, order_fsm.ALLOWED, _handle_trade_event).
THEOREM NeverAheadOfTheBroker == Spec => []NeverAhead
  <1>1. IInv => NeverAhead
    BY OneOrder DEF NeverAhead, Behind
  <1> QED
    BY <1>1, Invariance, PTL

\* When nothing is under way, an order is active in the OMS exactly when it works
\* at the broker (oms.on_order, order_fsm, vendor_common): what the OMS does not
\* know of an order is in the queue, still to be posted or asked for.
THEOREM ActiveOrdersAreTrue == Spec => []ActiveIsTrue
  <1>1. IInv => ActiveIsTrue
    <2> SUFFICES ASSUME IInv, Quiet, NEW o \in Orders
                 PROVE  oms.orders[o].status \in Live <=> counter.orders[o].status \in Live
      BY DEF ActiveIsTrue
    <2>1. PICK known \in Entries, told \in Entries :
             /\ known = oms.orders[o] /\ told = counter.orders[o]
             /\ Behind(known, told) /\ OnItsWay(o, <<>>, {}, <<>>, known, told)
      BY OneOrder DEF Quiet
    <2>2. Elems(<<>>) = {}
      BY DEF Elems
    <2>3. /\ told.status \in Live => known.status # "none"
          /\ told.status \in Over => known.status \in Over
      BY <2>1, <2>2 DEF OnItsWay
    <2>4. /\ known.status \in Live \cup Over \cup {"none"}
          /\ told.status \in Live \cup Over \cup {"none"}
      BY Entry
    <2> QED
      BY <2>1, <2>3, <2>4 DEF Behind, Live, Over
  <1> QED
    BY <1>1, Invariance, PTL
=============================================================================
