-------------------------- MODULE LiveEngineProofs --------------------------
(***************************************************************************)
(* Theorems about LiveEngine, for every set of references, configuration   *)
(* of the gate, equity and number of crashes and days.                     *)
(***************************************************************************)
EXTENDS LiveEngine, TLAPS

USE DEF engine, broker, world, history

-----------------------------------------------------------------------------
(***************************************************************************)
(* The gate.                                                               *)
(***************************************************************************)

\* check_equity touches the baselines and the latch only.
LEMMA CheckEquityFacts ==
  ASSUME NEW g \in Gates, NEW e \in Balances
  PROVE  /\ CheckEquity(g, e) \in Gates
         /\ CheckEquity(g, e).orders = g.orders
         /\ CheckEquity(g, e).refs = g.refs
         /\ g.latch # "" => CheckEquity(g, e).latch = g.latch
         /\ g.dayStart # 0 => CheckEquity(g, e).dayStart = g.dayStart
         /\ g.dayStart \in Balances => CheckEquity(g, e).dayStart \in Balances
         /\ CheckEquity(g, e).latch \in Rules
  <1> DEFINE d == IF g.dayStart = 0 THEN e ELSE g.dayStart
             c == IF g.canary = 0 THEN e ELSE g.canary
             l == IF Loses(d, e, limits.daily) THEN "daily_loss"
                  ELSE IF Loses(c, e, limits.canary) THEN "canary_loss" ELSE ""
  <1>1. e \in Nat
    BY LiveAssumption DEF Balances
  <1>2. CASE g.latch # "" \/ e = 0
    <2>1. CheckEquity(g, e) = g
      BY <1>2 DEF CheckEquity
    <2> QED BY <2>1 DEF Gates
  <1>3. CASE g.latch = "" /\ e # 0
    <2>1. CheckEquity(g, e) = [g EXCEPT !.dayStart = d, !.canary = c, !.latch = l]
      BY <1>3 DEF CheckEquity
    <2>2. d \in Nat /\ c \in Nat /\ l \in Rules
      BY <1>1 DEF Gates, Rules
    <2>3. g.dayStart # 0 => d = g.dayStart
      OBVIOUS
    <2>4. g.dayStart \in Balances => d \in Balances
      OBVIOUS
    <2> HIDE DEF d, c, l
    <2> QED BY <1>3, <2>1, <2>2, <2>3, <2>4 DEF Gates
  <1> QED BY <1>2, <1>3

\* The gate of a process that has just been built.
LEMMA FreshGateType == FreshGate \in Gates
  BY DEF FreshGate, Gates, Rules

\* A restored gate has the counters of the ledger.
LEMMA RestoredFacts ==
  ASSUME TypeOK, NEW g \in Gates, NEW e \in Balances
  PROVE  /\ Restored(g, e) \in Gates
         /\ Restored(g, e).orders = ledger.orders
         /\ Restored(g, e).refs = ledger.refs
         /\ Restored(g, e).dayStart = RestoredDayStart(g, e)
         /\ ledger.mark # "" => Restored(g, e).latch = ledger.mark
  BY DEF TypeOK, Restored, RestoredRefs, RestoredDayStart, RestoredLatch,
     Gates, Rules, Files, Ledgers

\* An acknowledged latch.
LEMMA ClearedType ==
  ASSUME NEW g \in Gates
  PROVE  /\ [g EXCEPT !.latch = ""] \in Gates
         /\ [g EXCEPT !.latch = ""].orders = g.orders
         /\ [g EXCEPT !.latch = ""].refs = g.refs
         /\ [g EXCEPT !.latch = ""].dayStart = g.dayStart
  BY DEF Gates, Rules

\* An accepted order counts.
LEMMA CountedFacts ==
  ASSUME NEW g \in Gates, NEW r \in Refs
  PROVE  /\ Counted(g, r) \in Gates
         /\ Counted(g, r).orders = g.orders + 1
         /\ Counted(g, r).refs = g.refs \cup {r}
         /\ Counted(g, r).dayStart = g.dayStart
         /\ Counted(g, r).latch = g.latch
  <1>1. g.orders + 1 \in Nat /\ g.refs \cup {r} \in SUBSET Refs
    BY DEF Gates
  <1>2. ASSUME NEW n \in Nat, NEW s \in SUBSET Refs
        PROVE  /\ [g EXCEPT !.orders = n, !.refs = s] \in Gates
               /\ [g EXCEPT !.orders = n, !.refs = s].orders = n
               /\ [g EXCEPT !.orders = n, !.refs = s].refs = s
               /\ [g EXCEPT !.orders = n, !.refs = s].dayStart = g.dayStart
               /\ [g EXCEPT !.orders = n, !.refs = s].latch = g.latch
    BY DEF Gates, Rules
  <1> QED BY <1>1, <1>2 DEF Counted

-----------------------------------------------------------------------------
(***************************************************************************)
(* Types.  A baseline is a balance or 0, a submission under way is about a *)
(* reference, and a process that is down has nothing in memory.            *)
(***************************************************************************)
Tidy ==
    /\ gate.dayStart \in Balances
    /\ file.dayStart \in Balances
    /\ main.pc # "idle" => main.ref \in Refs
    /\ ~up => main = Idle /\ gate = FreshGate

TypeInv == TypeOK /\ Tidy

\* write_state keeps types when the gate and the baseline are typed.
LEMMA SaveType ==
  ASSUME NEW g \in Gates, NEW e \in Balances, Save(g, e),
         base \in Balances, g.dayStart \in Balances
  PROVE  /\ file' \in Files
         /\ file'.dayStart \in Balances
         /\ base' \in Balances
  BY LiveAssumption DEF Save, Snapshot, Files, Gates, Rules, Balances

\* Between submissions the main thread is nowhere.
LEMMA IdleFacts == Idle \in Places /\ Idle.pc = "idle"
  BY DEF Idle, Places, Balances

\* What is written to the ledger.
LEMMA LedgerFacts ==
  ASSUME NEW l \in Ledgers, NEW n \in Nat, NEW s \in SUBSET Refs
  PROVE  /\ [l EXCEPT !.orders = n, !.refs = s] \in Ledgers
         /\ [l EXCEPT !.orders = n, !.refs = s].orders = n
         /\ [l EXCEPT !.orders = n, !.refs = s].refs = s
         /\ [l EXCEPT !.orders = n, !.refs = s].mark = l.mark
  BY DEF Ledgers, Rules

\* A resume in the ledger ends the loss halt before it.
LEMMA ResumedFacts ==
  ASSUME NEW l \in Ledgers
  PROVE  /\ [l EXCEPT !.mark = ""] \in Ledgers
         /\ [l EXCEPT !.mark = ""].orders = l.orders
         /\ [l EXCEPT !.mark = ""].refs = l.refs
         /\ [l EXCEPT !.mark = ""].mark = ""
  BY DEF Ledgers, Rules

\* halt writes a loss rule or nothing and leaves the counters of the ledger.
LEMMA HaltFacts ==
  ASSUME TypeOK, NEW mark \in Rules, Halt(mark)
  PROVE  /\ halted' = TRUE
         /\ ledger' \in Ledgers
         /\ ledger'.orders = ledger.orders
         /\ ledger'.refs = ledger.refs
         /\ ledger'.mark = IF mark = "" THEN ledger.mark ELSE mark
         /\ tripped' = (tripped \/ mark # "")
         /\ tripped' \in BOOLEAN
         /\ asked' \subseteq Refs
  BY DEF TypeOK, Halt, Ledgers, Rules

\* The end of a recovery: the gate is the restored one, the counters of the
\* ledger stay, and a latch leaves the engine halted.
LEMMA HaltOnLatchFacts ==
  ASSUME TypeOK, NEW g \in Gates, NEW e \in Balances, NEW h \in BOOLEAN,
         g.dayStart \in Balances, HaltOnLatch(g, e, h)
  PROVE  /\ gate' = g
         /\ carried' = {}
         /\ file' = Snapshot(g, e)
         /\ file' \in Files
         /\ file'.dayStart \in Balances
         /\ base' = IF base = 0 THEN g.dayStart ELSE base
         /\ base' \in Balances
         /\ halted' = (h \/ g.latch # "")
         /\ halted' \in BOOLEAN
         /\ ledger' \in Ledgers
         /\ ledger'.orders = ledger.orders
         /\ ledger'.refs = ledger.refs
         /\ ledger'.mark = IF g.latch = "" \/ h THEN ledger.mark ELSE g.latch
         /\ tripped' = (tripped \/ (g.latch # "" /\ ~h))
         /\ tripped' \in BOOLEAN
         /\ asked' \subseteq Refs
  <1>1. Save(g, e) /\ gate' = g /\ carried' = {}
    BY DEF HaltOnLatch
  <1>2. /\ file' \in Files
        /\ file'.dayStart \in Balances
        /\ base' \in Balances
    BY <1>1, SaveType DEF TypeOK, Balances
  <1>3. g.latch \in Rules
    BY DEF Gates
  <1>4. CASE g.latch # "" /\ ~h
    BY <1>1, <1>2, <1>3, <1>4, HaltFacts DEF HaltOnLatch, Save
  <1>5. CASE ~(g.latch # "" /\ ~h)
    BY <1>1, <1>2, <1>5 DEF HaltOnLatch, Save, TypeOK, Ledgers
  <1> QED BY <1>4, <1>5

\* A new process: the gate it ends up with.
LEMMA StartGate ==
  ASSUME TypeInv, NEW e \in Balances
  PROVE  /\ Restored(CheckEquity(FreshGate, e), e) \in Gates
         /\ Restored(CheckEquity(FreshGate, e), e).dayStart \in Balances
  <1>1. /\ CheckEquity(FreshGate, e) \in Gates
        /\ CheckEquity(FreshGate, e).dayStart \in Balances
    BY FreshGateType, CheckEquityFacts DEF FreshGate, Balances
  <1> QED
    BY <1>1, RestoredFacts DEF RestoredDayStart, TypeInv, Tidy, Balances

\* The gate a reconnection or a recovery restores from gate g.
LEMMA RestoredGate ==
  ASSUME TypeInv, NEW g \in Gates, NEW e \in Balances, g.dayStart \in Balances
  PROVE  /\ Restored(g, e) \in Gates
         /\ Restored(g, e).dayStart \in Balances
  BY RestoredFacts DEF RestoredDayStart, TypeInv, Tidy, Balances

\* Every action keeps the types.
LEMMA TypeInvStep == TypeInv /\ [Next]_vars => TypeInv'
  <1> SUFFICES ASSUME TypeInv, [Next]_vars
               PROVE  TypeInv'
    OBVIOUS
  <1>0. CASE UNCHANGED vars
    BY <1>0 DEF TypeInv, TypeOK, Tidy, vars
  <1>1. ASSUME NEW e \in StartEquities, Start(e)
        PROVE  TypeInv'
    <2>1. e \in Balances
      BY DEF StartEquities, Balances
    <2> DEFINE g == Restored(CheckEquity(FreshGate, e), e)
    <2>2. g \in Gates /\ g.dayStart \in Balances
      BY <2>1, StartGate
    <2>3. HaltOnLatch(g, e, FALSE)
      BY <1>1 DEF Start
    <2> HIDE DEF g
    <2>4. /\ gate' = g /\ file' \in Files /\ file'.dayStart \in Balances
          /\ base' \in Balances /\ halted' \in BOOLEAN /\ ledger' \in Ledgers
          /\ tripped' \in BOOLEAN /\ asked' \subseteq Refs
          /\ carried' \subseteq Refs
      BY <2>1, <2>2, <2>3, HaltOnLatchFacts DEF TypeInv
    <2> QED
      BY <1>1, <2>1, <2>2, <2>4 DEF Start, TypeInv, TypeOK, Tidy, Connections
  <1>2. CASE Crash
    <2>1. FreshGate.dayStart \in Balances /\ 0 \in Balances
      BY DEF FreshGate, Balances
    <2>2. crashes' \in 0..MaxCrashes
      <3>1. crashes \in 0..MaxCrashes /\ crashes < MaxCrashes /\ crashes' = crashes + 1
        BY <1>2 DEF Crash, TypeInv, TypeOK
      <3> QED BY <3>1, LiveAssumption
    <2>3. lost' \in Nat
      <3>1. lost \in Nat /\ (lost' = lost \/ lost' = lost + 1)
        BY <1>2 DEF Crash, TypeInv, TypeOK
      <3> QED BY <3>1
    <2> QED
      BY <1>2, <2>1, <2>2, <2>3, FreshGateType, IdleFacts
         DEF Crash, TypeInv, TypeOK, Tidy, Connections, Rules
  <1>3. CASE DayRoll
    <2>1. ledger' \in Ledgers
      BY <1>3, LedgerFacts DEF DayRoll, TypeInv, TypeOK
    <2>2. file' \in Files /\ file'.dayStart = file.dayStart
      BY <1>3 DEF DayRoll, TypeInv, TypeOK, Files, Rules
    <2>3. 0 \in Balances /\ day' \in 1..MaxDays
      BY <1>3, LiveAssumption DEF Balances, DayRoll, TypeInv, TypeOK
    <2>4. carried' \subseteq Refs
      BY <1>3 DEF DayRoll, TypeInv, TypeOK, Gates
    <2> QED
      BY <1>3, <2>1, <2>2, <2>3, <2>4 DEF DayRoll, TypeInv, TypeOK, Tidy
  <1>4. ASSUME NEW r \in Refs, SubmitCheck(r)
        PROVE  TypeInv'
    <2> DEFINE g == CheckEquity(gate, equity)
    <2>1. g \in Gates /\ g.dayStart \in Balances
      BY CheckEquityFacts DEF TypeInv, TypeOK, Tidy
    <2>2. Counted(g, r) \in Gates /\ Counted(g, r).dayStart = g.dayStart
      BY <2>1, CountedFacts
    <2> HIDE DEF g
    <2>3. \/ gate' = g \/ gate' = Counted(g, r)
      BY <1>4 DEF SubmitCheck, g
    <2>4. \/ main' = main
          \/ main' = [pc |-> "send", ref |-> r, equity |-> equity]
          \/ main' = [pc |-> "loss", ref |-> r, equity |-> equity]
      BY <1>4 DEF SubmitCheck
    <2>5. main' \in Places /\ (main'.pc # "idle" => main'.ref \in Refs)
      <3>1. equity \in Balances /\ main \in Places
        BY DEF TypeInv, TypeOK
      <3>2. CASE main' = main
        BY <3>1, <3>2 DEF TypeInv, Tidy
      <3>3. CASE main' = [pc |-> "send", ref |-> r, equity |-> equity]
        BY <3>1, <3>3 DEF Places
      <3>4. CASE main' = [pc |-> "loss", ref |-> r, equity |-> equity]
        BY <3>1, <3>4 DEF Places
      <3> QED BY <2>4, <3>2, <3>3, <3>4
    <2> QED
      BY <1>4, <2>1, <2>2, <2>3, <2>5 DEF SubmitCheck, TypeInv, TypeOK, Tidy
  <1>5. CASE LossHalt
    <2>1. Halt("") /\ "" \in Rules
      BY <1>5 DEF LossHalt, Rules
    <2> QED
      BY <1>5, <2>1, HaltFacts, IdleFacts DEF LossHalt, TypeInv, TypeOK, Tidy
  <1>6. CASE SendOrder
    <2>1. main.ref \in Refs /\ main'.ref = main.ref /\ main' \in Places
      BY <1>6 DEF SendOrder, TypeInv, TypeOK, Tidy, Places
    <2>2. sent' \in [Refs -> Nat]
      BY <1>6, <2>1 DEF SendOrder, TypeInv, TypeOK
    <2>3. up
      BY <1>6, IdleFacts DEF SendOrder, TypeInv, Tidy
    <2> QED
      BY <1>6, <2>1, <2>2, <2>3 DEF SendOrder, TypeInv, TypeOK, Tidy
  <1>7. CASE SendFails
    BY <1>7, IdleFacts DEF SendFails, TypeInv, TypeOK, Tidy
  <1>8. CASE AuditSubmit
    <2>1. ledger' \in Ledgers
      <3>1. main.ref \in Refs /\ ledger \in Ledgers
        BY <1>8 DEF AuditSubmit, TypeInv, TypeOK, Tidy
      <3>2. /\ ledger.orders + 1 \in Nat
            /\ ledger.refs \cup {main.ref} \in SUBSET Refs
        BY <3>1 DEF Ledgers
      <3> QED BY <1>8, <3>1, <3>2, LedgerFacts DEF AuditSubmit
    <2> QED
      BY <1>8, <2>1, IdleFacts DEF AuditSubmit, TypeInv, TypeOK, Tidy
  <1>9. CASE OperatorHalt
    BY <1>9, HaltFacts, SaveType
       DEF OperatorHalt, TypeInv, TypeOK, Tidy, Rules
  <1>10. CASE OperatorResume
    <2> DEFINE c == [gate EXCEPT !.latch = ""]
               g == CheckEquity(c, equity)
    <2>1. c \in Gates /\ c.dayStart \in Balances
      BY ClearedType DEF TypeInv, TypeOK, Tidy
    <2> HIDE DEF c
    <2>2. g \in Gates /\ g.dayStart \in Balances
      BY <2>1, CheckEquityFacts DEF TypeInv, TypeOK, Tidy
    <2> HIDE DEF g
    <2>3. gate' = g /\ Save(g, equity) /\ halted' \in BOOLEAN
      BY <1>10 DEF OperatorResume, g, c
    <2>4. file' \in Files /\ file'.dayStart \in Balances /\ base' \in Balances
      BY <2>2, <2>3, SaveType DEF TypeInv, TypeOK
    <2>5. ledger' \in Ledgers /\ after' \in Nat /\ tripped' \in BOOLEAN
      <3>1. \/ UNCHANGED <<ledger, after, tripped>>
            \/ /\ ledger' = [ledger EXCEPT !.mark = ""]
               /\ after' = 0
               /\ tripped' = FALSE
        BY <1>10 DEF OperatorResume
      <3>2. ledger \in Ledgers /\ after \in Nat /\ tripped \in BOOLEAN
        BY DEF TypeInv, TypeOK
      <3>3. [ledger EXCEPT !.mark = ""] \in Ledgers
        BY <3>2, ResumedFacts
      <3>4. ledger' \in Ledgers
        BY <3>1, <3>2, <3>3
      <3>5. after' = after \/ after' = 0
        BY <3>1
      <3>6. tripped' = tripped \/ tripped' = FALSE
        BY <3>1
      <3>7. after' \in Nat
        BY <3>2, <3>5
      <3>8. tripped' \in BOOLEAN
        BY <3>2, <3>6
      <3> QED BY <3>4, <3>7, <3>8
    <2> QED
      BY <1>10, <2>2, <2>3, <2>4, <2>5
         DEF OperatorResume, TypeInv, TypeOK, Tidy, Ready
  <1>11. ASSUME NEW auto \in BOOLEAN, Reconnect(auto)
         PROVE  TypeInv'
    <2> DEFINE g == IF auto THEN CheckEquity(gate, equity) ELSE gate
               h == IF auto THEN g.latch # "" ELSE HaltedForReconnect(auto)
               rg == Restored(g, equity)
    <2>1. g \in Gates /\ g.dayStart \in Balances
      BY CheckEquityFacts DEF TypeInv, TypeOK, Tidy
    <2>2. HaltOnLatch(rg, equity, h) /\ h \in BOOLEAN
      BY <1>11 DEF Reconnect, HaltedForReconnect, TypeInv, TypeOK
    <2> HIDE DEF g, h
    <2>3. rg \in Gates /\ rg.dayStart \in Balances
      BY <2>1, RestoredGate DEF TypeInv, TypeOK
    <2> HIDE DEF rg
    <2>4. /\ gate' = rg /\ file' \in Files /\ file'.dayStart \in Balances
          /\ base' \in Balances /\ halted' \in BOOLEAN /\ ledger' \in Ledgers
          /\ tripped' \in BOOLEAN /\ asked' \subseteq Refs
          /\ carried' \subseteq Refs
      BY <2>2, <2>3, HaltOnLatchFacts DEF TypeInv, TypeOK
    <2> QED
      BY <1>11, <2>3, <2>4
         DEF Reconnect, TypeInv, TypeOK, Tidy, Connections, Ready
  <1>12. ASSUME NEW auto \in BOOLEAN, ReconnectFails(auto)
         PROVE  TypeInv'
    BY <1>12, SaveType DEF ReconnectFails, HaltedForReconnect, TypeInv, TypeOK,
       Tidy, Connections
  <1>13. CASE Recover
    <2> DEFINE rg == Restored(gate, equity)
    <2>1. rg \in Gates /\ rg.dayStart \in Balances
      BY RestoredGate DEF TypeInv, TypeOK, Tidy
    <2>2. HaltOnLatch(rg, equity, halted)
      BY <1>13 DEF Recover
    <2> HIDE DEF rg
    <2>3. /\ gate' = rg /\ file' \in Files /\ file'.dayStart \in Balances
          /\ base' \in Balances /\ halted' \in BOOLEAN /\ ledger' \in Ledgers
          /\ tripped' \in BOOLEAN /\ asked' \subseteq Refs
          /\ carried' \subseteq Refs
      BY <2>1, <2>2, HaltOnLatchFacts DEF TypeInv, TypeOK
    <2> QED
      BY <1>13, <2>1, <2>3 DEF Recover, TypeInv, TypeOK, Tidy, Ready
  <1>14. ASSUME NEW r \in Refs, Cancel(r)
         PROVE  TypeInv'
    BY <1>14, SaveType DEF Cancel, TypeInv, TypeOK, Tidy
  <1>15. CASE WriteState
    BY <1>15, SaveType DEF WriteState, TypeInv, TypeOK, Tidy
  <1>16. ASSUME NEW e \in Equities, AccountUpdate(e)
         PROVE  TypeInv'
    <2> DEFINE g == CheckEquity(gate, e)
    <2>0. e \in Balances
      BY DEF Balances
    <2>1. g \in Gates /\ g.dayStart \in Balances /\ g.latch \in Rules
      BY <2>0, CheckEquityFacts DEF TypeInv, TypeOK, Tidy
    <2> HIDE DEF g
    <2>2. gate' = g /\ disp' = g.latch
      BY <1>16 DEF AccountUpdate, g
    <2> QED
      BY <1>16, <2>0, <2>1, <2>2 DEF AccountUpdate, Delivering, TypeInv, TypeOK, Tidy
  <1>17. CASE DispatchHalt
    BY <1>17, HaltFacts DEF DispatchHalt, TypeInv, TypeOK, Tidy, Rules
  <1>18. CASE Disconnect
    BY <1>18 DEF Disconnect, TypeInv, TypeOK, Tidy, Connections
  <1>19. ASSUME NEW r \in Refs, OnOrder(r)
         PROVE  TypeInv'
    BY <1>19 DEF OnOrder, TypeInv, TypeOK, Tidy
  <1>20. ASSUME NEW r \in Refs, BrokerDone(r)
         PROVE  TypeInv'
    BY <1>20 DEF BrokerDone, TypeInv, TypeOK, Tidy
  <1> QED
    BY <1>0, <1>1, <1>2, <1>3, <1>4, <1>5, <1>6, <1>7, <1>8, <1>9, <1>10,
       <1>11, <1>12, <1>13, <1>14, <1>15, <1>16, <1>17, <1>18, <1>19, <1>20
       DEF Next

\* The program starts with everything typed and the process down.
LEMMA TypeInvInit == Init => TypeInv
  <1>1. /\ FreshGate.dayStart \in Balances /\ 0 \in Balances
        /\ [orders |-> 0, refs |-> {}, mark |-> ""] \in Ledgers
        /\ [account |-> FALSE, today |-> FALSE, dayStart |-> 0,
            canary |-> 0, latch |-> ""] \in Files
        /\ [account |-> FALSE, today |-> FALSE, dayStart |-> 0,
            canary |-> 0, latch |-> ""].dayStart = 0
    BY DEF FreshGate, Balances, Ledgers, Files, Rules
  <1>2. 1 \in 1..MaxDays /\ 0 \in 0..MaxCrashes
    BY LiveAssumption
  <1>3. Init => Tidy
    BY <1>1, IdleFacts DEF Init, Tidy
  <1>4. Init => TypeOK
    <2> SUFFICES ASSUME Init PROVE TypeOK
      OBVIOUS
    <2>1. sent \in [Refs -> Nat]
      BY DEF Init
    <2>2. /\ up \in BOOLEAN /\ halted \in BOOLEAN /\ tripped \in BOOLEAN
          /\ known \subseteq Refs /\ working \subseteq Refs
          /\ asked \subseteq Refs /\ tried \subseteq Refs
          /\ carried \subseteq Refs /\ limits \in Limits
          /\ conn \in Connections /\ disp \in Rules
      BY DEF Init, Connections, Rules
    <2>3. gate \in Gates /\ main \in Places /\ ledger \in Ledgers /\ file \in Files
      BY <1>1, FreshGateType, IdleFacts DEF Init
    <2>4. /\ equity \in Balances /\ base \in Balances
          /\ day \in 1..MaxDays /\ crashes \in 0..MaxCrashes
          /\ total \in Nat /\ lost \in Nat /\ after \in Nat
      BY <1>1, <1>2 DEF Init
    <2> QED BY <2>1, <2>2, <2>3, <2>4 DEF TypeOK
  <1> QED BY <1>3, <1>4 DEF TypeInv

\* Type correctness of the live engine.
THEOREM TypeCorrect == Spec => []TypeOK
  <1>1. Spec => []TypeInv
    BY TypeInvInit, TypeInvStep, PTL DEF Spec
  <1>2. TypeInv => TypeOK
    BY DEF TypeInv
  <1> QED BY <1>1, <1>2, PTL

-----------------------------------------------------------------------------
(***************************************************************************)
(* What a step does to the counters of the day.  Next has twenty actions   *)
(* and seven effects on the counters of the gate, the ledger and the       *)
(* history.                                                                *)
(***************************************************************************)
SameBooks ==
    /\ ledger'.orders = ledger.orders
    /\ ledger'.refs = ledger.refs

SameDay == UNCHANGED <<total, sent, tried, lost>>

\* Nothing is counted; a submission may end before it sends, or find a loss.
CountsNothing ==
    /\ gate'.orders = gate.orders
    /\ gate'.refs = gate.refs
    /\ up' = up
    /\ SameBooks
    /\ SameDay
    /\ carried' = carried
    /\ \/ main' = main
       \/ main' = Idle /\ main.pc \in {"loss", "send"}
       \/ main = Idle /\ main'.pc = "loss"

\* A recovery takes the counters of the ledger into the gate.
ReadsLedger ==
    /\ main = Idle
    /\ main' = Idle
    /\ up' = TRUE
    /\ gate'.orders = ledger.orders
    /\ gate'.refs = ledger.refs
    /\ SameBooks
    /\ SameDay

\* The gate accepts an order.
Accepts(r) ==
    /\ up
    /\ up' = up
    /\ main = Idle
    /\ main'.pc = "send"
    /\ main'.ref = r
    /\ r \notin gate.refs
    /\ gate.orders < limits.orders
    /\ gate'.orders = gate.orders + 1
    /\ gate'.refs = gate.refs \cup {r}
    /\ tried' = tried \cup {r}
    /\ SameBooks
    /\ UNCHANGED <<total, sent, carried, lost>>

\* A check of an order at the gate, unless the order passes, counts nothing.
LEMMA SubmitEffect ==
  ASSUME TypeInv, NEW r \in Refs, SubmitCheck(r)
  PROVE  CountsNothing \/ Accepts(r)
  <1> DEFINE g == CheckEquity(gate, equity)
  <1>1. g \in Gates /\ g.orders = gate.orders /\ g.refs = gate.refs
    BY CheckEquityFacts DEF TypeInv, TypeOK
  <1>2. /\ Counted(g, r).orders = g.orders + 1
        /\ Counted(g, r).refs = g.refs \cup {r}
    BY <1>1, CountedFacts
  <1> HIDE DEF g
  <1>3. \/ /\ gate' = g
           /\ main' = [pc |-> "loss", ref |-> r, equity |-> equity]
        \/ /\ Admits(g, r)
           /\ gate' = Counted(g, r)
           /\ main' = [pc |-> "send", ref |-> r, equity |-> equity]
        \/ /\ gate' = g
           /\ main' = main
    BY <1>1 DEF SubmitCheck, g
  <1>4. /\ up /\ up' = up /\ main = Idle
        /\ ledger' = ledger /\ UNCHANGED <<total, sent, carried, lost>>
        /\ tried' = IF main'.pc = "send" THEN tried \cup {r} ELSE tried
    BY DEF SubmitCheck
  <1>5. CASE /\ gate' = g
             /\ main' = [pc |-> "loss", ref |-> r, equity |-> equity]
    BY <1>1, <1>4, <1>5 DEF CountsNothing, SameBooks, SameDay
  <1>6. CASE /\ Admits(g, r)
             /\ gate' = Counted(g, r)
             /\ main' = [pc |-> "send", ref |-> r, equity |-> equity]
    BY <1>1, <1>2, <1>4, <1>6 DEF Accepts, SameBooks, Admits
  <1>7. CASE gate' = g /\ main' = main
    BY <1>1, <1>4, <1>7, IdleFacts DEF CountsNothing, SameBooks, SameDay
  <1> QED BY <1>3, <1>5, <1>6, <1>7

\* Seven effects.
LEMMA Effects ==
  ASSUME TypeInv, [Next]_vars
  PROVE  \/ CountsNothing
         \/ ReadsLedger
         \/ \E r \in Refs : Accepts(r)
         \/ Crash
         \/ DayRoll
         \/ SendOrder
         \/ AuditSubmit
  <1>0. CASE UNCHANGED vars
    BY <1>0 DEF vars, CountsNothing, SameBooks, SameDay
  <1>1. ASSUME NEW e \in StartEquities, Start(e)
        PROVE  ReadsLedger
    <2>1. e \in Balances
      BY DEF StartEquities, Balances
    <2> DEFINE c == CheckEquity(FreshGate, e)
               g == Restored(c, e)
    <2>2. g \in Gates /\ g.dayStart \in Balances /\ c \in Gates
      BY <2>1, StartGate, CheckEquityFacts, FreshGateType
    <2> HIDE DEF c
    <2>3. g.orders = ledger.orders /\ g.refs = ledger.refs
      BY <2>1, <2>2, RestoredFacts DEF TypeInv
    <2>4. HaltOnLatch(g, e, FALSE)
      BY <1>1 DEF Start, c
    <2> HIDE DEF g
    <2>5. gate' = g /\ SameBooks
      BY <2>1, <2>2, <2>4, HaltOnLatchFacts DEF TypeInv, SameBooks
    <2> QED
      BY <1>1, <2>3, <2>5 DEF Start, TypeInv, Tidy, ReadsLedger, SameDay
  <1>4. ASSUME NEW r \in Refs, SubmitCheck(r)
        PROVE  CountsNothing \/ Accepts(r)
    BY <1>4, SubmitEffect
  <1>5. CASE LossHalt
    <2>1. Halt("") /\ "" \in Rules
      BY <1>5 DEF LossHalt, Rules
    <2> QED
      BY <1>5, <2>1, HaltFacts
         DEF LossHalt, TypeInv, CountsNothing, SameBooks, SameDay
  <1>7. CASE SendFails
    BY <1>7 DEF SendFails, CountsNothing, SameBooks, SameDay
  <1>9. CASE OperatorHalt
    <2>1. Halt("") /\ "" \in Rules
      BY <1>9 DEF OperatorHalt, Rules
    <2> QED
      BY <1>9, <2>1, HaltFacts
         DEF OperatorHalt, TypeInv, CountsNothing, SameBooks, SameDay
  <1>10. CASE OperatorResume
    <2> DEFINE c == [gate EXCEPT !.latch = ""]
               g == CheckEquity(c, equity)
    <2>1. c \in Gates /\ c.orders = gate.orders /\ c.refs = gate.refs
      BY ClearedType DEF TypeInv, TypeOK
    <2> HIDE DEF c
    <2>2. g.orders = gate.orders /\ g.refs = gate.refs
      BY <2>1, CheckEquityFacts DEF TypeInv, TypeOK
    <2> HIDE DEF g
    <2>3. gate' = g
      BY <1>10 DEF OperatorResume, g, c
    <2>4. ledger' = ledger \/ ledger' = [ledger EXCEPT !.mark = ""]
      BY <1>10 DEF OperatorResume
    <2>5. SameBooks
      BY <2>4, ResumedFacts DEF SameBooks, TypeInv, TypeOK
    <2> QED
      BY <1>10, <2>2, <2>3, <2>5 DEF OperatorResume, CountsNothing, SameDay
  <1>11. ASSUME NEW auto \in BOOLEAN, Reconnect(auto)
         PROVE  ReadsLedger
    <2> DEFINE g == IF auto THEN CheckEquity(gate, equity) ELSE gate
               h == IF auto THEN g.latch # "" ELSE HaltedForReconnect(auto)
               rg == Restored(g, equity)
    <2>1. g \in Gates /\ g.dayStart \in Balances
      BY CheckEquityFacts DEF TypeInv, TypeOK, Tidy
    <2>2. HaltOnLatch(rg, equity, h) /\ h \in BOOLEAN
      BY <1>11 DEF Reconnect, HaltedForReconnect, TypeInv, TypeOK
    <2> HIDE DEF g, h
    <2>3. /\ rg \in Gates /\ rg.dayStart \in Balances
          /\ rg.orders = ledger.orders /\ rg.refs = ledger.refs
      BY <2>1, RestoredGate, RestoredFacts DEF TypeInv, TypeOK
    <2> HIDE DEF rg
    <2>4. gate' = rg /\ SameBooks
      BY <2>2, <2>3, HaltOnLatchFacts DEF TypeInv, TypeOK, SameBooks
    <2> QED
      BY <1>11, <2>3, <2>4 DEF Reconnect, Ready, ReadsLedger, SameDay
  <1>12. ASSUME NEW auto \in BOOLEAN, ReconnectFails(auto)
         PROVE  CountsNothing
    BY <1>12 DEF ReconnectFails, CountsNothing, SameBooks, SameDay
  <1>13. CASE Recover
    <2> DEFINE rg == Restored(gate, equity)
    <2>1. /\ rg \in Gates /\ rg.dayStart \in Balances
          /\ rg.orders = ledger.orders /\ rg.refs = ledger.refs
      BY RestoredGate, RestoredFacts DEF TypeInv, TypeOK, Tidy
    <2>2. HaltOnLatch(rg, equity, halted)
      BY <1>13 DEF Recover
    <2> HIDE DEF rg
    <2>3. gate' = rg /\ SameBooks
      BY <2>1, <2>2, HaltOnLatchFacts DEF TypeInv, TypeOK, SameBooks
    <2> QED
      BY <1>13, <2>1, <2>3 DEF Recover, Ready, ReadsLedger, SameDay
  <1>14. ASSUME NEW r \in Refs, Cancel(r)
         PROVE  CountsNothing
    BY <1>14 DEF Cancel, CountsNothing, SameBooks, SameDay
  <1>15. CASE WriteState
    BY <1>15 DEF WriteState, CountsNothing, SameBooks, SameDay
  <1>16. ASSUME NEW e \in Equities, AccountUpdate(e)
         PROVE  CountsNothing
    <2>0. e \in Balances
      BY DEF Balances
    <2>1. gate'.orders = gate.orders /\ gate'.refs = gate.refs
      BY <1>16, <2>0, CheckEquityFacts DEF AccountUpdate, TypeInv, TypeOK
    <2> QED
      BY <1>16, <2>1 DEF AccountUpdate, CountsNothing, SameBooks, SameDay
  <1>17. CASE DispatchHalt
    <2>1. SameBooks
      BY <1>17, HaltFacts DEF DispatchHalt, TypeInv, TypeOK, SameBooks
    <2> QED
      BY <1>17, <2>1 DEF DispatchHalt, CountsNothing, SameDay
  <1>18. CASE Disconnect
    BY <1>18 DEF Disconnect, CountsNothing, SameBooks, SameDay
  <1>19. ASSUME NEW r \in Refs, OnOrder(r)
         PROVE  CountsNothing
    BY <1>19 DEF OnOrder, CountsNothing, SameBooks, SameDay
  <1>20. ASSUME NEW r \in Refs, BrokerDone(r)
         PROVE  CountsNothing
    BY <1>20 DEF BrokerDone, CountsNothing, SameBooks, SameDay
  <1> QED
    BY <1>0, <1>1, <1>4, <1>5, <1>7, <1>9, <1>10, <1>11, <1>12, <1>13,
       <1>14, <1>15, <1>16, <1>17, <1>18, <1>19, <1>20
       DEF Next

-----------------------------------------------------------------------------
(***************************************************************************)
(* The daily cap.  The ledger misses an order from send_order to its entry *)
(* and every order whose entry a crash prevented, and nothing else; the    *)
(* gate of a living process is never behind the ledger.                    *)
(***************************************************************************)
InAudit == IF main.pc = "audit" THEN 1 ELSE 0

Pending == IF main.pc \in {"send", "audit"} THEN 1 ELSE 0

Booked(r) ==
    IF r \in ledger.refs \/ (main.pc = "audit" /\ r = main.ref) THEN 1 ELSE 0

CountInv ==
    /\ total = ledger.orders + lost + InAudit
    /\ gate.orders <= limits.orders
    /\ ledger.orders <= limits.orders
    /\ up => ledger.orders + Pending <= gate.orders

RefInv ==
    /\ up => ledger.refs \subseteq gate.refs
    /\ main.pc \in {"send", "audit"} => main.ref \in gate.refs
    /\ main.pc = "send" => main.ref \notin ledger.refs
    /\ \A r \in Refs : sent[r] <= lost + Booked(r)

CapInv == TypeInv /\ CountInv /\ RefInv

\* The fields of the state that the counters use are numbers and sets.
LEMMA CountTypes ==
  ASSUME TypeInv
  PROVE  /\ gate.orders \in Nat /\ ledger.orders \in Nat /\ total \in Nat
         /\ lost \in Nat /\ limits.orders \in Nat
         /\ gate.refs \subseteq Refs /\ ledger.refs \subseteq Refs
         /\ sent \in [Refs -> Nat]
         /\ InAudit \in {0, 1} /\ Pending \in {0, 1}
         /\ FreshGate.orders = 0 /\ FreshGate.refs = {}
  BY LiveAssumption DEF TypeInv, TypeOK, Gates, Ledgers, InAudit, Pending, FreshGate

\* The entry of an order in the ledger.
LEMMA AuditFacts ==
  ASSUME TypeInv, AuditSubmit
  PROVE  /\ main.pc = "audit" /\ main.ref \in Refs /\ main' = Idle
         /\ up /\ up' /\ gate' = gate
         /\ ledger'.orders = ledger.orders + 1
         /\ ledger'.refs = ledger.refs \cup {main.ref}
         /\ ledger'.mark = ledger.mark
         /\ SameDay /\ carried' = carried
  <1>1. main.ref \in Refs /\ up /\ ledger \in Ledgers
    BY IdleFacts DEF AuditSubmit, TypeInv, TypeOK, Tidy
  <1>2. ledger.orders + 1 \in Nat /\ ledger.refs \cup {main.ref} \in SUBSET Refs
    BY <1>1 DEF Ledgers
  <1>3. ledger' = [ledger EXCEPT !.orders = ledger.orders + 1,
                                 !.refs = ledger.refs \cup {main.ref}]
    BY DEF AuditSubmit
  <1>4. /\ ledger'.orders = ledger.orders + 1
        /\ ledger'.refs = ledger.refs \cup {main.ref}
        /\ ledger'.mark = ledger.mark
    BY <1>1, <1>2, <1>3 DEF Ledgers
  <1> QED
    BY <1>1, <1>4 DEF AuditSubmit, SameDay

\* A new day finds no submission under way.
LEMMA DayRollFacts ==
  ASSUME TypeInv, DayRoll
  PROVE  /\ ledger'.orders = 0
         /\ ledger'.refs = {}
         /\ ledger'.mark = ledger.mark
         /\ main = Idle
         /\ UNCHANGED <<up, main, gate>>
  <1>1. {} \in SUBSET Refs /\ 0 \in Nat /\ ledger \in Ledgers
    BY DEF TypeInv, TypeOK
  <1>2. ledger' = [ledger EXCEPT !.orders = 0, !.refs = {}]
    BY DEF DayRoll
  <1>3. /\ ledger'.orders = 0
        /\ ledger'.refs = {}
        /\ ledger'.mark = ledger.mark
    BY <1>1, <1>2 DEF Ledgers
  <1> QED BY <1>3 DEF DayRoll, TypeInv, Tidy

\* A crash loses the ledger entry of an order that has been sent.
LEMMA CrashFacts ==
  ASSUME TypeInv, Crash
  PROVE  /\ ~up' /\ main' = Idle /\ gate' = FreshGate
         /\ lost' = lost + InAudit
         /\ UNCHANGED <<ledger, total, sent, tried, tripped>>
  <1>1. lost' = IF main.pc = "audit" THEN lost + 1 ELSE lost
    BY DEF Crash
  <1>2. lost' = lost + InAudit
    BY <1>1, CountTypes DEF InAudit
  <1> QED BY <1>2 DEF Crash

\* A process and its successors have one configuration.
LEMMA LimitsKept == [Next]_vars => limits' = limits
  BY DEF Next, vars, Start, Crash, DayRoll, SubmitCheck, LossHalt, SendOrder,
     SendFails, AuditSubmit, OperatorHalt, OperatorResume, Reconnect,
     ReconnectFails, Recover, Cancel, WriteState, AccountUpdate, DispatchHalt,
     Disconnect, OnOrder, BrokerDone

\* The counts of the gate, the ledger and the broker agree after every step.
LEMMA CountStep == CapInv /\ [Next]_vars => CountInv'
  <1> SUFFICES ASSUME CapInv, [Next]_vars
               PROVE  CountInv'
    OBVIOUS
  <1>0. TypeInv /\ CountInv /\ TypeInv' /\ limits' = limits
    BY TypeInvStep, LimitsKept DEF CapInv
  <1> USE <1>0, CountTypes, IdleFacts
  <1>1. CASE CountsNothing
    BY <1>1 DEF CountsNothing, SameBooks, SameDay, CountInv, InAudit, Pending
  <1>2. CASE ReadsLedger
    BY <1>2 DEF ReadsLedger, SameBooks, SameDay, CountInv, InAudit, Pending
  <1>3. ASSUME NEW r \in Refs, Accepts(r)
        PROVE  CountInv'
    BY <1>3 DEF Accepts, SameBooks, CountInv, InAudit, Pending
  <1>4. CASE Crash
    BY <1>4, CrashFacts DEF CountInv, InAudit, Pending
  <1>5. CASE DayRoll
    <2>1. total' = 0 /\ lost' = 0
      BY <1>5 DEF DayRoll
    <2> QED BY <1>5, <2>1, DayRollFacts DEF CountInv, InAudit, Pending
  <1>6. CASE SendOrder
    <2>1. /\ main.pc = "send" /\ main'.pc = "audit" /\ total' = total + 1
          /\ UNCHANGED <<up, gate, ledger, lost>>
      BY <1>6 DEF SendOrder, TypeInv, TypeOK, Places
    <2> QED BY <2>1 DEF CountInv, InAudit, Pending
  <1>7. CASE AuditSubmit
    BY <1>7, AuditFacts DEF SameDay, CountInv, InAudit, Pending
  <1> QED BY <1>1, <1>2, <1>3, <1>4, <1>5, <1>6, <1>7, Effects

\* The references of the gate, the ledger and the broker agree after every
\* step.
LEMMA RefStep == CapInv /\ [Next]_vars => RefInv'
  <1> SUFFICES ASSUME CapInv, [Next]_vars
               PROVE  RefInv'
    OBVIOUS
  <1>0. TypeInv /\ RefInv /\ TypeInv'
    BY TypeInvStep DEF CapInv
  <1> USE <1>0, CountTypes, IdleFacts
  <1>1. CASE CountsNothing
    BY <1>1 DEF CountsNothing, SameBooks, SameDay, RefInv, Booked
  <1>2. CASE ReadsLedger
    BY <1>2 DEF ReadsLedger, SameBooks, SameDay, RefInv, Booked
  <1>3. ASSUME NEW r \in Refs, Accepts(r)
        PROVE  RefInv'
    BY <1>3 DEF Accepts, SameBooks, RefInv, Booked
  <1>4. CASE Crash
    BY <1>4, CrashFacts DEF RefInv, Booked, InAudit
  <1>5. CASE DayRoll
    <2>1. sent' = [r \in Refs |-> 0] /\ lost' = 0
      BY <1>5 DEF DayRoll
    <2> QED BY <1>5, <2>1, DayRollFacts DEF RefInv, Booked
  <1>6. CASE SendOrder
    <2>1. /\ main.pc = "send" /\ main'.pc = "audit" /\ main'.ref = main.ref
          /\ main.ref \in Refs
          /\ sent' = [sent EXCEPT ![main.ref] = sent[main.ref] + 1]
          /\ UNCHANGED <<up, gate, ledger, lost>>
      BY <1>6 DEF SendOrder, TypeInv, TypeOK, Tidy, Places
    <2> QED BY <2>1 DEF RefInv, Booked
  <1>7. CASE AuditSubmit
    BY <1>7, AuditFacts DEF SameDay, RefInv, Booked
  <1> QED BY <1>1, <1>2, <1>3, <1>4, <1>5, <1>6, <1>7, Effects

\* The counters of the day over crashes, restarts and recoveries.
LEMMA CapInvariant == Spec => []CapInv
  <1>1. Init => CapInv
    <2> SUFFICES ASSUME Init PROVE CapInv
      OBVIOUS
    <2>1. TypeInv
      BY TypeInvInit
    <2>2. /\ gate.orders = 0 /\ gate.refs = {} /\ ledger.orders = 0
          /\ ledger.refs = {} /\ total = 0 /\ lost = 0 /\ main.pc = "idle"
          /\ sent = [r \in Refs |-> 0]
      BY <2>1, CountTypes, IdleFacts DEF Init
    <2> QED
      BY <2>1, <2>2, CountTypes
         DEF CapInv, CountInv, RefInv, InAudit, Pending, Booked
  <1>2. CapInv /\ [Next]_vars => CapInv'
    BY TypeInvStep, CountStep, RefStep DEF CapInv
  <1> QED BY <1>1, <1>2, PTL DEF Spec

\* The cap on orders and the test for duplicates hold for the day, whatever
\* the cap and however often the process dies: every crash between send_order
\* and the ledger entry is worth one order more and nothing else is.
THEOREM CapHolds == Spec => []DailyCapHolds
  <1>1. CapInv => DailyCapHolds
    <2> SUFFICES ASSUME CapInv PROVE DailyCapHolds
      OBVIOUS
    <2>1. TypeInv /\ CountInv /\ RefInv
      BY DEF CapInv
    <2>2. total <= limits.orders + lost
      BY <2>1, CountTypes, IdleFacts DEF CountInv, InAudit, Pending, TypeInv, Tidy
    <2>3. \A r \in Refs : sent[r] <= 1 + lost
      BY <2>1, CountTypes DEF RefInv, Booked
    <2> QED BY <2>2, <2>3 DEF DailyCapHolds
  <1> QED BY <1>1, CapInvariant, PTL

-----------------------------------------------------------------------------
(***************************************************************************)
(* The memory of the gate is of today, but for what a process has carried  *)
(* over midnight.                                                          *)
(***************************************************************************)
TodayInv ==
    /\ gate.refs \subseteq tried \cup carried
    /\ ledger.refs \subseteq tried
    /\ main.pc \in {"send", "audit"} => main.ref \in tried

\* Nothing of yesterday is in what recovery reads, nor in the gate after it.
LEMMA TodayStep == CapInv /\ TodayInv /\ [Next]_vars => TodayInv'
  <1> SUFFICES ASSUME CapInv, TodayInv, [Next]_vars
               PROVE  TodayInv'
    OBVIOUS
  <1>0. TypeInv /\ TodayInv
    BY DEF CapInv
  <1> USE <1>0, CountTypes, IdleFacts
  <1>1. CASE CountsNothing
    BY <1>1 DEF CountsNothing, SameBooks, SameDay, TodayInv
  <1>2. CASE ReadsLedger
    BY <1>2 DEF ReadsLedger, SameBooks, SameDay, TodayInv
  <1>3. ASSUME NEW r \in Refs, Accepts(r)
        PROVE  TodayInv'
    BY <1>3 DEF Accepts, SameBooks, TodayInv
  <1>4. CASE Crash
    BY <1>4, CrashFacts DEF TodayInv
  <1>5. CASE DayRoll
    <2>1. carried' = gate.refs
      BY <1>5 DEF DayRoll
    <2> QED BY <1>5, <2>1, DayRollFacts DEF TodayInv
  <1>6. CASE SendOrder
    <2>1. /\ main.pc = "send" /\ main'.ref = main.ref
          /\ UNCHANGED <<gate, ledger, tried, carried>>
      BY <1>6 DEF SendOrder, TypeInv, TypeOK, Places
    <2> QED BY <2>1 DEF TodayInv
  <1>7. CASE AuditSubmit
    BY <1>7, AuditFacts DEF SameDay, TodayInv
  <1> QED BY <1>1, <1>2, <1>3, <1>4, <1>5, <1>6, <1>7, Effects

\* Between submissions the gate holds every order of today whose ledger entry
\* no crash prevented, and no order of another day but those the process has
\* carried over midnight.
THEOREM TodayCounts == Spec => []CountsToday
  <1>1. Init => TodayInv
    <2>1. Init => /\ gate = FreshGate
                  /\ ledger = [orders |-> 0, refs |-> {}, mark |-> ""]
                  /\ main = Idle
      BY DEF Init
    <2>2. /\ FreshGate.refs = {}
          /\ [orders |-> 0, refs |-> {}, mark |-> ""].refs = {}
      BY DEF FreshGate
    <2> QED BY <2>1, <2>2, IdleFacts DEF TodayInv
  <1>2. CapInv /\ TodayInv /\ [Next]_vars => TodayInv'
    BY TodayStep
  <1>3. CapInv /\ TodayInv => CountsToday
    BY CountTypes, IdleFacts DEF CapInv, RefInv, TodayInv, Booked, CountsToday
  <1> QED BY <1>1, <1>2, <1>3, CapInvariant, PTL DEF Spec

-----------------------------------------------------------------------------
(***************************************************************************)
(* The kill-switch.  A submission passes the test of the switch before any *)
(* order has left under it, and there is one submission at a time.         *)
(***************************************************************************)
AfterInv ==
    /\ ~halted => after = 0
    /\ main.pc = "send" => after = 0
    /\ after <= 1

\* Every step of either thread.
LEMMA AfterStep == TypeInv /\ AfterInv /\ [Next]_vars => AfterInv'
  <1> SUFFICES ASSUME TypeInv, AfterInv, [Next]_vars
               PROVE  AfterInv'
    OBVIOUS
  <1> USE IdleFacts DEF AfterInv
  <1>0. after \in Nat
    BY DEF TypeInv, TypeOK
  <1>1. CASE UNCHANGED vars
    BY <1>1 DEF vars
  <1>2. ASSUME NEW e \in StartEquities, Start(e)
        PROVE  AfterInv'
    BY <1>2 DEF Start, TypeInv, Tidy
  <1>3. CASE Crash
    <2>1. after' = 0 /\ main' = Idle
      BY <1>3 DEF Crash
    <2> QED BY <2>1
  <1>4. CASE DayRoll
    BY <1>4 DEF DayRoll
  <1>5. ASSUME NEW r \in Refs, SubmitCheck(r)
        PROVE  AfterInv'
    <2>1. ~halted /\ UNCHANGED <<halted, after>>
      BY <1>5 DEF SubmitCheck, CanSubmit
    <2> QED BY <2>1
  <1>6. CASE LossHalt
    BY <1>6 DEF LossHalt, Halt
  <1>7. CASE SendOrder
    <2>1. /\ main.pc = "send" /\ main'.pc = "audit"
          /\ halted' = halted /\ after' = IF halted THEN after + 1 ELSE after
      BY <1>7 DEF SendOrder, TypeInv, TypeOK, Places
    <2> QED BY <1>0, <2>1
  <1>8. CASE SendFails
    BY <1>8 DEF SendFails
  <1>9. CASE AuditSubmit
    BY <1>9 DEF AuditSubmit
  <1>10. CASE OperatorHalt
    BY <1>10 DEF OperatorHalt, Halt
  <1>11. CASE OperatorResume
    <2>1. /\ main.pc = "idle" /\ main' = main
          /\ \/ halted' = TRUE /\ after' = after
             \/ after' = 0
      BY <1>11 DEF OperatorResume, Ready
    <2> QED BY <1>0, <2>1
  <1>12. ASSUME NEW auto \in BOOLEAN, Reconnect(auto)
         PROVE  AfterInv'
    <2> DEFINE g == IF auto THEN CheckEquity(gate, equity) ELSE gate
               h == IF auto THEN g.latch # "" ELSE HaltedForReconnect(auto)
    <2>1. /\ HaltOnLatch(Restored(g, equity), equity, h)
          /\ after' = IF h THEN after ELSE 0
          /\ main.pc = "idle" /\ main' = main
      BY <1>12 DEF Reconnect, Ready
    <2> HIDE DEF g, h
    <2>2. h => halted'
      BY <2>1 DEF HaltOnLatch, Halt
    <2> QED BY <1>0, <2>1, <2>2
  <1>13. ASSUME NEW auto \in BOOLEAN, ReconnectFails(auto)
         PROVE  AfterInv'
    BY <1>13 DEF ReconnectFails, HaltedForReconnect
  <1>14. CASE Recover
    BY <1>14 DEF Recover, HaltOnLatch, Halt
  <1>15. ASSUME NEW r \in Refs, Cancel(r)
         PROVE  AfterInv'
    BY <1>15 DEF Cancel
  <1>16. CASE WriteState
    BY <1>16 DEF WriteState
  <1>17. ASSUME NEW e \in Equities, AccountUpdate(e)
         PROVE  AfterInv'
    BY <1>17 DEF AccountUpdate
  <1>18. CASE DispatchHalt
    BY <1>18 DEF DispatchHalt, Halt
  <1>19. CASE Disconnect
    BY <1>19 DEF Disconnect
  <1>20. ASSUME NEW r \in Refs, OnOrder(r)
         PROVE  AfterInv'
    BY <1>20 DEF OnOrder
  <1>21. ASSUME NEW r \in Refs, BrokerDone(r)
         PROVE  AfterInv'
    BY <1>21 DEF BrokerDone
  <1> QED
    BY <1>1, <1>2, <1>3, <1>4, <1>5, <1>6, <1>7, <1>8, <1>9, <1>10, <1>11,
       <1>12, <1>13, <1>14, <1>15, <1>16, <1>17, <1>18, <1>19, <1>20, <1>21
       DEF Next

\* At most one order leaves after the kill-switch was engaged, whoever engaged
\* it, wherever the other thread was.
THEOREM OneAfterHalt == Spec => []AtMostOneAfterHalt
  <1>1. Init => AfterInv
    <2>1. Init => after = 0 /\ main = Idle
      BY DEF Init
    <2> QED BY <2>1, IdleFacts DEF AfterInv
  <1>2. TypeInv /\ AfterInv => AtMostOneAfterHalt
    BY DEF AfterInv, AtMostOneAfterHalt
  <1> QED
    BY <1>1, <1>2, AfterStep, TypeInvInit, TypeInvStep, PTL DEF Spec

-----------------------------------------------------------------------------
(***************************************************************************)
(* The latch.  A loss halt that no operator has resumed is in the ledger,  *)
(* and the living process is halted or will be told by its gate.           *)
(***************************************************************************)
LatchInv ==
    /\ tripped => ledger.mark # ""
    /\ up /\ tripped => halted \/ gate.latch # ""

\* What a recovery and a restart make of a loss halt in the ledger.
LEMMA LatchRestored ==
  ASSUME TypeInv, LatchInv, NEW g \in Gates, NEW e \in Balances,
         NEW h \in BOOLEAN, g.dayStart \in Balances,
         HaltOnLatch(Restored(g, e), e, h)
  PROVE  LatchInv'
  <1> DEFINE rg == Restored(g, e)
  <1>1. /\ rg \in Gates /\ rg.dayStart \in Balances
        /\ ledger.mark # "" => rg.latch = ledger.mark
    BY RestoredGate, RestoredFacts DEF TypeInv
  <1> HIDE DEF rg
  <1>2. HaltOnLatch(rg, e, h)
    BY DEF rg
  <1>3. /\ halted' = (h \/ rg.latch # "")
        /\ ledger'.mark = IF rg.latch = "" \/ h THEN ledger.mark ELSE rg.latch
        /\ tripped' = (tripped \/ (rg.latch # "" /\ ~h))
    BY <1>1, <1>2, HaltOnLatchFacts DEF TypeInv
  <1> QED BY <1>1, <1>3 DEF LatchInv

\* Nothing but an operator's resume ends a loss halt.
LEMMA LatchStep == TypeInv /\ LatchInv /\ [Next]_vars => LatchInv'
  <1> SUFFICES ASSUME TypeInv, LatchInv, [Next]_vars
               PROVE  LatchInv'
    OBVIOUS
  <1>0. gate \in Gates /\ equity \in Balances /\ gate.dayStart \in Balances
    BY DEF TypeInv, TypeOK, Tidy
  <1>1. CASE UNCHANGED vars
    BY <1>1 DEF vars, LatchInv
  <1>2. ASSUME NEW e \in StartEquities, Start(e)
        PROVE  LatchInv'
    <2>1. e \in Balances
      BY DEF StartEquities, Balances
    <2>2. /\ CheckEquity(FreshGate, e) \in Gates
          /\ CheckEquity(FreshGate, e).dayStart \in Balances
      BY <2>1, FreshGateType, CheckEquityFacts DEF FreshGate, Balances
    <2>3. HaltOnLatch(Restored(CheckEquity(FreshGate, e), e), e, FALSE)
      BY <1>2 DEF Start
    <2> QED BY <2>1, <2>2, <2>3, LatchRestored
  <1>3. CASE Crash
    BY <1>3 DEF Crash, LatchInv
  <1>4. CASE DayRoll
    <2>1. UNCHANGED <<up, halted, tripped>>
      BY <1>4 DEF DayRoll
    <2> QED BY <1>4, <2>1, DayRollFacts DEF LatchInv
  <1>5. ASSUME NEW r \in Refs, SubmitCheck(r)
        PROVE  LatchInv'
    <2> DEFINE g == CheckEquity(gate, equity)
    <2>1. g \in Gates /\ (gate.latch # "" => g.latch # "")
      BY <1>0, CheckEquityFacts
    <2>2. Counted(g, r).latch = g.latch
      BY <2>1, CountedFacts
    <2> HIDE DEF g
    <2>3. gate' = g \/ gate' = Counted(g, r)
      BY <1>5 DEF SubmitCheck, g
    <2>4. UNCHANGED <<up, halted, ledger, tripped>>
      BY <1>5 DEF SubmitCheck
    <2> QED BY <2>1, <2>2, <2>3, <2>4 DEF LatchInv
  <1>6. CASE LossHalt
    BY <1>6 DEF LossHalt, Halt, LatchInv
  <1>7. CASE SendOrder
    BY <1>7 DEF SendOrder, LatchInv
  <1>8. CASE SendFails
    BY <1>8 DEF SendFails, LatchInv
  <1>9. CASE AuditSubmit
    <2>1. UNCHANGED <<up, halted, gate, tripped>>
      BY <1>9 DEF AuditSubmit
    <2> QED BY <1>9, <2>1, AuditFacts DEF LatchInv
  <1>10. CASE OperatorHalt
    BY <1>10 DEF OperatorHalt, Halt, LatchInv
  <1>11. CASE OperatorResume
    <2>1. \/ halted' /\ ledger' = ledger /\ (tripped' => tripped)
          \/ ~tripped'
      BY <1>11 DEF OperatorResume
    <2> QED BY <2>1 DEF LatchInv
  <1>12. ASSUME NEW auto \in BOOLEAN, Reconnect(auto)
         PROVE  LatchInv'
    <2> DEFINE g == IF auto THEN CheckEquity(gate, equity) ELSE gate
               h == IF auto THEN g.latch # "" ELSE HaltedForReconnect(auto)
    <2>1. g \in Gates /\ g.dayStart \in Balances
      BY <1>0, CheckEquityFacts
    <2>2. HaltOnLatch(Restored(g, equity), equity, h) /\ h \in BOOLEAN
      BY <1>12 DEF Reconnect, HaltedForReconnect, TypeInv, TypeOK
    <2> HIDE DEF g, h
    <2> QED BY <1>0, <2>1, <2>2, LatchRestored
  <1>13. ASSUME NEW auto \in BOOLEAN, ReconnectFails(auto)
         PROVE  LatchInv'
    BY <1>13 DEF ReconnectFails, HaltedForReconnect, LatchInv
  <1>14. CASE Recover
    <2>1. HaltOnLatch(Restored(gate, equity), equity, halted)
      BY <1>14 DEF Recover
    <2> QED BY <1>0, <2>1, LatchRestored DEF TypeInv, TypeOK
  <1>15. ASSUME NEW r \in Refs, Cancel(r)
         PROVE  LatchInv'
    BY <1>15 DEF Cancel, LatchInv
  <1>16. CASE WriteState
    BY <1>16 DEF WriteState, LatchInv
  <1>17. ASSUME NEW e \in Equities, AccountUpdate(e)
         PROVE  LatchInv'
    <2>1. e \in Balances
      BY DEF Balances
    <2>2. gate.latch # "" => gate'.latch # ""
      BY <1>0, <1>17, <2>1, CheckEquityFacts DEF AccountUpdate
    <2> QED BY <1>17, <2>2 DEF AccountUpdate, LatchInv
  <1>18. CASE DispatchHalt
    <2>1. CASE halted
      BY <1>18, <2>1 DEF DispatchHalt, LatchInv
    <2>2. CASE ~halted
      <3>1. Halt(disp) /\ disp # "" /\ disp \in Rules
        BY <1>18, <2>2 DEF DispatchHalt, TypeInv, TypeOK
      <3> QED BY <3>1, HaltFacts DEF LatchInv, TypeInv
    <2> QED BY <2>1, <2>2
  <1>19. CASE Disconnect
    BY <1>19 DEF Disconnect, LatchInv
  <1>20. ASSUME NEW r \in Refs, OnOrder(r)
         PROVE  LatchInv'
    BY <1>20 DEF OnOrder, LatchInv
  <1>21. ASSUME NEW r \in Refs, BrokerDone(r)
         PROVE  LatchInv'
    BY <1>21 DEF BrokerDone, LatchInv
  <1> QED
    BY <1>1, <1>2, <1>3, <1>4, <1>5, <1>6, <1>7, <1>8, <1>9, <1>10, <1>11,
       <1>12, <1>13, <1>14, <1>15, <1>16, <1>17, <1>18, <1>19, <1>20, <1>21
       DEF Next

\* Only a check that finds no latch lets an order pass.
LEMMA PassesUnlatched ==
  ASSUME TypeInv, [Next]_vars, main.pc = "idle", main'.pc = "send"
  PROVE  /\ \E r \in Refs : SubmitCheck(r)
         /\ up /\ ~halted /\ main'.equity = equity
         /\ CheckEquity(gate, equity).latch = ""
  <1>1. \E r \in Refs : SubmitCheck(r)
    BY IdleFacts DEF Next, vars, Start, Crash, DayRoll, LossHalt, SendOrder,
       SendFails, AuditSubmit, OperatorHalt, OperatorResume, Reconnect,
       ReconnectFails, Recover, Cancel, WriteState, AccountUpdate, DispatchHalt,
       Disconnect, OnOrder, BrokerDone
  <1>2. PICK r \in Refs : SubmitCheck(r)
    BY <1>1
  <1>3. /\ main' = [pc |-> "send", ref |-> r, equity |-> equity]
        /\ CheckEquity(gate, equity).latch = ""
    <2> DEFINE g == CheckEquity(gate, equity)
    <2>1. \/ main' = [pc |-> "loss", ref |-> r, equity |-> equity]
          \/ /\ g.latch = ""
             /\ main' = [pc |-> "send", ref |-> r, equity |-> equity]
          \/ main' = main
      BY <1>2 DEF SubmitCheck
    <2> HIDE DEF g
    <2>2. main' # main
      OBVIOUS
    <2>3. main' # [pc |-> "loss", ref |-> r, equity |-> equity]
      OBVIOUS
    <2> QED BY <2>1, <2>2, <2>3 DEF g
  <1> QED BY <1>1, <1>2, <1>3 DEF SubmitCheck, CanSubmit

\* A loss halt is latched: no order passes the gate before an operator has
\* resumed, through any number of reconnects, recoveries and restarts.
THEOREM Latched == Spec => LatchedUntilResumed
  <1>1. Init => LatchInv
    <2>1. Init => tripped = FALSE
      BY DEF Init
    <2> QED BY <2>1 DEF LatchInv
  <1>2. TypeInv /\ LatchInv /\ [Next]_vars =>
          [main.pc = "idle" /\ main'.pc = "send" => ~tripped]_vars
    <2> SUFFICES ASSUME TypeInv, LatchInv, [Next]_vars, main.pc = "idle",
                        main'.pc = "send"
                 PROVE  ~tripped
      OBVIOUS
    <2>1. up /\ ~halted /\ CheckEquity(gate, equity).latch = ""
      BY PassesUnlatched
    <2>2. gate.latch = ""
      BY <2>1, CheckEquityFacts DEF TypeInv, TypeOK
    <2> QED BY <2>1, <2>2 DEF LatchInv
  <1> QED
    BY <1>1, <1>2, LatchStep, TypeInvInit, TypeInvStep, PTL
       DEF Spec, LatchedUntilResumed

-----------------------------------------------------------------------------
(***************************************************************************)
(* The loss stop.  Once a baseline of the day has been saved, the snapshot *)
(* and the gate of the living process hold it, provided that the account   *)
(* is known by the time recovery reads the snapshot.                       *)
(***************************************************************************)
BaseInv ==
    /\ up => equity # 0
    /\ base # 0 => file.account /\ file.today /\ file.dayStart = base
    /\ up /\ base # 0 => gate.dayStart = base

StopInv == BaseInv /\ LossStopHolds

\* write_state saves the baseline of the day or starts it.
LEMMA SaveBase ==
  ASSUME TypeInv, NEW g \in Gates, NEW e \in Balances, e # 0,
         base # 0 => g.dayStart = base,
         Save(g, e), gate' = g, equity' # 0
  PROVE  BaseInv'
  <1>1. /\ file'.account = TRUE /\ file'.today = TRUE
        /\ file'.dayStart = g.dayStart
    BY DEF Save, Snapshot
  <1>2. base' = IF base = 0 THEN g.dayStart ELSE base
    BY DEF Save
  <1> QED BY <1>1, <1>2 DEF BaseInv

\* A process that recovers with an account takes the baseline from the
\* snapshot.
LEMMA RestoreBase ==
  ASSUME TypeInv, BaseInv, NEW g \in Gates, NEW e \in Balances, e # 0
  PROVE  base # 0 => Restored(g, e).dayStart = base
  BY RestoredFacts DEF BaseInv, RestoredDayStart, Trusted, TypeInv

\* The snapshot and the gate follow the baseline of the day.
LEMMA BaseStep ==
  ASSUME ~LateAccount
  PROVE  TypeInv /\ BaseInv /\ [Next]_vars => BaseInv'
  <1> SUFFICES ASSUME TypeInv, BaseInv, [Next]_vars
               PROVE  BaseInv'
    OBVIOUS
  <1>0. gate \in Gates /\ equity \in Balances /\ gate.dayStart \in Balances
    BY DEF TypeInv, TypeOK, Tidy
  <1>1. CASE UNCHANGED vars
    BY <1>1 DEF vars, BaseInv
  <1>2. ASSUME NEW e \in StartEquities, Start(e)
        PROVE  BaseInv'
    <2>1. e \in Balances /\ e # 0
      BY LiveAssumption DEF StartEquities, Balances
    <2> DEFINE c == CheckEquity(FreshGate, e)
               g == Restored(c, e)
    <2>2. c \in Gates /\ g \in Gates
      BY <2>1, StartGate, CheckEquityFacts, FreshGateType
    <2> HIDE DEF c
    <2>3. base # 0 => g.dayStart = base
      BY <2>1, <2>2, RestoreBase
    <2>4. gate' = g /\ Save(g, e) /\ equity' = e
      BY <1>2 DEF Start, HaltOnLatch, c
    <2> HIDE DEF g
    <2> QED BY <2>1, <2>2, <2>3, <2>4, SaveBase
  <1>3. CASE Crash
    BY <1>3 DEF Crash, BaseInv
  <1>4. CASE DayRoll
    <2>1. base' = 0 /\ UNCHANGED <<up, equity>>
      BY <1>4 DEF DayRoll
    <2> QED BY <2>1 DEF BaseInv
  <1>5. ASSUME NEW r \in Refs, SubmitCheck(r)
        PROVE  BaseInv'
    <2> DEFINE g == CheckEquity(gate, equity)
    <2>1. g \in Gates /\ (gate.dayStart # 0 => g.dayStart = gate.dayStart)
      BY <1>0, CheckEquityFacts
    <2>2. Counted(g, r).dayStart = g.dayStart
      BY <2>1, CountedFacts
    <2> HIDE DEF g
    <2>3. gate' = g \/ gate' = Counted(g, r)
      BY <1>5 DEF SubmitCheck, g
    <2>4. UNCHANGED <<up, equity, base, file>>
      BY <1>5 DEF SubmitCheck
    <2> QED BY <2>1, <2>2, <2>3, <2>4 DEF BaseInv
  <1>6. CASE LossHalt
    BY <1>6 DEF LossHalt, BaseInv
  <1>7. CASE SendOrder
    BY <1>7 DEF SendOrder, BaseInv
  <1>8. CASE SendFails
    BY <1>8 DEF SendFails, BaseInv
  <1>9. CASE AuditSubmit
    BY <1>9 DEF AuditSubmit, BaseInv
  <1>10. ASSUME up, Save(gate, equity), gate' = gate, equity' = equity
         PROVE  BaseInv'
    BY <1>0, <1>10, SaveBase DEF BaseInv
  <1>11. CASE OperatorHalt
    BY <1>10, <1>11 DEF OperatorHalt, Ready
  <1>12. CASE OperatorResume
    <2> DEFINE c == [gate EXCEPT !.latch = ""]
               g == CheckEquity(c, equity)
    <2>1. c \in Gates /\ c.dayStart = gate.dayStart
      BY <1>0, ClearedType
    <2> HIDE DEF c
    <2>2. g \in Gates /\ (gate.dayStart # 0 => g.dayStart = gate.dayStart)
      BY <1>0, <2>1, CheckEquityFacts
    <2> HIDE DEF g
    <2>3. gate' = g /\ Save(g, equity) /\ up /\ equity' = equity
      BY <1>12 DEF OperatorResume, Ready, g, c
    <2>4. equity # 0 /\ (base # 0 => g.dayStart = base)
      BY <2>2, <2>3 DEF BaseInv
    <2> QED BY <1>0, <2>2, <2>3, <2>4, SaveBase
  <1>13. ASSUME NEW g \in Gates, up, equity' = equity, gate' = Restored(g, equity),
                g.dayStart \in Balances, Save(Restored(g, equity), equity)
         PROVE  BaseInv'
    <2> DEFINE rg == Restored(g, equity)
    <2>1. equity # 0
      BY <1>13 DEF BaseInv
    <2>2. rg \in Gates /\ (base # 0 => rg.dayStart = base)
      BY <1>0, <1>13, <2>1, RestoredGate, RestoreBase
    <2>3. gate' = rg /\ Save(rg, equity) /\ equity' # 0
      BY <1>13, <2>1
    <2> HIDE DEF rg
    <2> QED BY <1>0, <2>1, <2>2, <2>3, SaveBase
  <1>14. ASSUME NEW auto \in BOOLEAN, Reconnect(auto)
         PROVE  BaseInv'
    <2> DEFINE g == IF auto THEN CheckEquity(gate, equity) ELSE gate
    <2>1. g \in Gates /\ g.dayStart \in Balances
      BY <1>0, CheckEquityFacts
    <2>2. /\ gate' = Restored(g, equity) /\ Save(Restored(g, equity), equity)
          /\ up /\ equity' = equity
      BY <1>14 DEF Reconnect, HaltOnLatch, Ready
    <2> HIDE DEF g
    <2> QED BY <1>13, <2>1, <2>2
  <1>15. ASSUME NEW auto \in BOOLEAN, ReconnectFails(auto)
         PROVE  BaseInv'
    BY <1>10, <1>15 DEF ReconnectFails, Ready
  <1>16. CASE Recover
    <2>1. /\ gate' = Restored(gate, equity) /\ Save(Restored(gate, equity), equity)
          /\ up /\ equity' = equity
      BY <1>16 DEF Recover, HaltOnLatch, Ready
    <2> QED BY <1>0, <1>13, <2>1
  <1>17. ASSUME NEW r \in Refs, Cancel(r)
         PROVE  BaseInv'
    BY <1>10, <1>17 DEF Cancel, Ready
  <1>18. CASE WriteState
    BY <1>10, <1>18 DEF WriteState, Ready
  <1>19. ASSUME NEW e \in Equities, AccountUpdate(e)
         PROVE  BaseInv'
    <2>1. e \in Balances /\ e # 0
      BY LiveAssumption DEF Balances
    <2>2. gate.dayStart # 0 => gate'.dayStart = gate.dayStart
      BY <1>0, <1>19, <2>1, CheckEquityFacts DEF AccountUpdate
    <2>3. equity' = e /\ UNCHANGED <<up, base, file>>
      BY <1>19 DEF AccountUpdate
    <2> QED BY <2>1, <2>2, <2>3 DEF BaseInv
  <1>20. CASE DispatchHalt
    BY <1>20 DEF DispatchHalt, BaseInv
  <1>21. CASE Disconnect
    BY <1>21 DEF Disconnect, BaseInv
  <1>22. ASSUME NEW r \in Refs, OnOrder(r)
         PROVE  BaseInv'
    BY <1>22 DEF OnOrder, BaseInv
  <1>23. ASSUME NEW r \in Refs, BrokerDone(r)
         PROVE  BaseInv'
    BY <1>23 DEF BrokerDone, BaseInv
  <1> QED
    BY <1>1, <1>2, <1>3, <1>4, <1>5, <1>6, <1>7, <1>8, <1>9, <1>11, <1>12,
       <1>14, <1>15, <1>16, <1>17, <1>18, <1>19, <1>20, <1>21, <1>22, <1>23
       DEF Next

\* While an order is under way neither it nor the baseline of the day changes.
LEMMA UnderWay ==
  ASSUME TypeInv, [Next]_vars, main'.pc \in {"send", "audit"}, main.pc # "idle"
  PROVE  /\ main.pc \in {"send", "audit"}
         /\ main'.equity = main.equity
         /\ base' = base
  <1>1. CASE SendOrder
    BY <1>1 DEF SendOrder, TypeInv, TypeOK, Places
  <1>2. CASE ~SendOrder
    <2>1. main # Idle /\ up
      BY IdleFacts DEF TypeInv, Tidy
    <2>2. main' # Idle
      BY IdleFacts
    <2>3. main' = main /\ base' = base
      BY <1>2, <2>1, <2>2 DEF Next, vars, Start, Crash, DayRoll, SubmitCheck,
         LossHalt, SendFails, AuditSubmit, OperatorHalt, OperatorResume, Ready,
         Reconnect, ReconnectFails, Recover, Cancel, WriteState, AccountUpdate,
         DispatchHalt, Disconnect, OnOrder, BrokerDone
    <2> QED BY <2>3
  <1> QED BY <1>1, <1>2

\* An equity that check_equity lets pass has not lost the daily percentage of
\* the baseline of the day.
LEMMA StopStep ==
  ASSUME ~LateAccount
  PROVE  TypeInv /\ StopInv /\ [Next]_vars => LossStopHolds'
  <1> SUFFICES ASSUME TypeInv, StopInv, [Next]_vars,
                      main'.pc \in {"send", "audit"}
               PROVE  ~Loses(base', main'.equity, limits'.daily)
    BY DEF LossStopHolds
  <1>0. limits' = limits /\ limits.daily \in 0..100
    BY LimitsKept, LiveAssumption DEF TypeInv, TypeOK
  <1>1. CASE main.pc # "idle"
    BY <1>0, <1>1, UnderWay DEF StopInv, LossStopHolds
  <1>2. CASE main.pc = "idle"
    <2>1. main'.pc = "send"
      <3>1. main' # main /\ main' # Idle
        BY <1>2, IdleFacts
      <3>2. PICK r \in Refs : SubmitCheck(r)
        BY <1>2, <3>1 DEF Next, vars, Start, Crash, DayRoll, LossHalt,
           SendOrder, SendFails, AuditSubmit, OperatorHalt, OperatorResume,
           Reconnect, ReconnectFails, Recover, Cancel, WriteState,
           AccountUpdate, DispatchHalt, Disconnect, OnOrder, BrokerDone
      <3>3. \/ main' = [pc |-> "loss", ref |-> r, equity |-> equity]
            \/ main' = [pc |-> "send", ref |-> r, equity |-> equity]
        BY <3>1, <3>2 DEF SubmitCheck
      <3> QED BY <3>3
    <2>2. /\ up /\ main'.equity = equity
          /\ CheckEquity(gate, equity).latch = ""
          /\ base' = base
      BY <1>2, <2>1, PassesUnlatched DEF SubmitCheck
    <2>3. equity # 0 /\ equity \in Nat /\ base \in Nat
      <3>1. equity # 0 /\ equity \in Balances /\ base \in Balances
        BY <2>2 DEF StopInv, BaseInv, TypeInv, TypeOK
      <3> QED BY <3>1, LiveAssumption DEF Balances
    <2>4. CASE base = 0
      <3>1. 0 * (100 - limits.daily) = 0 /\ ~(100 * equity <= 0)
        BY <1>0, <2>3
      <3> QED BY <1>0, <2>2, <2>4, <3>1 DEF Loses
    <2>5. CASE base # 0
      <3>1. gate.dayStart = base
        BY <2>2, <2>5 DEF StopInv, BaseInv
      <3>2. gate.latch = "" /\ gate \in Gates
        BY <2>2, CheckEquityFacts DEF TypeInv, TypeOK
      <3>3. ~Loses(base, equity, limits.daily)
        BY <2>2, <2>3, <2>5, <3>1, <3>2 DEF CheckEquity, Gates
      <3> QED BY <1>0, <2>2, <3>3
    <2> QED BY <2>4, <2>5
  <1> QED BY <1>1, <1>2

\* An order that leaves was checked at an equity above the loss stop, measured
\* from the first baseline of the day that any process has saved, provided the
\* account arrives while recovery waits for it.
THEOREM StopHolds ==
  ASSUME ~LateAccount
  PROVE  Spec => []LossStopHolds
  <1>1. Init => StopInv
    <2>1. Init => base = 0 /\ up = FALSE /\ main = Idle
      BY DEF Init
    <2> QED BY <2>1, IdleFacts DEF StopInv, BaseInv, LossStopHolds
  <1>2. TypeInv /\ StopInv /\ [Next]_vars => StopInv'
    BY BaseStep, StopStep DEF StopInv
  <1>3. StopInv => LossStopHolds
    BY DEF StopInv
  <1> QED
    BY <1>1, <1>2, <1>3, TypeInvInit, TypeInvStep, PTL DEF Spec
=============================================================================
