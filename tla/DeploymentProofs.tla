-------------------------- MODULE DeploymentProofs --------------------------
(***************************************************************************)
(* Proofs about Deployment for every set of clients and every bound.       *)
(***************************************************************************)
EXTENDS Deployment, TLAPS

\* The operations that write the row and send a command.
Orders == Ops \ {"status"}

\* Where an operation can be: a status never writes, waits or is told
\* anything, and only a start waits for a process.
PlaceOK(k) ==
    /\ k.pc \in {"cas", "await", "kill", "done"} => k.op \in Orders
    /\ k.pc = "send" => k.op \in Ops
    /\ k.pc \in {"spawn", "launch", "second", "up"} => k.op = "start"

\* A command in the file that somebody still waits for is the only one of its
\* client, and that client is waiting.
QueueInv ==
    /\ \A i \in DOMAIN queue:
          queue[i].to # Nobody => cl[queue[i].to].pc = "await"
    /\ \A i, j \in DOMAIN queue:
          queue[i].to = queue[j].to /\ queue[i].to # Nobody => i = j

PlaceInv == \A c \in Clients: PlaceOK(cl[c])

TypeInv == TypeOK /\ PlaceInv /\ QueueInv

\* A pause or stop that nobody has overruled since it wrote the row.
Standing(k) ==
    /\ k.op \in {"pause", "stop"}
    /\ k.pc \in {"send", "await", "kill", "done"}
    /\ ~k.over

\* ... and that the daemon has carried out.
Obeyed(k) == k.pc = "kill" \/ (k.pc = "done" /\ k.ok)

\* Nobody who was told that trading has stopped, or is about to be told, sees
\* a row in which it is wanted.
WantInv ==
    /\ shut \cap {"paused", "failed"} # {} => row.desired # "running"
    /\ \A c \in Clients: Standing(cl[c]) => row.desired # "running"

KillInv == kill <=> "killed" \in shut

\* An order that has been authorized leaves first.
LeftInv ==
    /\ shut = {} => left = 0
    /\ daemon.pc = "send" => left = 0
    /\ left <= 1

ShutInv == WantInv /\ KillInv /\ LeftInv

\* No order is on its way once the daemon has carried out a pause.
QuietInv ==
    /\ "paused" \in shut => daemon.pc = "loop"
    /\ \A c \in Clients: Standing(cl[c]) /\ Obeyed(cl[c]) => daemon.pc = "loop"

\* A runner that may go on was reconciled.
CheckInv ==
    /\ ~runner.need => checked
    /\ Active => ~runner.need
    /\ daemon.pc = "send" => checked
-----------------------------------------------------------------------------
(***************************************************************************)
(* What the helpers return.                                                *)
(***************************************************************************)

\* The lifecycle of a runner is one of the states the row and the status file
\* can show.
LEMMA LifecycleType ==
    ASSUME NEW r \in Runners
    PROVE  Lifecycle(r) \in Observed
  BY DEF Lifecycle, Runners, Observed

\* A status file with a lifecycle in it shows one.
LEMMA ShownType ==
    ASSUME TypeOK, file.now # ""
    PROVE  Shown \in Observed
  BY DEF TypeOK, StatusFiles, Shown

\* A heartbeat keeps the row and the runner well formed.
LEMMA HeartbeatType ==
    ASSUME TypeOK, NEW r \in Runners, Heartbeat(r)
    PROVE  /\ row' \in Rows
           /\ fresh' \subseteq Clients
           /\ runner' \in Runners
  <1>1. Lifecycle(r) \in Observed
    BY LifecycleType
  <1>2. CASE Accepted
    BY <1>1, <1>2 DEF TypeOK, Heartbeat, Rows
  <1>3. CASE ~Accepted
    BY <1>3 DEF TypeOK, Heartbeat, Runners
  <1> QED BY <1>2, <1>3

\* So does the halt that a refused heartbeat means for the engine.
LEMMA HaltType ==
    ASSUME TypeOK, HaltedIfRefused
    PROVE  daemon' \in Daemons /\ daemon'.pc = daemon.pc
  <1>1. daemon' = [daemon EXCEPT !.halted = daemon.halted \/ ~Accepted]
    BY DEF HaltedIfRefused
  <1>2. (daemon.halted \/ ~Accepted) \in BOOLEAN
    BY DEF TypeOK, Daemons, Accepted
  <1> QED BY <1>1, <1>2 DEF TypeOK, Daemons

\* A step that moves one client to a place it may be in.
LEMMA ClientMoves ==
    ASSUME TypeOK, PlaceInv,
           NEW c \in Clients, NEW k \in Operations,
           cl' = [cl EXCEPT ![c] = k], PlaceOK(k)
    PROVE  cl' \in [Clients -> Operations] /\ PlaceInv'
  <1>1. cl \in [Clients -> Operations]
    BY DEF TypeOK
  <1>2. cl' \in [Clients -> Operations]
    BY <1>1
  <1>3. \A d \in Clients: cl'[d] = IF d = c THEN k ELSE cl[d]
    BY <1>1
  <1>4. ASSUME NEW d \in Clients
        PROVE  PlaceOK(cl'[d])
    BY <1>3, <1>4 DEF PlaceInv
  <1> QED BY <1>2, <1>4 DEF PlaceInv

\* The command file is as it was, and whoever waited waits.
LEMMA QueueStays ==
    ASSUME TypeOK, QueueInv, queue' = queue,
           \A d \in Clients: cl[d].pc = "await" => cl'[d].pc = "await"
    PROVE  QueueInv'
  <1>1. \A i \in DOMAIN queue: queue[i] \in Commands
    BY DEF TypeOK
  <1>2. \A i \in DOMAIN queue: queue[i].to \in Clients \cup {Nobody}
    BY <1>1 DEF Commands
  <1> QED BY <1>2 DEF QueueInv

\* One client that was not waiting moves and the command file is as it was.
LEMMA QueueStaysFor ==
    ASSUME TypeOK, QueueInv, queue' = queue,
           NEW c \in Clients, NEW k, cl' = [cl EXCEPT ![c] = k],
           cl[c].pc # "await"
    PROVE  QueueInv'
  <1>1. \A d \in Clients: cl[d].pc = "await" => cl'[d].pc = "await"
    BY DEF TypeOK
  <1> QED BY <1>1, QueueStays

\* An empty command file.
LEMMA QueueEmpties ==
    ASSUME queue' = <<>>
    PROVE  queue' \in Seq(Commands) /\ QueueInv'
  BY DEF QueueInv

\* A told client is done and is still in its operation.
LEMMA ToldType ==
    ASSUME TypeOK, NEW c \in Clients, NEW ok \in BOOLEAN, NEW life \in Observed
    PROVE  /\ Told(c, ok, life) \in Operations
           /\ Told(c, ok, life).op = cl[c].op
           /\ Told(c, ok, life).pc = "done"
           /\ (Told(c, ok, life).ok <=> ok)
           /\ Told(c, ok, life).over = cl[c].over
  <1>1. cl[c] \in Operations
    BY DEF TypeOK
  <1> QED BY <1>1 DEF Told, Operations

\* The client that an answer is for, if it is for one.
LEMMA AnswerTo ==
    ASSUME TypeOK, PlaceInv, QueueInv, queue # <<>>, Head(queue).to # Nobody
    PROVE  /\ Head(queue).to \in Clients
           /\ cl[Head(queue).to].pc = "await"
           /\ cl[Head(queue).to].op \in Orders
  <1>1. /\ 1 \in DOMAIN queue
        /\ Head(queue) = queue[1]
        /\ queue[1] \in Commands
    BY DEF TypeOK
  <1>2. queue[1].to \in Clients
    BY <1>1 DEF Commands
  <1>3. cl[queue[1].to].pc = "await"
    BY <1>1 DEF QueueInv
  <1> QED BY <1>1, <1>2, <1>3 DEF PlaceInv, PlaceOK

\* What an answer makes of the operation of the client it is for.
Informed(c, ok, r) ==
    [Told(c, ok, Lifecycle(r)) EXCEPT
        !.pc = IF ok /\ cl[c].op = "stop" THEN "kill" ELSE "done",
        !.rid = daemon.rid]

\* An answer keeps the operation and what overruled it.
LEMMA InformedType ==
    ASSUME TypeOK, NEW c \in Clients, NEW ok \in BOOLEAN, NEW r \in Runners
    PROVE  /\ Informed(c, ok, r) \in Operations
           /\ Informed(c, ok, r).op = cl[c].op
           /\ Informed(c, ok, r).pc \in {"kill", "done"}
           /\ Informed(c, ok, r).over = cl[c].over
  <1>1. Lifecycle(r) \in Observed
    BY LifecycleType
  <1>2. /\ Told(c, ok, Lifecycle(r)) \in Operations
        /\ Told(c, ok, Lifecycle(r)).op = cl[c].op
        /\ Told(c, ok, Lifecycle(r)).over = cl[c].over
    BY <1>1, ToldType
  <1>3. daemon.rid \in 0..MaxOps
    BY DEF TypeOK, Daemons
  <1> HIDE DEF Told
  <1> QED BY <1>2, <1>3 DEF Informed, Operations

\* An answer takes the first command away; nobody else stops waiting.
LEMMA AnswerType ==
    ASSUME TypeOK, PlaceInv, QueueInv, queue # <<>>, runner' \in Runners,
           NEW ok \in BOOLEAN, NEW shows \in BOOLEAN, Answer(ok, shows)
    PROVE  /\ queue' \in Seq(Commands)
           /\ file' \in StatusFiles
           /\ cl' \in [Clients -> Operations]
           /\ PlaceInv'
           /\ QueueInv'
  <1>0. queue \in Seq(Commands) /\ queue' = Tail(queue)
    BY DEF TypeOK, Answer
  <1>1. queue' \in Seq(Commands)
    BY <1>0
  <1>2. Lifecycle(runner') \in Observed
    BY LifecycleType
  <1>3. file' \in StatusFiles
    BY <1>2 DEF TypeOK, Answer, StatusFiles
  <1>4. /\ Len(queue) \in Nat
        /\ DOMAIN queue = 1..Len(queue)
        /\ DOMAIN queue' = 1..(Len(queue) - 1)
        /\ \A i \in DOMAIN queue': queue'[i] = queue[i + 1] /\ i + 1 \in DOMAIN queue
        /\ Head(queue) = queue[1]
        /\ 1 \in DOMAIN queue
    BY <1>0
  <1>5. CASE Head(queue).to = Nobody
    <2>1. cl' = cl
      BY <1>5 DEF Answer
    <2>2. QueueInv'
      BY <1>4, <2>1 DEF QueueInv
    <2> QED BY <1>1, <1>3, <2>1, <2>2 DEF TypeOK, PlaceInv
  <1>6. CASE Head(queue).to # Nobody
    <2> DEFINE c == Head(queue).to
    <2>1. c \in Clients /\ cl[c].op \in Orders
      BY <1>6, AnswerTo
    <2>2. cl' = [cl EXCEPT ![c] = Informed(c, ok, runner')]
      BY <1>6 DEF Answer, Informed
    <2>3. /\ Informed(c, ok, runner') \in Operations
          /\ Informed(c, ok, runner').op = cl[c].op
          /\ Informed(c, ok, runner').pc \in {"kill", "done"}
      BY <2>1, InformedType
    <2>4. PlaceOK(Informed(c, ok, runner'))
      BY <2>1, <2>3 DEF PlaceOK
    <2>5. cl' \in [Clients -> Operations] /\ PlaceInv'
      BY <2>1, <2>2, <2>3, <2>4, ClientMoves
    <2>6. ASSUME NEW i \in DOMAIN queue', queue'[i].to # Nobody
          PROVE  cl'[queue'[i].to].pc = "await"
      <3>1. queue[i + 1].to # c
        BY <1>4, <1>6, <2>6 DEF QueueInv
      <3>2. cl[queue[i + 1].to].pc = "await"
        BY <1>4, <2>6 DEF QueueInv
      <3>3. queue[i + 1] \in Commands
        BY <1>4, <2>6 DEF TypeOK
      <3>4. queue[i + 1].to \in Clients
        BY <1>4, <2>6, <3>3 DEF Commands
      <3>5. cl'[queue[i + 1].to] = cl[queue[i + 1].to]
        BY <2>2, <3>1, <3>4 DEF TypeOK
      <3> QED BY <1>4, <2>6, <3>2, <3>5
    <2>7. ASSUME NEW i \in DOMAIN queue', NEW j \in DOMAIN queue',
                 queue'[i].to = queue'[j].to, queue'[i].to # Nobody
          PROVE  i = j
      <3>1. i + 1 = j + 1
        BY <1>4, <2>7 DEF QueueInv
      <3> QED BY <1>4, <3>1
    <2> QED BY <1>1, <1>3, <2>5, <2>6, <2>7 DEF QueueInv
  <1> QED BY <1>5, <1>6

-----------------------------------------------------------------------------
(***************************************************************************)
(* Every state is well formed.                                             *)
(***************************************************************************)

\* The idle client.
LEMMA FreeType == Free \in Operations /\ PlaceOK(Free)
  BY DeploymentAssumption DEF Free, Operations, PlaceOK, Observed, Ops

\* A client that has read the row is well placed.
LEMMA ReadType ==
    ASSUME TypeInv, NEW c \in Clients, NEW op \in Ops, NEW n \in 0..MaxOps,
           NEW chained \in BOOLEAN, ReadRow(c, op, n, chained),
           cl[c].pc # "await", queue' = queue
    PROVE  /\ cl' \in [Clients -> Operations]
           /\ fresh' \subseteq Clients
           /\ PlaceInv'
           /\ QueueInv'
  <1> DEFINE nn == IF op = "start" THEN n ELSE 0
             at == IF op = "status" THEN "send" ELSE "cas"
             k == [Free EXCEPT !.op = op, !.n = nn, !.pc = at,
                               !.rid = row.rid, !.chain = chained]
  <1>1. TypeOK /\ PlaceInv /\ QueueInv
    BY DEF TypeInv
  <1>2. CASE op = "resume" /\ row.need
    <2>1. cl' = [cl EXCEPT ![c] = Free] /\ fresh' = fresh
      BY <1>2 DEF ReadRow
    <2>2. cl' \in [Clients -> Operations] /\ PlaceInv'
      BY <1>1, <2>1, FreeType, ClientMoves
    <2>3. QueueInv'
      BY <1>1, <2>1, QueueStaysFor
    <2> QED BY <1>1, <2>1, <2>2, <2>3 DEF TypeOK
  <1>3. CASE ~(op = "resume" /\ row.need)
    <2>1. cl' = [cl EXCEPT ![c] = k] /\ fresh' = fresh \cup {c}
      BY <1>3 DEF ReadRow
    <2>2. row.rid \in 0..MaxOps
      BY <1>1 DEF TypeOK, Rows
    <2>21. /\ nn \in 0..MaxOps
           /\ at \in {"send", "cas"}
           /\ at = "cas" => op \in Orders
      BY DeploymentAssumption DEF Orders
    <2> HIDE DEF nn, at
    <2>22. k \in Operations /\ k.op = op /\ k.pc = at
      BY <2>2, <2>21 DEF Free, Operations, Observed
    <2>3. k \in Operations /\ PlaceOK(k)
      BY <2>21, <2>22 DEF PlaceOK
    <2> HIDE DEF k
    <2>4. cl' \in [Clients -> Operations] /\ PlaceInv'
      BY <1>1, <2>1, <2>3, ClientMoves
    <2>5. QueueInv'
      BY <1>1, <2>1, QueueStaysFor
    <2> QED BY <1>1, <2>1, <2>4, <2>5 DEF TypeOK
  <1> QED BY <1>2, <1>3

\* Types are kept by the beginning of a client's operation.
LEMMA BeginType ==
    ASSUME TypeInv, NEW c \in Clients, NEW op \in Ops, Begin(c, op)
    PROVE  TypeInv'
  <1>1. ops + 1 \in 0..MaxOps /\ ops' = ops + 1
    BY DeploymentAssumption DEF TypeInv, TypeOK, Begin
  <1>2. ReadRow(c, op, ops + 1, FALSE) /\ cl[c].pc # "await" /\ queue' = queue
    BY DEF Begin
  <1>3. /\ cl' \in [Clients -> Operations]
        /\ fresh' \subseteq Clients
        /\ PlaceInv'
        /\ QueueInv'
    BY <1>1, <1>2, ReadType
  <1> QED BY <1>1, <1>3 DEF TypeInv, TypeOK, Begin, history

\* Types are kept by the next part of a client's operation.
LEMMA ContinueType ==
    ASSUME TypeInv, NEW c \in Clients, Continue(c)
    PROVE  TypeInv'
  <1> DEFINE op == IF cl[c].op = "start" THEN "reconcile" ELSE "resume"
  <1>1. cl[c].n \in 0..MaxOps
    BY DEF TypeInv, TypeOK, Operations
  <1>2. op \in Ops
    BY DEF Ops
  <1>3. ReadRow(c, op, cl[c].n, TRUE) /\ cl[c].pc # "await" /\ queue' = queue
    BY DEF Continue
  <1> HIDE DEF op
  <1>4. /\ cl' \in [Clients -> Operations]
        /\ fresh' \subseteq Clients
        /\ PlaceInv'
        /\ QueueInv'
    BY <1>1, <1>2, <1>3, ReadType
  <1> QED BY <1>4 DEF TypeInv, TypeOK, Continue, history

\* What an operation wants to write is a row.
LEMMA IntendedType ==
    ASSUME TypeOK, NEW c \in Clients, cl[c].op \in Orders
    PROVE  Intended(c) \in Rows
  <1>1. cl[c].n \in 0..MaxOps /\ cl[c].rid \in 0..MaxOps
    BY DEF TypeOK, Operations
  <1>2. row \in Rows
    BY DEF TypeOK
  <1> QED BY <1>1, <1>2 DEF Intended, Orders, Ops, Rows, Desired

\* What a resume makes of the operations of the other clients.
LEMMA OverType ==
    ASSUME TypeOK, NEW c \in Clients, NEW d \in Clients
    PROVE  LET k == [cl[d] EXCEPT !.over = Halting(d)]
           IN  /\ k \in Operations
               /\ k.op = cl[d].op
               /\ k.pc = cl[d].pc
               /\ k.ok = cl[d].ok
               /\ k.over <=> Halting(d)
  <1>1. cl[d] \in Operations
    BY DEF TypeOK
  <1>2. Halting(d) \in BOOLEAN
    BY DEF Halting
  <1> HIDE DEF Halting
  <1> QED BY <1>1, <1>2 DEF Operations

\* Types are kept by writing a command file.
LEMMA WriteType ==
    ASSUME TypeInv, NEW c \in Clients, Write(c)
    PROVE  TypeInv'
  <1>1. TypeOK /\ PlaceInv /\ QueueInv
    BY DEF TypeInv
  <1>2. cl[c].pc = "cas" /\ cl[c].op \in Orders /\ queue' = queue
    BY <1>1 DEF Write, PlaceInv, PlaceOK
  <1>3. CASE ~Current(c)
    <2>1. cl' = [cl EXCEPT ![c] = Free]
      BY <1>3 DEF Write
    <2>2. cl' \in [Clients -> Operations] /\ PlaceInv'
      BY <1>1, <2>1, FreeType, ClientMoves
    <2>3. QueueInv'
      BY <1>1, <1>2, <2>1, QueueStaysFor
    <2> QED BY <1>1, <1>3, <2>2, <2>3 DEF TypeInv, TypeOK, Write
  <1>4. CASE Current(c)
    <2>1. row' = Intended(c) /\ fresh' = {}
      BY <1>4 DEF Write
    <2>2. row' \in Rows
      BY <1>1, <1>2, <2>1, IntendedType
    <2>3. CASE cl[c].op = "resume"
      <3> DEFINE k(d) == IF d = c THEN [cl[c] EXCEPT !.pc = "send"]
                         ELSE [cl[d] EXCEPT !.over = Halting(d)]
      <3>1. cl' = [d \in Clients |-> k(d)]
        BY <1>4, <2>3 DEF Write
      <3>2. ASSUME NEW d \in Clients
            PROVE  /\ k(d) \in Operations
                   /\ PlaceOK(k(d))
                   /\ cl[d].pc = "await" => k(d).pc = "await"
        <4>1. CASE d = c
          BY <1>1, <1>2, <4>1 DEF TypeOK, Operations, PlaceOK, Orders
        <4>2. CASE d # c
          <5>1. /\ k(d) \in Operations
                /\ k(d).op = cl[d].op
                /\ k(d).pc = cl[d].pc
            BY <1>1, <4>2, OverType
          <5> HIDE DEF k
          <5> QED BY <1>1, <5>1 DEF PlaceInv, PlaceOK
        <4> QED BY <4>1, <4>2
      <3> HIDE DEF k
      <3>3. cl' \in [Clients -> Operations] /\ PlaceInv'
        BY <3>1, <3>2 DEF PlaceInv
      <3>4. QueueInv'
        BY <1>1, <1>2, <3>1, <3>2, QueueStays
      <3>5. shut' \subseteq shut /\ left' \in {left, 0}
        BY <1>4, <2>3 DEF Write
      <3>6. /\ block' \in BOOLEAN
            /\ UNCHANGED <<kill, daemon, file, runner, plan, ops, faults, checked>>
        BY DEF Write
      <3> QED BY <1>1, <1>2, <2>1, <2>2, <3>3, <3>4, <3>5, <3>6 DEF TypeInv, TypeOK
    <2>4. CASE cl[c].op # "resume"
      <3> DEFINE k == [cl[c] EXCEPT !.pc = "send", !.over = FALSE, !.rid = row'.rid]
      <3>1. cl' = [cl EXCEPT ![c] = k] /\ UNCHANGED <<shut, left>>
        BY <1>1, <1>4, <2>4 DEF Write, TypeOK, Operations
      <3>2. row'.rid \in 0..MaxOps
        BY <2>2 DEF Rows
      <3>3. k \in Operations /\ PlaceOK(k)
        BY <1>1, <1>2, <3>2 DEF TypeOK, Operations, PlaceOK, Orders
      <3> HIDE DEF k
      <3>4. cl' \in [Clients -> Operations] /\ PlaceInv'
        BY <1>1, <3>1, <3>3, ClientMoves
      <3>5. QueueInv'
        BY <1>1, <1>2, <3>1, QueueStaysFor
      <3>6. /\ block' \in BOOLEAN
            /\ UNCHANGED <<kill, daemon, file, runner, plan, ops, faults, checked>>
        BY DEF Write
      <3> QED BY <1>1, <1>2, <2>1, <2>2, <3>1, <3>4, <3>5, <3>6 DEF TypeInv, TypeOK
    <2> QED BY <2>3, <2>4
  <1> QED BY <1>3, <1>4

\* A client that was not waiting is told something.
LEMMA ToldMoves ==
    ASSUME TypeInv, NEW c \in Clients, NEW ok \in BOOLEAN, NEW life \in Observed,
           cl' = [cl EXCEPT ![c] = Told(c, ok, life)], cl[c].op \in Orders,
           queue' = queue, cl[c].pc # "await"
    PROVE  /\ cl' \in [Clients -> Operations]
           /\ PlaceInv'
           /\ QueueInv'
  <1>1. TypeOK /\ PlaceInv /\ QueueInv
    BY DEF TypeInv
  <1>2. Told(c, ok, life) \in Operations /\ PlaceOK(Told(c, ok, life))
    BY <1>1, ToldType DEF PlaceOK
  <1> HIDE DEF Told
  <1>3. cl' \in [Clients -> Operations] /\ PlaceInv'
    BY <1>1, <1>2, ClientMoves
  <1>4. QueueInv'
    BY <1>1, QueueStaysFor
  <1> QED BY <1>3, <1>4

\* A client sends a command and waits for the answer to it.
LEMMA SendType ==
    ASSUME TypeInv, NEW c \in Clients, NEW op \in Ops, SendCommand(c, op),
           cl[c].pc = "send", cl[c].op \in Orders
    PROVE  /\ cl' \in [Clients -> Operations]
           /\ queue' \in Seq(Commands)
           /\ PlaceInv'
           /\ QueueInv'
  <1>1. TypeOK /\ PlaceInv /\ QueueInv
    BY DEF TypeInv
  <1> DEFINE k == [cl[c] EXCEPT !.pc = "await"]
             e == [op |-> op, to |-> c]
  <1>2. cl' = [cl EXCEPT ![c] = k] /\ queue' = Append(queue, e)
    BY <1>1 DEF SendCommand, TypeOK, Operations
  <1>3. k \in Operations /\ PlaceOK(k) /\ k.pc = "await"
    BY <1>1 DEF TypeOK, Operations, PlaceOK
  <1>4. e \in Commands /\ e.to = c
    BY DEF Commands
  <1> HIDE DEF k, e
  <1>5. cl' \in [Clients -> Operations] /\ PlaceInv'
    BY <1>1, <1>2, <1>3, ClientMoves
  <1>6. queue \in Seq(Commands)
    BY <1>1 DEF TypeOK
  <1>7. /\ queue' \in Seq(Commands)
        /\ Len(queue) \in Nat
        /\ DOMAIN queue = 1..Len(queue)
        /\ DOMAIN queue' = 1..(Len(queue) + 1)
        /\ \A i \in DOMAIN queue: queue'[i] = queue[i]
        /\ queue'[Len(queue) + 1] = e
    BY <1>2, <1>4, <1>6
  <1>8. ASSUME NEW i \in DOMAIN queue, queue[i].to # Nobody
        PROVE  queue[i].to \in Clients /\ queue[i].to # c
    <2>1. queue[i] \in Commands
      BY <1>6, <1>8
    <2>2. cl[queue[i].to].pc = "await"
      BY <1>1, <1>8 DEF QueueInv
    <2> QED BY <1>8, <2>1, <2>2 DEF Commands
  <1>9. \A d \in Clients: cl'[d] = IF d = c THEN k ELSE cl[d]
    BY <1>1, <1>2 DEF TypeOK
  <1>10. ASSUME NEW i \in DOMAIN queue', queue'[i].to # Nobody
         PROVE  cl'[queue'[i].to].pc = "await"
    <2>1. CASE i \in DOMAIN queue
      <3>1. queue'[i] = queue[i]
        BY <1>7, <2>1
      <3>2. queue[i].to \in Clients /\ queue[i].to # c
        BY <1>8, <1>10, <2>1, <3>1
      <3>3. cl[queue[i].to].pc = "await"
        BY <1>1, <1>10, <2>1, <3>1 DEF QueueInv
      <3> QED BY <1>9, <3>1, <3>2, <3>3
    <2>2. CASE i \notin DOMAIN queue
      <3>1. queue'[i] = e
        BY <1>7, <1>10, <2>2
      <3> QED BY <1>3, <1>4, <1>9, <3>1
    <2> QED BY <2>1, <2>2
  <1>11. ASSUME NEW i \in DOMAIN queue', NEW j \in DOMAIN queue',
                queue'[i].to = queue'[j].to, queue'[i].to # Nobody
         PROVE  i = j
    <2>1. CASE i \in DOMAIN queue /\ j \in DOMAIN queue
      BY <1>1, <1>7, <1>11, <2>1 DEF QueueInv
    <2>2. CASE i \in DOMAIN queue /\ j \notin DOMAIN queue
      <3>1. queue'[i] = queue[i] /\ queue'[j] = e
        BY <1>7, <1>11, <2>2
      <3> QED BY <1>4, <1>8, <1>11, <2>2, <3>1
    <2>3. CASE i \notin DOMAIN queue /\ j \in DOMAIN queue
      <3>1. queue'[j] = queue[j] /\ queue'[i] = e
        BY <1>7, <1>11, <2>3
      <3> QED BY <1>4, <1>8, <1>11, <2>3, <3>1
    <2>4. CASE i \notin DOMAIN queue /\ j \notin DOMAIN queue
      BY <1>7, <1>11, <2>4
    <2> QED BY <2>1, <2>2, <2>3, <2>4
  <1> QED BY <1>5, <1>7, <1>10, <1>11 DEF QueueInv

\* Types are kept by taking a command file.
LEMMA DispatchType ==
    ASSUME TypeInv, NEW c \in Clients, Dispatch(c)
    PROVE  TypeInv'
  <1>1. TypeOK /\ PlaceInv /\ QueueInv
    BY DEF TypeInv
  <1>2. cl[c].pc = "send" /\ cl[c].op \in Orders
    BY <1>1 DEF Dispatch, PlaceInv, PlaceOK, Orders
  <1>3. /\ cl' \in [Clients -> Operations]
        /\ queue' \in Seq(Commands)
        /\ PlaceInv'
        /\ QueueInv'
    <2>1. CASE \E op \in Ops: SendCommand(c, op)
      BY <1>2, <2>1, SendType
    <2>2. CASE /\ cl' = [cl EXCEPT ![c] = Told(c, FALSE, "error")]
               /\ queue' = queue
      <3>1. "error" \in Observed
        BY DEF Observed
      <3> QED BY <1>1, <1>2, <2>2, <3>1, ToldMoves DEF TypeOK
    <2>3. CASE /\ cl' = [cl EXCEPT ![c].pc = "spawn"]
               /\ queue' = queue
               /\ cl[c].op = "start"
      <3> DEFINE k == [cl[c] EXCEPT !.pc = "spawn"]
      <3>1. cl' = [cl EXCEPT ![c] = k]
        BY <1>1, <2>3 DEF TypeOK, Operations
      <3>2. k \in Operations /\ PlaceOK(k)
        BY <1>1, <2>3 DEF TypeOK, Operations, PlaceOK
      <3> HIDE DEF k
      <3>3. cl' \in [Clients -> Operations] /\ PlaceInv'
        BY <1>1, <3>1, <3>2, ClientMoves
      <3>4. QueueInv'
        BY <1>1, <1>2, <2>3, <3>1, QueueStaysFor
      <3> QED BY <1>1, <2>3, <3>3, <3>4 DEF TypeOK
    <2>4. CASE /\ cl' = [cl EXCEPT ![c] = Told(c, Bound(cl[c].rid), Shown)]
               /\ queue' = queue
               /\ file.now # ""
      <3>1. Shown \in Observed
        BY <1>1, <2>4, ShownType
      <3>2. Bound(cl[c].rid) \in BOOLEAN
        BY <1>1 DEF Bound, TypeOK, Daemons
      <3> HIDE DEF Shown, Bound
      <3> QED BY <1>1, <1>2, <2>4, <3>1, <3>2, ToldMoves DEF TypeOK
    <2> QED BY <1>2, <2>1, <2>2, <2>3, <2>4 DEF Dispatch, Orders, Ops
  <1> QED BY <1>1, <1>3 DEF TypeInv, TypeOK, Dispatch, history

\* Another process, or none.
LEMMA ProcessType ==
    ASSUME NEW d \in Daemons, Process(d)
    PROVE  /\ daemon' \in Daemons
           /\ runner' \in Runners
           /\ file' \in StatusFiles
           /\ checked' \in BOOLEAN
           /\ queue' \in Seq(Commands)
           /\ QueueInv'
  <1>1. queue' \in Seq(Commands) /\ QueueInv'
    BY QueueEmpties DEF Process
  <1> QED BY <1>1 DEF Process, NewRunner, Runners, StatusFiles

\* No process.
LEMMA NoDaemonType == NoDaemon \in Daemons /\ NoDaemon.pc = "loop"
  BY DeploymentAssumption DEF NoDaemon, Daemons

\* A start that moves on and is neither waiting nor answered.
LEMMA StartMoves ==
    ASSUME TypeInv, NEW c \in Clients, NEW p \in {"launch", "second", "up"},
           cl[c].pc \in {"spawn", "launch"}, cl' = [cl EXCEPT ![c].pc = p]
    PROVE  /\ cl' \in [Clients -> Operations]
           /\ PlaceInv'
           /\ queue' = queue => QueueInv'
           /\ \E k: cl' = [cl EXCEPT ![c] = k] /\ ~Standing(k)
  <1>1. TypeOK /\ PlaceInv /\ QueueInv
    BY DEF TypeInv
  <1>2. cl[c].op = "start" /\ cl[c] \in Operations
    BY <1>1 DEF PlaceInv, PlaceOK, TypeOK
  <1> DEFINE k == [cl[c] EXCEPT !.pc = p]
  <1>3. k \in Operations /\ k.op = "start" /\ k.pc = p
    BY <1>2 DEF Operations
  <1>4. PlaceOK(k) /\ ~Standing(k)
    BY <1>3 DEF PlaceOK, Standing
  <1>5. cl' = [cl EXCEPT ![c] = k]
    OBVIOUS
  <1> HIDE DEF k
  <1>6. cl' \in [Clients -> Operations] /\ PlaceInv'
    BY <1>1, <1>3, <1>4, <1>5, ClientMoves
  <1>7. queue' = queue => QueueInv'
    BY <1>1, <1>5, QueueStaysFor
  <1> QED BY <1>4, <1>5, <1>6, <1>7

\* Types are kept by looking for a daemon, and by a second launch.
LEMMA SpawnCheckType ==
    ASSUME TypeInv, NEW c \in Clients, SpawnCheck(c) \/ SpawnSecond(c)
    PROVE  TypeInv'
  <1>1. TypeOK
    BY DEF TypeInv
  <1>2. /\ \E p \in {"launch", "second", "up"}: cl' = [cl EXCEPT ![c].pc = p]
        /\ cl[c].pc \in {"spawn", "launch"}
        /\ queue' = queue
    BY DEF SpawnCheck, SpawnSecond
  <1>3. cl' \in [Clients -> Operations] /\ PlaceInv' /\ QueueInv'
    BY <1>2, StartMoves
  <1> QED BY <1>1, <1>3 DEF TypeInv, TypeOK, SpawnCheck, SpawnSecond, history

\* Types are kept by starting a daemon.
LEMMA SpawnType ==
    ASSUME TypeInv, NEW c \in Clients, Spawn(c)
    PROVE  TypeInv'
  <1> DEFINE d == [NoDaemon EXCEPT !.alive = TRUE, !.rid = cl[c].rid]
  <1>1. TypeOK /\ cl[c].rid \in 0..MaxOps
    BY DEF TypeInv, TypeOK, Operations
  <1>2. d \in Daemons /\ Process(d)
    BY <1>1 DEF NoDaemon, Daemons, Spawn
  <1> HIDE DEF d
  <1>3. /\ daemon' \in Daemons
        /\ runner' \in Runners
        /\ file' \in StatusFiles
        /\ checked' \in BOOLEAN
        /\ queue' \in Seq(Commands)
        /\ QueueInv'
    BY <1>2, ProcessType
  <1>4. cl[c].pc = "launch" /\ cl' = [cl EXCEPT ![c].pc = "up"]
    BY DEF Spawn
  <1>5. cl' \in [Clients -> Operations] /\ PlaceInv'
    BY <1>4, StartMoves
  <1> QED BY <1>1, <1>3, <1>5 DEF TypeInv, TypeOK, Spawn

\* Types are kept by seeing the new daemon.
LEMMA SpawnSeenType ==
    ASSUME TypeInv, NEW c \in Clients, SpawnSeen(c)
    PROVE  TypeInv'
  <1>1. TypeOK /\ PlaceInv /\ QueueInv
    BY DEF TypeInv
  <1>2. Shown \in Observed
    BY <1>1, ShownType DEF SpawnSeen
  <1>3. Bound(cl[c].rid) \in BOOLEAN
    BY <1>1 DEF Bound, TypeOK, Daemons
  <1>4. cl[c].op \in Orders /\ cl[c].pc # "await" /\ queue' = queue
    BY <1>1 DEF SpawnSeen, PlaceInv, PlaceOK, Orders, Ops
  <1>5. cl' = [cl EXCEPT ![c] = Told(c, Bound(cl[c].rid), Shown)]
    BY DEF SpawnSeen
  <1>6. /\ cl' \in [Clients -> Operations]
        /\ PlaceInv'
        /\ QueueInv'
    BY <1>2, <1>3, <1>4, <1>5, ToldMoves
  <1> QED BY <1>1, <1>6 DEF TypeInv, TypeOK, SpawnSeen, history

\* Types are kept by giving up on an answer.
LEMMA TimeoutType ==
    ASSUME TypeInv, NEW c \in Clients, Timeout(c)
    PROVE  TypeInv'
  <1>1. TypeOK /\ PlaceInv /\ QueueInv
    BY DEF TypeInv
  <1>2. cl[c].op \in Orders
    BY <1>1 DEF Timeout, PlaceInv, PlaceOK, Orders, Ops
  <1>3. cl' = [cl EXCEPT ![c] = Told(c, FALSE, "error")]
    BY DEF Timeout
  <1>4. Told(c, FALSE, "error") \in Operations /\ PlaceOK(Told(c, FALSE, "error"))
    BY <1>1, <1>2, ToldType DEF PlaceOK, Observed
  <1> HIDE DEF Told
  <1>5. cl' \in [Clients -> Operations] /\ PlaceInv'
    BY <1>1, <1>3, <1>4, ClientMoves
  <1>6. /\ queue' = [i \in DOMAIN queue |->
                        IF queue[i].to = c THEN [queue[i] EXCEPT !.to = Nobody]
                        ELSE queue[i]]
        /\ queue \in Seq(Commands)
    BY <1>1 DEF Timeout, TypeOK
  <1>7. ASSUME NEW i \in DOMAIN queue
        PROVE  /\ queue[i] \in Commands
               /\ queue'[i] \in Commands
               /\ queue'[i].to # Nobody =>
                      /\ queue'[i].to = queue[i].to
                      /\ queue'[i].to # c
                      /\ queue'[i].to \in Clients
    <2>1. queue[i] \in Commands
      BY <1>6, <1>7
    <2>2. queue'[i] = IF queue[i].to = c THEN [queue[i] EXCEPT !.to = Nobody]
                      ELSE queue[i]
      BY <1>6, <1>7
    <2> QED BY <2>1, <2>2 DEF Commands
  <1>8. /\ Len(queue) \in Nat
        /\ DOMAIN queue = 1..Len(queue)
    BY <1>6
  <1>9. DOMAIN queue' = DOMAIN queue
    BY <1>6
  <1>10. queue' \in Seq(Commands)
    <2>1. queue' \in [1..Len(queue) -> Commands]
      BY <1>6, <1>7, <1>8
    <2> QED BY <1>8, <2>1
  <1>11. QueueInv'
    <2>1. \A d \in Clients: d # c => cl'[d] = cl[d]
      BY <1>1, <1>3 DEF TypeOK
    <2>2. ASSUME NEW i \in DOMAIN queue', queue'[i].to # Nobody
          PROVE  cl'[queue'[i].to].pc = "await"
      BY <1>1, <1>7, <1>9, <2>1, <2>2 DEF QueueInv
    <2>3. ASSUME NEW i \in DOMAIN queue', NEW j \in DOMAIN queue',
                 queue'[i].to = queue'[j].to, queue'[i].to # Nobody
          PROVE  i = j
      BY <1>1, <1>7, <1>9, <2>3 DEF QueueInv
    <2> QED BY <2>2, <2>3 DEF QueueInv
  <1> QED BY <1>1, <1>5, <1>10, <1>11 DEF TypeInv, TypeOK, Timeout, history

\* Types are kept by killing the process.
LEMMA TerminateType ==
    ASSUME TypeInv, NEW c \in Clients, NEW dies \in BOOLEAN, Terminate(c, dies)
    PROVE  TypeInv'
  <1>1. TypeOK /\ PlaceInv /\ QueueInv
    BY DEF TypeInv
  <1>2. cl[c].pc = "kill" /\ cl[c].op \in Orders
    BY <1>1 DEF Terminate, PlaceInv, PlaceOK
  <1>3. cl' = [cl EXCEPT ![c] = Told(c, dies, cl[c].life)]
    BY DEF Terminate
  <1>4. cl[c].life \in Observed
    BY <1>1 DEF TypeOK, Operations
  <1>5. /\ Told(c, dies, cl[c].life) \in Operations
        /\ PlaceOK(Told(c, dies, cl[c].life))
    BY <1>1, <1>2, <1>4, ToldType DEF PlaceOK
  <1> HIDE DEF Told
  <1>6. cl' \in [Clients -> Operations] /\ PlaceInv'
    BY <1>1, <1>3, <1>5, ClientMoves
  <1>7. /\ daemon' \in Daemons
        /\ runner' \in Runners
        /\ file' \in StatusFiles
        /\ checked' \in BOOLEAN
        /\ queue' \in Seq(Commands)
        /\ QueueInv'
    <2>1. CASE dies
      BY <2>1, ProcessType, NoDaemonType DEF Terminate
    <2>2. CASE ~dies
      <3>1. UNCHANGED <<daemon, runner, file, queue, checked>>
        BY <2>2 DEF Terminate
      <3>2. QueueInv'
        BY <1>1, <1>2, <1>3, <3>1, QueueStaysFor
      <3> QED BY <1>1, <3>1, <3>2 DEF TypeOK
    <2> QED BY <2>1, <2>2
  <1> QED BY <1>1, <1>6, <1>7 DEF TypeInv, TypeOK, Terminate

\* What a finished operation writes is a row.
LEMMA FinishedType ==
    ASSUME TypeOK, NEW c \in Clients, cl[c].op \in Orders
    PROVE  Confirmed(c) \in Rows /\ Failed(row) \in Rows
  <1>1. cl[c].life \in Observed /\ cl[c].rid \in 0..MaxOps
    BY DEF TypeOK, Operations
  <1>2. row \in Rows
    BY DEF TypeOK
  <1>3. Failed(row) \in Rows
    BY <1>2 DEF Failed, Rows, Desired, Observed
  <1>4. Confirmed(c) \in Rows
    <2>1. CASE cl[c].op \in {"start", "pause"}
      BY <1>1, <1>2, <2>1 DEF Confirmed, Rows, Desired, Observed
    <2>2. CASE cl[c].op \in {"reconcile", "resume"}
      BY <1>1, <1>2, <2>2 DEF Confirmed, Rows, Desired, Observed
    <2>3. CASE cl[c].op = "stop"
      <3>1. Confirmed(c) = [row EXCEPT !.observed = "stopped", !.rid = 0, !.need = TRUE,
                                       !.reconciled = FALSE, !.bound = FALSE]
        BY <2>3 DEF Confirmed
      <3>2. 0 \in 0..MaxOps /\ "stopped" \in Observed
        BY DeploymentAssumption DEF Observed
      <3> QED BY <1>2, <3>1, <3>2 DEF Rows
    <2> QED BY <2>1, <2>2, <2>3 DEF Orders, Ops
  <1> QED BY <1>3, <1>4

\* Types are kept by the answer to a client.
LEMMA FinishType ==
    ASSUME TypeInv, NEW c \in Clients, Finish(c)
    PROVE  TypeInv'
  <1>1. TypeOK /\ PlaceInv /\ QueueInv
    BY DEF TypeInv
  <1>2. cl[c].pc = "done" /\ cl[c].op \in Orders /\ queue' = queue
    BY <1>1 DEF Finish, PlaceInv, PlaceOK
  <1>3. row' \in {Confirmed(c), Failed(row)} /\ fresh' = {}
    BY DEF Finish
  <1>4. row' \in Rows
    BY <1>1, <1>2, <1>3, FinishedType
  <1> DEFINE k == IF cl[c].ok THEN After(c) ELSE Free
  <1>5. cl' = [cl EXCEPT ![c] = k]
    BY DEF Finish
  <1>6. k \in Operations /\ PlaceOK(k)
    <2>1. After(c) \in Operations /\ PlaceOK(After(c))
      <3>1. cl[c] \in Operations
        BY <1>1 DEF TypeOK
      <3>2. After(c) \in {[cl[c] EXCEPT !.pc = "unblock"], [cl[c] EXCEPT !.pc = "next"], Free}
        BY DEF After
      <3>3. \A at \in {"unblock", "next"}:
               /\ [cl[c] EXCEPT !.pc = at] \in Operations
               /\ PlaceOK([cl[c] EXCEPT !.pc = at])
        BY <3>1 DEF Operations, PlaceOK
      <3> QED BY <3>2, <3>3, FreeType
    <2> QED BY <2>1, FreeType
  <1> HIDE DEF k
  <1>7. cl' \in [Clients -> Operations] /\ PlaceInv'
    BY <1>1, <1>5, <1>6, ClientMoves
  <1>8. QueueInv'
    BY <1>1, <1>2, <1>5, QueueStaysFor
  <1>9. shut' \in {shut \cup {"failed"}, shut \cup {"paused"}, shut}
    BY DEF Finish
  <1>10. UNCHANGED <<block, kill, queue, daemon, file, runner, plan, ops,
                     faults, left, checked>>
    BY DEF Finish
  <1> QED BY <1>1, <1>3, <1>4, <1>7, <1>8, <1>9, <1>10 DEF TypeInv, TypeOK

\* Types are kept by lifting the route block.
LEMMA UnblockType ==
    ASSUME TypeInv, NEW c \in Clients, Unblock(c)
    PROVE  TypeInv'
  <1>1. TypeOK /\ PlaceInv /\ QueueInv
    BY DEF TypeInv
  <1>2. cl' = [cl EXCEPT ![c] = Free] /\ cl[c].pc # "await" /\ queue' = queue
    BY DEF Unblock
  <1>3. cl' \in [Clients -> Operations] /\ PlaceInv'
    BY <1>1, <1>2, FreeType, ClientMoves
  <1>4. QueueInv'
    BY <1>1, <1>2, QueueStaysFor
  <1> QED BY <1>1, <1>3, <1>4 DEF TypeInv, TypeOK, Unblock, history

\* Two states are compatible or they are not.
LEMMA CompatibleType ==
    ASSUME NEW d, NEW o
    PROVE  Compatible(d, o) \in BOOLEAN
  <1>1. CASE d = "running"
    BY <1>1 DEF Compatible
  <1>2. CASE d = "paused"
    BY <1>2 DEF Compatible
  <1>3. CASE d \notin {"running", "paused"}
    BY <1>3 DEF Compatible
  <1> QED BY <1>1, <1>2, <1>3

\* Types are kept by a status request.
LEMMA StatusType ==
    ASSUME TypeInv, NEW c \in Clients, Status(c)
    PROVE  TypeInv'
  <1>1. TypeOK /\ PlaceInv /\ QueueInv
    BY DEF TypeInv
  <1>2. /\ cl' = [cl EXCEPT ![c] = Free]
        /\ cl[c].pc # "await"
        /\ fresh' = {}
        /\ UNCHANGED <<kill, queue, daemon, file, runner, plan, ops, faults,
                       left, checked>>
    BY DEF Status
  <1>3. cl' \in [Clients -> Operations] /\ PlaceInv'
    BY <1>1, <1>2, FreeType, ClientMoves
  <1>4. QueueInv'
    BY <1>1, <1>2, QueueStaysFor
  <1>5. /\ row' \in Rows
        /\ block' \in BOOLEAN
        /\ shut' \subseteq {"paused", "failed", "killed"}
    <2>1. CASE Bound(cl[c].rid)
      <3> DEFINE n == row.need \/ ~Compatible(row.desired, Shown)
      <3>1. Shown \in Observed
        BY <1>1, <2>1, ShownType DEF Bound
      <3>2. /\ row \in Rows
            /\ daemon.rid \in 0..MaxOps
            /\ block \in BOOLEAN
        BY <1>1 DEF TypeOK, Daemons
      <3>3. Compatible(row.desired, Shown) \in BOOLEAN
        BY CompatibleType
      <3>4. n \in BOOLEAN
        BY <3>2, <3>3 DEF Rows
      <3>5. /\ row' = [row EXCEPT !.observed = Shown, !.rid = daemon.rid, !.need = n]
            /\ block' = (block \/ ~Compatible(row.desired, Shown))
            /\ shut' = shut
        BY <2>1, <3>2 DEF Status, Rows
      <3> HIDE DEF n, Compatible
      <3>6. row' \in Rows
        BY <3>1, <3>2, <3>4, <3>5 DEF Rows
      <3>7. block' \in BOOLEAN
        BY <3>2, <3>3, <3>5
      <3> QED BY <1>1, <3>5, <3>6, <3>7 DEF TypeOK
    <2>2. CASE ~Bound(cl[c].rid)
      <3>1. row' = Failed(row) /\ block' = TRUE /\ shut' = shut \cup {"failed"}
        BY <2>2 DEF Status
      <3>2. Failed(row) \in Rows
        BY <1>1 DEF TypeOK, Failed, Rows, Desired, Observed
      <3> QED BY <1>1, <3>1, <3>2 DEF TypeOK
    <2> QED BY <2>1, <2>2
  <1> QED BY <1>1, <1>2, <1>3, <1>4, <1>5 DEF TypeInv, TypeOK

\* Types are kept by reading the configuration.
LEMMA ConfigureType ==
    ASSUME TypeInv, Configure
    PROVE  TypeInv'
  <1>1. TypeOK /\ PlaceInv /\ QueueInv
    BY DEF TypeInv
  <1>2. ops' \in 0..MaxOps
    BY <1>1, DeploymentAssumption DEF TypeOK, Configure
  <1>3. row' \in Rows
    BY DeploymentAssumption DEF Configure, Configured, Rows, Desired, Observed
  <1> QED BY <1>1, <1>2, <1>3 DEF TypeInv, TypeOK, PlaceInv, QueueInv, Configure, history

\* Types are kept by the kill switch.
LEMMA KillSwitchType ==
    ASSUME TypeInv, NEW on \in BOOLEAN, KillSwitch(on)
    PROVE  TypeInv'
  <1>1. TypeOK /\ PlaceInv /\ QueueInv
    BY DEF TypeInv
  <1>2. faults' \in 0..MaxFaults
    BY <1>1, DeploymentAssumption DEF TypeOK, KillSwitch
  <1>3. shut' \in {shut \cup {"killed"}, shut \ {"killed"}} /\ left' \in {left, 0}
    BY DEF KillSwitch
  <1>4. /\ kill' \in BOOLEAN
        /\ UNCHANGED <<row, fresh, block, cl, queue, daemon, file, runner, plan,
                       ops, checked>>
    BY DEF KillSwitch
  <1> QED BY <1>1, <1>2, <1>3, <1>4 DEF TypeInv, TypeOK, PlaceInv, QueueInv

\* A command whose answer and effects on the runner and the row are known.
LEMMA CommandType ==
    ASSUME TypeInv, queue # <<>>,
           row' \in Rows, fresh' \subseteq Clients, runner' \in Runners,
           daemon' \in Daemons, checked' \in BOOLEAN,
           plan' \in {"none", "open", "working", "refused", "paused"},
           NEW ok \in BOOLEAN, NEW shows \in BOOLEAN, Answer(ok, shows),
           UNCHANGED <<block, kill, ops, faults, shut, left>>
    PROVE  TypeInv'
  <1>1. TypeOK /\ PlaceInv /\ QueueInv
    BY DEF TypeInv
  <1>2. /\ queue' \in Seq(Commands)
        /\ file' \in StatusFiles
        /\ cl' \in [Clients -> Operations]
        /\ PlaceInv'
        /\ QueueInv'
    BY <1>1, AnswerType
  <1> QED BY <1>1, <1>2 DEF TypeInv, TypeOK

\* A plan that is paused is a plan.
LEMMA PausedPlanType == PausedPlan \in {"none", "paused"}
  BY DEF PausedPlan

\* Types are kept by a pause.
LEMMA ExecPauseType ==
    ASSUME TypeInv, NEW confirmed \in BOOLEAN, ExecPause(confirmed)
    PROVE  TypeInv'
  <1>1. TypeOK
    BY DEF TypeInv
  <1> DEFINE r == [runner EXCEPT !.paused = TRUE]
  <1>2. r \in Runners
    BY <1>1 DEF TypeOK, Runners
  <1>3. Heartbeat(r) /\ HaltedIfRefused /\ queue # <<>> /\ Answer(confirmed, TRUE)
    BY DEF ExecPause, Commanded
  <1> HIDE DEF r
  <1>4. /\ row' \in Rows
        /\ fresh' \subseteq Clients
        /\ runner' \in Runners
        /\ daemon' \in Daemons
    BY <1>1, <1>2, <1>3, HeartbeatType, HaltType
  <1>5. /\ checked' \in BOOLEAN
        /\ plan' \in {"none", "paused"}
        /\ UNCHANGED <<block, kill, ops, faults, shut, left>>
    BY <1>1, PausedPlanType DEF TypeOK, ExecPause, history
  <1> QED BY <1>3, <1>4, <1>5, CommandType

\* Types are kept by a reconciliation.
LEMMA ExecReconcileType ==
    ASSUME TypeInv, NEW clean \in BOOLEAN, ExecReconcile(clean)
    PROVE  TypeInv'
  <1>1. TypeOK
    BY DEF TypeInv
  <1> DEFINE warned == ~clean \/ PausedPlan = "paused"
             r == [runner EXCEPT !.paused = TRUE, !.need = warned]
  <1>2. warned \in BOOLEAN
    OBVIOUS
  <1>3. /\ Heartbeat(r)
        /\ HaltedIfRefused
        /\ queue # <<>>
        /\ Answer(~warned, ~warned)
        /\ checked' = ~warned
    BY DEF ExecReconcile, Commanded
  <1> HIDE DEF warned
  <1>4. r \in Runners
    BY <1>1, <1>2 DEF TypeOK, Runners
  <1> HIDE DEF r
  <1>5. /\ row' \in Rows
        /\ fresh' \subseteq Clients
        /\ runner' \in Runners
        /\ daemon' \in Daemons
    BY <1>1, <1>3, <1>4, HeartbeatType, HaltType
  <1>6. /\ plan' \in {"none", "paused"}
        /\ UNCHANGED <<block, kill, ops, faults, shut, left>>
    BY PausedPlanType DEF ExecReconcile
  <1>7. (~warned) \in BOOLEAN /\ checked' \in BOOLEAN
    BY <1>2, <1>3
  <1> QED BY <1>3, <1>5, <1>6, <1>7, CommandType

\* Types are kept by a resume.
LEMMA ExecResumeType ==
    ASSUME TypeInv, NEW granted \in BOOLEAN, ExecResume(granted)
    PROVE  TypeInv'
  <1>1. TypeOK
    BY DEF TypeInv
  <1>2. /\ queue # <<>>
        /\ checked' \in BOOLEAN
        /\ plan' \in {"none", "open", "working", "refused", "paused"}
        /\ UNCHANGED <<block, kill, ops, faults, shut, left>>
    BY <1>1 DEF TypeOK, ExecResume, Commanded, history
  <1>3. CASE MayResume
    <2> DEFINE r == [runner EXCEPT !.paused = FALSE]
               halted == daemon.halted \/ ~Accepted
    <2>1. r \in Runners
      BY <1>1 DEF TypeOK, Runners
    <2>2. Heartbeat(r) /\ Answer(granted, TRUE)
      BY <1>3 DEF ExecResume
    <2>3. daemon' = [daemon EXCEPT !.halted = halted /\ ~granted]
      BY <1>3 DEF ExecResume
    <2> HIDE DEF r
    <2>4. row' \in Rows /\ fresh' \subseteq Clients /\ runner' \in Runners
      BY <1>1, <2>1, <2>2, HeartbeatType
    <2>5. (halted /\ ~granted) \in BOOLEAN
      OBVIOUS
    <2> HIDE DEF halted
    <2>6. daemon' \in Daemons
      BY <1>1, <2>3, <2>5 DEF TypeOK, Daemons
    <2> QED BY <1>2, <2>2, <2>4, <2>6, CommandType
  <1>4. CASE ~MayResume
    <2>1. UNCHANGED <<row, fresh, runner, daemon>> /\ Answer(FALSE, FALSE)
      BY <1>4 DEF ExecResume
    <2>2. /\ row' \in Rows
          /\ fresh' \subseteq Clients
          /\ runner' \in Runners
          /\ daemon' \in Daemons
      BY <1>1, <2>1 DEF TypeOK
    <2> QED BY <1>2, <2>1, <2>2, CommandType
  <1> QED BY <1>3, <1>4

\* Types are kept by a stop.
LEMMA ExecStopType ==
    ASSUME TypeInv, NEW confirmed \in BOOLEAN, ExecStop(confirmed)
    PROVE  TypeInv'
  <1>1. TypeOK
    BY DEF TypeInv
  <1> DEFINE r == [runner EXCEPT !.paused = FALSE, !.stopped = TRUE]
  <1>2. r \in Runners
    BY <1>1 DEF TypeOK, Runners
  <1>3. Heartbeat(r) /\ HaltedIfRefused /\ queue # <<>> /\ Answer(confirmed, TRUE)
    BY DEF ExecStop, Commanded
  <1> HIDE DEF r
  <1>4. /\ row' \in Rows
        /\ fresh' \subseteq Clients
        /\ runner' \in Runners
        /\ daemon' \in Daemons
    BY <1>1, <1>2, <1>3, HeartbeatType, HaltType
  <1>5. /\ checked' \in BOOLEAN
        /\ plan' \in {"none", "paused"}
        /\ UNCHANGED <<block, kill, ops, faults, shut, left>>
    BY <1>1, PausedPlanType DEF TypeOK, ExecStop, history
  <1> QED BY <1>3, <1>4, <1>5, CommandType

\* Types are kept by a start.
LEMMA ExecStartType ==
    ASSUME TypeInv, ExecStart
    PROVE  TypeInv'
  <1>1. TypeOK
    BY DEF TypeInv
  <1>2. /\ queue # <<>>
        /\ plan' \in {"none", "open", "working", "refused", "paused"}
        /\ UNCHANGED <<block, kill, ops, faults, shut, left>>
    BY <1>1 DEF TypeOK, ExecStart, Commanded
  <1>3. CASE ~runner.paused /\ ~runner.stopped
    <2>1. UNCHANGED <<row, fresh, runner, daemon, checked>> /\ Answer(FALSE, FALSE)
      BY <1>3 DEF ExecStart
    <2>2. /\ row' \in Rows
          /\ fresh' \subseteq Clients
          /\ runner' \in Runners
          /\ daemon' \in Daemons
          /\ checked' \in BOOLEAN
      BY <1>1, <2>1 DEF TypeOK
    <2> QED BY <1>2, <2>1, <2>2, CommandType
  <1>4. CASE ~(~runner.paused /\ ~runner.stopped)
    <2>1. Heartbeat(NewRunner) /\ HaltedIfRefused /\ Answer(TRUE, TRUE)
      BY <1>4 DEF ExecStart
    <2>2. NewRunner \in Runners
      BY DEF NewRunner, Runners
    <2>3. /\ row' \in Rows
          /\ fresh' \subseteq Clients
          /\ runner' \in Runners
          /\ daemon' \in Daemons
      BY <1>1, <2>1, <2>2, HeartbeatType, HaltType
    <2>4. checked' \in BOOLEAN
      BY <1>4 DEF ExecStart
    <2> QED BY <1>2, <2>1, <2>3, <2>4, CommandType
  <1> QED BY <1>3, <1>4

\* A step of the runner leaves the clients and the command file alone.
LEMMA RunnerStepType ==
    ASSUME TypeInv,
           row' \in Rows, fresh' \subseteq Clients, runner' \in Runners,
           daemon' \in Daemons, checked' \in BOOLEAN, file' \in StatusFiles,
           plan' \in {"none", "open", "working", "refused", "paused"},
           left' \in Nat, faults' \in 0..MaxFaults,
           UNCHANGED <<block, kill, cl, queue, ops, shut>>
    PROVE  TypeInv'
  BY DEF TypeInv, TypeOK, PlaceInv, QueueInv

\* The status file at the end of a round.
LEMMA FileType ==
    ASSUME TypeOK, runner' \in Runners,
           file' = [file EXCEPT !.now = Lifecycle(runner')]
    PROVE  file' \in StatusFiles
  <1>1. Lifecycle(runner') \in Observed
    BY LifecycleType
  <1> HIDE DEF Lifecycle
  <1> QED BY <1>1 DEF TypeOK, StatusFiles

\* Types are kept by the first part of a step.
LEMMA StepToType ==
    ASSUME TypeInv, NEW p \in {"none", "open", "working", "refused"}, StepTo(p)
    PROVE  TypeInv'
  <1>1. TypeOK
    BY DEF TypeInv
  <1>2. /\ Heartbeat(runner)
        /\ HaltedIfRefused
        /\ file' = [file EXCEPT !.now = Lifecycle(runner')]
        /\ plan' = p
        /\ UNCHANGED <<block, kill, cl, queue, ops, faults, shut, left, checked>>
    BY DEF StepTo, Round
  <1>3. runner \in Runners
    BY <1>1 DEF TypeOK
  <1>4. /\ row' \in Rows
        /\ fresh' \subseteq Clients
        /\ runner' \in Runners
        /\ daemon' \in Daemons
    BY <1>1, <1>2, <1>3, HeartbeatType, HaltType
  <1>5. file' \in StatusFiles
    BY <1>1, <1>2, <1>4, FileType
  <1>6. left' \in Nat /\ faults' \in 0..MaxFaults /\ checked' \in BOOLEAN
    BY <1>1, <1>2 DEF TypeOK
  <1> QED BY <1>2, <1>4, <1>5, <1>6, RunnerStepType

\* Types are kept by a step with nothing to do.
LEMMA StepIdleType ==
    ASSUME TypeInv, StepIdle
    PROVE  TypeInv'
  <1>1. TypeOK
    BY DEF TypeInv
  <1>2. /\ Heartbeat(runner)
        /\ HaltedIfRefused
        /\ file' = [file EXCEPT !.now = Lifecycle(runner')]
        /\ UNCHANGED <<block, kill, cl, queue, ops, faults, shut, plan, left, checked>>
    BY DEF StepIdle, Round
  <1>3. runner \in Runners
    BY <1>1 DEF TypeOK
  <1>4. /\ row' \in Rows
        /\ fresh' \subseteq Clients
        /\ runner' \in Runners
        /\ daemon' \in Daemons
    BY <1>1, <1>2, <1>3, HeartbeatType, HaltType
  <1>5. file' \in StatusFiles
    BY <1>1, <1>2, <1>4, FileType
  <1>6. /\ left' \in Nat
        /\ faults' \in 0..MaxFaults
        /\ checked' \in BOOLEAN
        /\ plan' \in {"none", "open", "working", "refused", "paused"}
    BY <1>1, <1>2 DEF TypeOK
  <1> QED BY <1>2, <1>4, <1>5, <1>6, RunnerStepType

\* Types are kept by a step that halts.
LEMMA StepHaltType ==
    ASSUME TypeInv, StepHalt
    PROVE  TypeInv'
  <1>1. TypeOK
    BY DEF TypeInv
  <1>2. /\ runner' = [runner EXCEPT !.paused = TRUE, !.need = TRUE]
        /\ daemon' = [daemon EXCEPT !.halted = TRUE]
        /\ row' = [row EXCEPT !.desired = "paused", !.observed = "error",
                              !.need = TRUE, !.bound = FALSE]
        /\ fresh' = {}
        /\ checked' = FALSE
        /\ file' = [file EXCEPT !.now = Lifecycle(runner')]
        /\ UNCHANGED <<block, kill, cl, queue, ops, faults, shut, left>>
    BY DEF StepHalt, Round
  <1>3. runner' \in Runners
    BY <1>1, <1>2 DEF TypeOK, Runners
  <1>4. daemon' \in Daemons
    BY <1>1, <1>2 DEF TypeOK, Daemons
  <1>5. row' \in Rows
    BY <1>1, <1>2 DEF TypeOK, Rows, Desired, Observed
  <1>6. file' \in StatusFiles
    BY <1>1, <1>2, <1>3, FileType
  <1>7. plan' \in {"none", "paused"}
    BY DEF StepHalt
  <1>8. left' \in Nat /\ faults' \in 0..MaxFaults
    BY <1>1, <1>2 DEF TypeOK
  <1> QED BY <1>2, <1>3, <1>4, <1>5, <1>6, <1>7, <1>8, RunnerStepType

\* Types are kept by a step that may route.
LEMMA StepRouteType ==
    ASSUME TypeInv, StepRoute
    PROVE  TypeInv'
  <1>1. TypeOK
    BY DEF TypeInv
  <1>2. daemon' = [daemon EXCEPT !.pc = "send"]
    BY DEF StepRoute
  <1>3. daemon' \in Daemons
    BY <1>1, <1>2 DEF TypeOK, Daemons
  <1> QED BY <1>1, <1>3 DEF TypeInv, TypeOK, PlaceInv, QueueInv, StepRoute, history

\* Types are kept by sending an order.
LEMMA SendOrderType ==
    ASSUME TypeInv, SendOrder
    PROVE  TypeInv'
  <1>1. TypeOK
    BY DEF TypeInv
  <1>2. /\ Heartbeat(runner)
        /\ daemon' = [daemon EXCEPT !.pc = "loop", !.halted = daemon.halted \/ ~Accepted]
        /\ plan' \in {"refused", "working"}
        /\ left' \in {left, left + 1}
        /\ file' = [file EXCEPT !.now = Lifecycle(runner')]
        /\ UNCHANGED <<block, kill, cl, queue, ops, faults, shut, checked>>
    BY <1>1 DEF SendOrder, TypeOK, Daemons
  <1>3. runner \in Runners
    BY <1>1 DEF TypeOK
  <1>4. row' \in Rows /\ fresh' \subseteq Clients /\ runner' \in Runners
    BY <1>1, <1>2, <1>3, HeartbeatType
  <1>5. file' \in StatusFiles
    BY <1>1, <1>2, <1>4, FileType
  <1>6. (daemon.halted \/ ~Accepted) \in BOOLEAN
    OBVIOUS
  <1>7. daemon' \in Daemons
    BY <1>1, <1>2, <1>6 DEF TypeOK, Daemons
  <1>8. left' \in Nat /\ faults' \in 0..MaxFaults /\ checked' \in BOOLEAN
    BY <1>1, <1>2 DEF TypeOK
  <1> QED BY <1>2, <1>4, <1>5, <1>7, <1>8, RunnerStepType

\* Types are kept by a halt of the engine.
LEMMA EngineHaltsType ==
    ASSUME TypeInv, EngineHalts
    PROVE  TypeInv'
  <1>1. TypeOK
    BY DEF TypeInv
  <1>2. daemon' = [daemon EXCEPT !.halted = TRUE]
    BY DEF EngineHalts
  <1>3. daemon' \in Daemons
    BY <1>1, <1>2 DEF TypeOK, Daemons
  <1>4. faults' \in 0..MaxFaults
    BY <1>1, DeploymentAssumption DEF TypeOK, EngineHalts
  <1> QED BY <1>1, <1>3, <1>4 DEF TypeInv, TypeOK, PlaceInv, QueueInv, EngineHalts, history

\* Types are kept by a crash.
LEMMA CrashType ==
    ASSUME TypeInv, Crash
    PROVE  TypeInv'
  <1>1. TypeOK /\ PlaceInv /\ QueueInv
    BY DEF TypeInv
  <1>2. /\ daemon' \in Daemons
        /\ runner' \in Runners
        /\ file' \in StatusFiles
        /\ checked' \in BOOLEAN
        /\ queue' \in Seq(Commands)
        /\ QueueInv'
    BY NoDaemonType, ProcessType DEF Crash
  <1>3. faults' \in 0..MaxFaults
    BY <1>1, DeploymentAssumption DEF TypeOK, Crash
  <1> QED BY <1>1, <1>2, <1>3 DEF TypeInv, TypeOK, PlaceInv, Crash

\* The type invariant is inductive.
LEMMA TypeStep ==
    ASSUME TypeInv, [Next]_vars
    PROVE  TypeInv'
  <1>1. ASSUME NEW c \in Clients, Client(c)
        PROVE  TypeInv'
    <2>1. CASE \E op \in Ops: Begin(c, op)
      BY <2>1, BeginType
    <2>2. CASE Continue(c)
      BY <2>2, ContinueType
    <2>3. CASE Write(c)
      BY <2>3, WriteType
    <2>4. CASE Dispatch(c)
      BY <2>4, DispatchType
    <2>5. CASE Spawn(c)
      BY <2>5, SpawnType
    <2>12. CASE SpawnCheck(c) \/ SpawnSecond(c)
      BY <2>12, SpawnCheckType
    <2>6. CASE SpawnSeen(c)
      BY <2>6, SpawnSeenType
    <2>7. CASE Timeout(c)
      BY <2>7, TimeoutType
    <2>8. CASE \E dies \in BOOLEAN: Terminate(c, dies)
      BY <2>8, TerminateType
    <2>9. CASE Finish(c)
      BY <2>9, FinishType
    <2>10. CASE Unblock(c)
      BY <2>10, UnblockType
    <2>11. CASE Status(c)
      BY <2>11, StatusType
    <2> QED BY <1>1, <2>1, <2>2, <2>3, <2>4, <2>5, <2>6, <2>7, <2>8, <2>9,
               <2>10, <2>11, <2>12 DEF Client
  <1>2. CASE Configure
    BY <1>2, ConfigureType
  <1>3. CASE \E on \in BOOLEAN: KillSwitch(on)
    BY <1>3, KillSwitchType
  <1>4. CASE Command
    BY <1>4, ExecPauseType, ExecReconcileType, ExecResumeType, ExecStopType,
       ExecStartType DEF Command
  <1>5. CASE Step
    <2>1. CASE StepIdle
      BY <2>1, StepIdleType
    <2>2. CASE StepPlan \/ StepWait \/ StepDenied
      BY <2>2, StepToType DEF StepPlan, StepWait, StepDenied
    <2>3. CASE StepHalt
      BY <2>3, StepHaltType
    <2>4. CASE StepRoute
      BY <2>4, StepRouteType
    <2>5. CASE SendOrder
      BY <2>5, SendOrderType
    <2> QED BY <1>5, <2>1, <2>2, <2>3, <2>4, <2>5 DEF Step
  <1>6. CASE EngineHalts
    BY <1>6, EngineHaltsType
  <1>7. CASE Crash
    BY <1>7, CrashType
  <1>8. CASE UNCHANGED vars
    BY <1>8 DEF vars, TypeInv, TypeOK, PlaceInv, QueueInv
  <1> QED BY <1>1, <1>2, <1>3, <1>4, <1>5, <1>6, <1>7, <1>8 DEF Next

\* The type invariant holds initially.
LEMMA TypeInit ==
    ASSUME Init
    PROVE  TypeInv
  <1>1. cl \in [Clients -> Operations] /\ PlaceInv
    BY FreeType DEF Init, PlaceInv
  <1>2. queue \in Seq(Commands) /\ QueueInv
    <2>1. queue = <<>>
      BY DEF Init
    <2> QED BY <2>1 DEF QueueInv
  <1>3. row \in Rows
    <2>1. row = Configured
      BY DEF Init
    <2> QED BY <2>1, DeploymentAssumption DEF Configured, Rows, Desired, Observed
  <1>4. daemon \in Daemons /\ file \in StatusFiles /\ runner \in Runners
    BY NoDaemonType DEF Init, StatusFiles, NewRunner, Runners
  <1>5. ops \in 0..MaxOps /\ faults \in 0..MaxFaults /\ left \in Nat
    <2>1. ops = 0 /\ faults = 0 /\ left = 0
      BY DEF Init
    <2> QED BY <2>1, DeploymentAssumption
  <1>6. /\ fresh \subseteq Clients
        /\ shut \subseteq {"paused", "failed", "killed"}
        /\ block \in BOOLEAN
        /\ kill \in BOOLEAN
        /\ checked \in BOOLEAN
        /\ plan \in {"none", "open", "working", "refused", "paused"}
    BY DEF Init
  <1> QED BY <1>1, <1>2, <1>3, <1>4, <1>5, <1>6 DEF TypeInv, TypeOK

\* The type invariant holds always.
LEMMA TypeHolds == Spec => []TypeInv
  <1>1. Init => TypeInv
    BY TypeInit
  <1>2. TypeInv /\ [Next]_vars => TypeInv'
    BY TypeStep
  <1> QED BY <1>1, <1>2, PTL DEF Spec

\* Whatever the clients and the daemon do to one another, the row of
\* deployment_runtime, the operations under way, the command file and the
\* flags of the runner keep their types (Deployment.TypeOK).
THEOREM TypeCorrect == Spec => []TypeOK
  <1>1. TypeInv => TypeOK
    BY DEF TypeInv
  <1> QED BY <1>1, TypeHolds, PTL

-----------------------------------------------------------------------------
(***************************************************************************)
(* Pause, failure and kill switch.  Most steps are calm: nobody is told    *)
(* anything, trading is not asked for, no order is authorized, and an      *)
(* operation that holds trading back did so before or waited for it.       *)
(***************************************************************************)

Calm ==
    /\ row'.desired = "running" => row.desired = "running"
    /\ UNCHANGED <<shut, kill, left>>
    /\ daemon'.pc = "send" => daemon.pc = "send"
    /\ \A c \in Clients:
          Standing(cl'[c]) =>
              /\ Standing(cl[c])
              /\ Obeyed(cl'[c]) => Obeyed(cl[c]) \/ daemon.pc = "loop"

\* A calm step keeps both invariants.
LEMMA CalmKeeps ==
    ASSUME TypeInv, TypeInv', ShutInv, QuietInv, Calm
    PROVE  ShutInv' /\ QuietInv'
  <1>1. daemon.pc \in {"loop", "send"} /\ daemon'.pc \in {"loop", "send"}
    BY DEF TypeInv, TypeOK, Daemons
  <1>2. WantInv'
    BY DEF Calm, ShutInv, WantInv
  <1>3. KillInv'
    BY DEF Calm, ShutInv, KillInv
  <1>4. LeftInv'
    BY DEF Calm, ShutInv, LeftInv
  <1>5. QuietInv'
    BY <1>1 DEF Calm, QuietInv
  <1> QED BY <1>2, <1>3, <1>4, <1>5 DEF ShutInv

\* A step that leaves the clients alone.
LEMMA CalmElsewhere ==
    ASSUME row'.desired = "running" => row.desired = "running",
           UNCHANGED <<shut, kill, left, cl>>,
           daemon'.pc = "send" => daemon.pc = "send"
    PROVE  Calm
  BY DEF Calm

\* A step of one client.
LEMMA CalmClient ==
    ASSUME TypeOK, NEW c \in Clients, NEW k, cl' = [cl EXCEPT ![c] = k],
           Standing(k) =>
              /\ Standing(cl[c])
              /\ Obeyed(k) => Obeyed(cl[c]) \/ daemon.pc = "loop",
           row'.desired = "running" => row.desired = "running",
           UNCHANGED <<shut, kill, left>>,
           daemon'.pc = "send" => daemon.pc = "send"
    PROVE  Calm
  <1>1. \A d \in Clients: cl'[d] = IF d = c THEN k ELSE cl[d]
    BY DEF TypeOK
  <1>2. ASSUME NEW d \in Clients, Standing(cl'[d])
        PROVE  /\ Standing(cl[d])
               /\ Obeyed(cl'[d]) => Obeyed(cl[d]) \/ daemon.pc = "loop"
    <2>1. CASE d = c
      BY <1>1, <1>2, <2>1
    <2>2. CASE d # c
      BY <1>1, <1>2, <2>2
    <2> QED BY <2>1, <2>2
  <1> QED BY <1>2 DEF Calm

\* An idle client holds nothing back.
LEMMA FreeStands == ~Standing(Free)
  BY DEF Standing, Free

\* Neither does one that has just read the row.
LEMMA ReadCalm ==
    ASSUME TypeOK, NEW c \in Clients, NEW op, NEW n, NEW chained,
           ReadRow(c, op, n, chained),
           UNCHANGED <<row, daemon, shut, kill, left>>
    PROVE  Calm
  <1> DEFINE nn == IF op = "start" THEN n ELSE 0
             at == IF op = "status" THEN "send" ELSE "cas"
             k == [Free EXCEPT !.op = op, !.n = nn, !.pc = at,
                               !.rid = row.rid, !.chain = chained]
  <1>1. CASE op = "resume" /\ row.need
    <2>1. cl' = [cl EXCEPT ![c] = Free]
      BY <1>1 DEF ReadRow
    <2> QED BY <2>1, FreeStands, CalmClient
  <1>2. CASE ~(op = "resume" /\ row.need)
    <2>1. cl' = [cl EXCEPT ![c] = k]
      BY <1>2 DEF ReadRow
    <2>2. at = "send" => op = "status"
      OBVIOUS
    <2>3. at \in {"send", "cas"}
      OBVIOUS
    <2> HIDE DEF nn, at
    <2>4. k.op = op /\ k.pc = at
      BY DEF Free
    <2> HIDE DEF k
    <2>5. ~Standing(k)
      BY <2>2, <2>3, <2>4 DEF Standing
    <2> QED BY <2>1, <2>5, CalmClient
  <1> QED BY <1>1, <1>2

\* Taking a command out of its file changes nothing that was promised.
LEMMA DispatchCalm ==
    ASSUME TypeInv, NEW c \in Clients, Dispatch(c)
    PROVE  Calm
  <1>1. TypeOK /\ PlaceInv
    BY DEF TypeInv
  <1>2. cl[c].pc = "send" /\ UNCHANGED <<row, daemon, shut, kill, left>>
    BY DEF Dispatch, history
  <1>3. cl[c] \in Operations
    BY <1>1 DEF TypeOK
  <1>4. CASE \E op \in Ops: SendCommand(c, op)
    <2> DEFINE k == [cl[c] EXCEPT !.pc = "await"]
    <2>1. cl' = [cl EXCEPT ![c] = k]
      BY <1>1, <1>4 DEF SendCommand, TypeOK, Operations
    <2>2. k.op = cl[c].op /\ k.pc = "await" /\ k.over = cl[c].over
      BY <1>3 DEF Operations
    <2> HIDE DEF k
    <2>3. Standing(k) => Standing(cl[c]) /\ ~Obeyed(k)
      BY <1>2, <2>2 DEF Standing, Obeyed
    <2> QED BY <1>1, <1>2, <2>1, <2>3, CalmClient
  <1>5. CASE cl' = [cl EXCEPT ![c] = Told(c, FALSE, "error")]
    <2>1. /\ Told(c, FALSE, "error").op = cl[c].op
          /\ Told(c, FALSE, "error").pc = "done"
          /\ ~Told(c, FALSE, "error").ok
          /\ Told(c, FALSE, "error").over = cl[c].over
      BY <1>1, ToldType DEF Observed
    <2> HIDE DEF Told
    <2>2. Standing(Told(c, FALSE, "error")) =>
              Standing(cl[c]) /\ ~Obeyed(Told(c, FALSE, "error"))
      BY <1>2, <2>1 DEF Standing, Obeyed
    <2> QED BY <1>1, <1>2, <1>5, <2>2, CalmClient
  <1>6. CASE cl' = [cl EXCEPT ![c].pc = "spawn"]
    <2> DEFINE k == [cl[c] EXCEPT !.pc = "spawn"]
    <2>1. cl' = [cl EXCEPT ![c] = k]
      BY <1>1, <1>6 DEF TypeOK, Operations
    <2>2. k.pc = "spawn"
      BY <1>3 DEF Operations
    <2> HIDE DEF k
    <2>3. ~Standing(k)
      BY <2>2 DEF Standing
    <2> QED BY <1>1, <1>2, <2>1, <2>3, CalmClient
  <1>7. CASE /\ cl' = [cl EXCEPT ![c] = Told(c, Bound(cl[c].rid), Shown)]
             /\ cl[c].op = "start"
    <2>1. Told(c, Bound(cl[c].rid), Shown).op = "start"
      BY <1>3, <1>7 DEF Told, Operations
    <2> HIDE DEF Told, Bound, Shown
    <2>2. ~Standing(Told(c, Bound(cl[c].rid), Shown))
      BY <2>1 DEF Standing
    <2> QED BY <1>1, <1>2, <1>7, <2>2, CalmClient
  <1>8. cl[c].op \in Ops
    BY <1>1, <1>2 DEF PlaceInv, PlaceOK
  <1> QED BY <1>4, <1>5, <1>6, <1>7, <1>8 DEF Dispatch, Ops

\* A client that sees the new daemon promises nothing yet.
LEMMA SpawnSeenCalm ==
    ASSUME TypeInv, NEW c \in Clients, SpawnSeen(c)
    PROVE  Calm
  <1>1. TypeOK /\ PlaceInv
    BY DEF TypeInv
  <1>2. /\ cl[c].op = "start"
        /\ cl' = [cl EXCEPT ![c] = Told(c, Bound(cl[c].rid), Shown)]
        /\ UNCHANGED <<row, daemon, shut, kill, left>>
    BY <1>1 DEF SpawnSeen, history, PlaceInv, PlaceOK
  <1>3. Told(c, Bound(cl[c].rid), Shown).op = "start"
    BY <1>1, <1>2 DEF Told, TypeOK, Operations
  <1> HIDE DEF Told, Bound, Shown
  <1>4. ~Standing(Told(c, Bound(cl[c].rid), Shown))
    BY <1>3 DEF Standing
  <1> QED BY <1>1, <1>2, <1>4, CalmClient

\* A client that gives up waiting promises nothing.
LEMMA TimeoutCalm ==
    ASSUME TypeInv, NEW c \in Clients, Timeout(c)
    PROVE  Calm
  <1>1. TypeOK /\ PlaceInv
    BY DEF TypeInv
  <1>2. /\ cl[c].pc \in {"up", "await"}
        /\ cl' = [cl EXCEPT ![c] = Told(c, FALSE, "error")]
        /\ UNCHANGED <<row, daemon, shut, kill, left>>
    BY DEF Timeout, history
  <1>3. cl[c].pc = "up" => cl[c].op = "start"
    BY <1>1 DEF PlaceInv, PlaceOK
  <1>4. /\ Told(c, FALSE, "error").op = cl[c].op
        /\ Told(c, FALSE, "error").pc = "done"
        /\ ~Told(c, FALSE, "error").ok
        /\ Told(c, FALSE, "error").over = cl[c].over
    BY <1>1, ToldType DEF Observed
  <1> HIDE DEF Told
  <1>5. Standing(Told(c, FALSE, "error")) =>
            Standing(cl[c]) /\ ~Obeyed(Told(c, FALSE, "error"))
    BY <1>2, <1>3, <1>4 DEF Standing, Obeyed
  <1> QED BY <1>1, <1>2, <1>5, CalmClient

\* Killing the process of a stopped deployment sends nothing.
LEMMA TerminateCalm ==
    ASSUME TypeInv, NEW c \in Clients, NEW dies \in BOOLEAN, Terminate(c, dies)
    PROVE  Calm
  <1>1. TypeOK
    BY DEF TypeInv
  <1>2. /\ cl[c].pc = "kill"
        /\ daemon.pc = "loop"
        /\ cl' = [cl EXCEPT ![c] = Told(c, dies, cl[c].life)]
        /\ UNCHANGED <<row, shut, kill, left>>
    BY DEF Terminate
  <1>3. daemon'.pc = "loop"
    BY <1>2, NoDaemonType DEF Terminate, Process
  <1>4. cl[c].life \in Observed
    BY <1>1 DEF TypeOK, Operations
  <1>5. /\ Told(c, dies, cl[c].life).op = cl[c].op
        /\ Told(c, dies, cl[c].life).over = cl[c].over
    BY <1>1, <1>4, ToldType
  <1> HIDE DEF Told
  <1>6. Standing(Told(c, dies, cl[c].life)) => Standing(cl[c])
    BY <1>2, <1>5 DEF Standing
  <1> QED BY <1>1, <1>2, <1>3, <1>6, CalmClient

\* A heartbeat does not touch what is wanted.
LEMMA HeartbeatDesired ==
    ASSUME TypeOK, NEW r, Heartbeat(r)
    PROVE  row'.desired = row.desired
  BY DEF TypeOK, Heartbeat, Rows

\* Neither does an answer, which the daemon gives between two rounds.
LEMMA AnswerCalm ==
    ASSUME TypeInv, queue # <<>>, runner' \in Runners,
           NEW ok \in BOOLEAN, NEW shows, Answer(ok, shows),
           row'.desired = row.desired, daemon.pc = "loop", daemon'.pc = "loop",
           UNCHANGED <<shut, kill, left>>
    PROVE  Calm
  <1>1. TypeOK /\ PlaceInv /\ QueueInv
    BY DEF TypeInv
  <1>2. CASE Head(queue).to = Nobody
    <2>1. cl' = cl
      BY <1>2 DEF Answer
    <2> QED BY <2>1, CalmElsewhere
  <1>3. CASE Head(queue).to # Nobody
    <2> DEFINE c == Head(queue).to
    <2>1. c \in Clients /\ cl[c].pc = "await"
      BY <1>1, <1>3, AnswerTo
    <2>2. cl' = [cl EXCEPT ![c] = Informed(c, ok, runner')]
      BY <1>3 DEF Answer, Informed
    <2>3. /\ Informed(c, ok, runner').op = cl[c].op
          /\ Informed(c, ok, runner').over = cl[c].over
      BY <1>1, <2>1, InformedType
    <2> HIDE DEF c, Informed
    <2>4. Standing(Informed(c, ok, runner')) => Standing(cl[c])
      BY <2>1, <2>3 DEF Standing
    <2> QED BY <1>1, <2>1, <2>2, <2>4, CalmClient
  <1> QED BY <1>2, <1>3

\* Executing a command other than a resume lets no order out.
LEMMA CommandCalm ==
    ASSUME TypeInv, TypeInv', Command
    PROVE  Calm
  <1>1. TypeOK /\ runner' \in Runners
    BY DEF TypeInv, TypeOK
  <1>2. daemon.pc = "loop" /\ queue # <<>> /\ UNCHANGED <<shut, kill, left>>
    BY DEF Command, ExecPause, ExecReconcile, ExecResume, ExecStop, ExecStart,
           Commanded, history
  <1>3. row'.desired = row.desired /\ daemon'.pc = daemon.pc
    <2>1. CASE \E confirmed \in BOOLEAN: ExecPause(confirmed)
      <3>1. HaltedIfRefused /\ \E r: Heartbeat(r)
        BY <2>1 DEF ExecPause
      <3> QED BY <1>1, <3>1, HeartbeatDesired, HaltType
    <2>2. CASE \E clean \in BOOLEAN: ExecReconcile(clean)
      <3>1. HaltedIfRefused /\ \E r: Heartbeat(r)
        BY <2>2 DEF ExecReconcile
      <3> QED BY <1>1, <3>1, HeartbeatDesired, HaltType
    <2>3. CASE \E granted \in BOOLEAN: ExecResume(granted)
      <3>1. \/ UNCHANGED <<row, daemon>>
            \/ /\ \E r: Heartbeat(r)
               /\ \E h: daemon' = [daemon EXCEPT !.halted = h]
        BY <2>3 DEF ExecResume
      <3> QED BY <1>1, <3>1, HeartbeatDesired DEF TypeOK, Daemons
    <2>4. CASE \E confirmed \in BOOLEAN: ExecStop(confirmed)
      <3>1. HaltedIfRefused /\ \E r: Heartbeat(r)
        BY <2>4 DEF ExecStop
      <3> QED BY <1>1, <3>1, HeartbeatDesired, HaltType
    <2>5. CASE ExecStart
      <3>1. \/ UNCHANGED <<row, daemon>>
            \/ HaltedIfRefused /\ \E r: Heartbeat(r)
        BY <2>5 DEF ExecStart
      <3> QED BY <1>1, <3>1, HeartbeatDesired, HaltType
    <2> QED BY <2>1, <2>2, <2>3, <2>4, <2>5 DEF Command
  <1>4. \E ok, shows \in BOOLEAN: Answer(ok, shows)
    <2>1. CASE \E clean \in BOOLEAN: ExecReconcile(clean)
      <3>1. PICK clean \in BOOLEAN: ExecReconcile(clean)
        BY <2>1
      <3> DEFINE ok == ~(~clean \/ PausedPlan = "paused")
      <3>2. ok \in BOOLEAN /\ Answer(ok, ok)
        BY <3>1 DEF ExecReconcile
      <3> QED BY <3>2
    <2>2. CASE \E confirmed \in BOOLEAN: ExecPause(confirmed) \/ ExecStop(confirmed)
      BY <2>2 DEF ExecPause, ExecStop
    <2>3. CASE ExecStart \/ \E granted \in BOOLEAN: ExecResume(granted)
      BY <2>3 DEF ExecStart, ExecResume
    <2> QED BY <2>1, <2>2, <2>3 DEF Command
  <1> QED BY <1>1, <1>2, <1>3, <1>4, AnswerCalm

\* A step of the runner that routes no order is calm.
LEMMA RoundCalm ==
    ASSUME TypeInv, StepIdle \/ StepPlan \/ StepWait \/ StepDenied \/ StepHalt
    PROVE  Calm
  <1>1. TypeOK
    BY DEF TypeInv
  <1>2. CASE StepHalt
    <2>1. row' = [row EXCEPT !.desired = "paused", !.observed = "error",
                             !.need = TRUE, !.bound = FALSE]
      BY <1>2 DEF StepHalt
    <2>2. row'.desired = "paused"
      BY <1>1, <2>1 DEF TypeOK, Rows
    <2>3. daemon' = [daemon EXCEPT !.halted = TRUE]
      BY <1>2 DEF StepHalt
    <2>4. daemon'.pc = daemon.pc
      BY <1>1, <2>3 DEF TypeOK, Daemons
    <2>5. UNCHANGED <<shut, left, cl, kill>>
      BY <1>2 DEF StepHalt, Round
    <2> QED BY <2>2, <2>4, <2>5, CalmElsewhere
  <1>3. CASE StepIdle \/ \E p: StepTo(p)
    <2>1. /\ Heartbeat(runner)
          /\ HaltedIfRefused
          /\ UNCHANGED <<shut, left, cl, kill>>
      BY <1>3 DEF StepIdle, StepTo, Round
    <2>2. row'.desired = row.desired /\ daemon'.pc = daemon.pc
      BY <1>1, <2>1, HeartbeatDesired, HaltType
    <2> QED BY <2>1, <2>2, CalmElsewhere
  <1> QED BY <1>2, <1>3 DEF StepPlan, StepWait, StepDenied

\* A command that is written joins those the daemon will take in order.
LEMMA WriteShut ==
    ASSUME TypeInv, TypeInv', ShutInv, QuietInv, NEW c \in Clients, Write(c)
    PROVE  ShutInv' /\ QuietInv'
  <1>1. TypeOK /\ PlaceInv
    BY DEF TypeInv
  <1>2. /\ cl[c].pc = "cas"
        /\ cl[c].op \in Orders
        /\ cl[c] \in Operations
        /\ UNCHANGED <<kill, daemon>>
    BY <1>1 DEF Write, PlaceInv, PlaceOK, TypeOK
  <1>3. CASE ~Current(c)
    <2>1. cl' = [cl EXCEPT ![c] = Free] /\ UNCHANGED <<row, shut, left>>
      BY <1>3 DEF Write
    <2>2. Calm
      BY <1>1, <1>2, <2>1, FreeStands, CalmClient
    <2> QED BY <2>2, CalmKeeps
  <1>4. CASE Current(c) /\ cl[c].op # "resume"
    <2> DEFINE k == [cl[c] EXCEPT !.pc = "send", !.over = FALSE, !.rid = row'.rid]
    <2>1. /\ cl' = [cl EXCEPT ![c] = k]
          /\ row' = Intended(c)
          /\ UNCHANGED <<shut, left>>
      BY <1>1, <1>4 DEF Write, TypeOK, Operations
    <2>2. row'.desired # "running"
      BY <1>1, <1>2, <1>4, <2>1 DEF Intended, Orders, Ops, TypeOK, Rows
    <2>3. k.pc = "send"
      BY <1>2 DEF Operations
    <2> HIDE DEF k
    <2>4. \A d \in Clients: cl'[d] = IF d = c THEN k ELSE cl[d]
      BY <1>1, <2>1 DEF TypeOK
    <2>5. ASSUME NEW d \in Clients, Standing(cl'[d]), Obeyed(cl'[d])
          PROVE  Standing(cl[d]) /\ Obeyed(cl[d])
      BY <2>3, <2>4, <2>5 DEF Obeyed
    <2>6. WantInv'
      BY <2>2 DEF WantInv
    <2>7. KillInv' /\ LeftInv'
      BY <1>2, <2>1 DEF ShutInv, KillInv, LeftInv
    <2>8. QuietInv'
      BY <1>2, <2>1, <2>5 DEF QuietInv
    <2> QED BY <2>6, <2>7, <2>8 DEF ShutInv
  <1>5. CASE Current(c) /\ cl[c].op = "resume"
    <2> DEFINE k(d) == IF d = c THEN [cl[c] EXCEPT !.pc = "send"]
                       ELSE [cl[d] EXCEPT !.over = Halting(d)]
    <2>1. /\ cl' = [d \in Clients |-> k(d)]
          /\ shut' = shut \ {"paused", "failed"}
          /\ left' = IF kill THEN left ELSE 0
      BY <1>5 DEF Write
    <2>2. ASSUME NEW d \in Clients
          PROVE  ~Standing(cl'[d])
      <3>1. cl'[d] = k(d)
        BY <2>1
      <3>2. CASE d = c
        <4>1. k(d).op = "resume"
          BY <1>2, <1>5, <3>2 DEF Operations
        <4> QED BY <3>1, <4>1 DEF Standing
      <3>3. CASE d # c
        <4>1. /\ k(d).op = cl[d].op
              /\ k(d).pc = cl[d].pc
              /\ k(d).over <=> Halting(d)
          BY <1>1, <3>3, OverType
        <4> HIDE DEF k
        <4> QED BY <3>1, <4>1 DEF Standing, Halting
      <3> QED BY <3>2, <3>3
    <2>3. WantInv'
      BY <2>1, <2>2 DEF WantInv
    <2>4. KillInv'
      BY <1>2, <2>1 DEF ShutInv, KillInv
    <2>5. LeftInv'
      <3>1. left \in Nat
        BY <1>1 DEF TypeOK
      <3>2. shut' = {} => ~kill
        BY <1>2, <2>4 DEF KillInv
      <3> QED BY <1>2, <2>1, <3>1, <3>2 DEF ShutInv, LeftInv
    <2>6. QuietInv'
      BY <1>2, <2>1, <2>2 DEF QuietInv
    <2> QED BY <2>3, <2>4, <2>5, <2>6 DEF ShutInv
  <1> QED BY <1>3, <1>4, <1>5

\* The answer of the daemon is what the client confirms.
LEMMA FinishShut ==
    ASSUME TypeInv, TypeInv', ShutInv, QuietInv, NEW c \in Clients, Finish(c)
    PROVE  ShutInv' /\ QuietInv'
  <1>1. TypeOK /\ PlaceInv
    BY DEF TypeInv
  <1>2. /\ cl[c].pc = "done"
        /\ cl[c].op \in Orders
        /\ cl[c] \in Operations
        /\ row \in Rows
        /\ UNCHANGED <<kill, daemon, left>>
    BY <1>1 DEF Finish, PlaceInv, PlaceOK, TypeOK
  <1> DEFINE k == IF cl[c].ok THEN After(c) ELSE Free
  <1>3. cl' = [cl EXCEPT ![c] = k]
    BY DEF Finish
  <1>4. ~Standing(k)
    <2>1. After(c) \in {[cl[c] EXCEPT !.pc = "unblock"], [cl[c] EXCEPT !.pc = "next"], Free}
      BY DEF After
    <2>2. \A at \in {"unblock", "next"}: ~Standing([cl[c] EXCEPT !.pc = at])
      BY <1>2 DEF Standing, Operations
    <2> QED BY <2>1, <2>2, FreeStands
  <1> HIDE DEF k
  <1>5. \A d \in Clients: cl'[d] = IF d = c THEN k ELSE cl[d]
    BY <1>1, <1>3 DEF TypeOK
  <1>6. \A d \in Clients: Standing(cl'[d]) => cl'[d] = cl[d]
    BY <1>4, <1>5
  <1>7. CASE ~cl[c].ok
    <2>1. row' = Failed(row) /\ shut' = shut \cup {"failed"}
      BY <1>7 DEF Finish
    <2>2. row'.desired = "paused"
      BY <1>2, <2>1 DEF Failed, Rows
    <2>3. WantInv' /\ QuietInv'
      BY <1>2, <1>6, <2>1, <2>2 DEF WantInv, QuietInv
    <2>4. KillInv' /\ LeftInv'
      BY <1>2, <2>1 DEF ShutInv, KillInv, LeftInv
    <2> QED BY <2>3, <2>4 DEF ShutInv
  <1>8. CASE cl[c].ok
    <2>1. row' = Confirmed(c)
      BY <1>8 DEF Finish
    <2>2. row'.desired = "running" => row.desired = "running"
      BY <1>2, <2>1 DEF Confirmed, Rows, Orders, Ops
    <2>3. CASE cl[c].op \in {"pause", "stop"} /\ ~cl[c].over
      <3>1. Standing(cl[c]) /\ Obeyed(cl[c])
        BY <1>2, <1>8, <2>3 DEF Standing, Obeyed
      <3>2. shut' = shut \cup {"paused"}
        BY <1>8, <2>3 DEF Finish
      <3>3. row'.desired # "running" /\ daemon'.pc = "loop"
        BY <1>2, <2>2, <3>1 DEF ShutInv, WantInv, QuietInv
      <3>4. WantInv' /\ QuietInv'
        BY <3>3 DEF WantInv, QuietInv
      <3>5. KillInv' /\ LeftInv'
        BY <1>2, <3>2 DEF ShutInv, KillInv, LeftInv
      <3> QED BY <3>4, <3>5 DEF ShutInv
    <2>4. CASE ~(cl[c].op \in {"pause", "stop"} /\ ~cl[c].over)
      <3>1. shut' = shut
        BY <1>8, <2>4 DEF Finish
      <3>2. Calm
        BY <1>1, <1>2, <1>3, <1>4, <2>2, <3>1, CalmClient
      <3> QED BY <3>2, CalmKeeps
    <2> QED BY <2>3, <2>4
  <1> QED BY <1>7, <1>8

\* A status request changes no wish.
LEMMA StatusShut ==
    ASSUME TypeInv, TypeInv', ShutInv, QuietInv, NEW c \in Clients, Status(c)
    PROVE  ShutInv' /\ QuietInv'
  <1>1. TypeOK /\ row \in Rows
    BY DEF TypeInv, TypeOK
  <1>2. cl' = [cl EXCEPT ![c] = Free] /\ UNCHANGED <<kill, daemon, left>>
    BY DEF Status
  <1>3. CASE Bound(cl[c].rid)
    <2>1. shut' = shut
      BY <1>3 DEF Status
    <2>2. row'.desired = row.desired
      <3> DEFINE n == row.need \/ ~Compatible(row.desired, Shown)
      <3>1. row' = [row EXCEPT !.observed = Shown, !.rid = daemon.rid, !.need = n]
        BY <1>1, <1>3 DEF Status, Rows
      <3> HIDE DEF n, Shown
      <3> QED BY <1>1, <3>1 DEF Rows
    <2>3. Calm
      BY <1>1, <1>2, <2>1, <2>2, FreeStands, CalmClient
    <2> QED BY <2>3, CalmKeeps
  <1>4. CASE ~Bound(cl[c].rid)
    <2>1. row' = Failed(row) /\ shut' = shut \cup {"failed"}
      BY <1>4 DEF Status
    <2>2. row'.desired = "paused"
      BY <1>1, <2>1 DEF Failed, Rows
    <2>3. \A d \in Clients: cl'[d] = IF d = c THEN Free ELSE cl[d]
      BY <1>1, <1>2 DEF TypeOK
    <2>4. \A d \in Clients: Standing(cl'[d]) => cl'[d] = cl[d]
      BY <2>3, FreeStands
    <2>5. WantInv' /\ QuietInv'
      BY <1>2, <2>1, <2>2, <2>4 DEF WantInv, QuietInv
    <2>6. KillInv' /\ LeftInv'
      BY <1>2, <2>1 DEF ShutInv, KillInv, LeftInv
    <2> QED BY <2>5, <2>6 DEF ShutInv
  <1> QED BY <1>3, <1>4

\* The kill switch halts the engine whatever else is under way.
LEMMA KillSwitchShut ==
    ASSUME TypeInv, ShutInv, QuietInv, NEW on \in BOOLEAN, KillSwitch(on)
    PROVE  ShutInv' /\ QuietInv'
  <1>1. kill' = on /\ UNCHANGED <<row, cl, daemon>>
    BY DEF KillSwitch
  <1>2. shut' = IF on THEN shut \cup {"killed"} ELSE shut \ {"killed"}
    BY DEF KillSwitch
  <1>3. left' = IF shut' = {} THEN 0 ELSE left
    BY DEF KillSwitch
  <1>4. left \in Nat
    BY DEF TypeInv, TypeOK
  <1>5. WantInv' /\ QuietInv'
    BY <1>1, <1>2 DEF ShutInv, WantInv, QuietInv
  <1>6. KillInv'
    BY <1>1, <1>2 DEF KillInv
  <1>7. LeftInv'
    BY <1>1, <1>3, <1>4 DEF ShutInv, LeftInv
  <1> QED BY <1>5, <1>6, <1>7 DEF ShutInv

\* An order is authorized only while nothing is shut.
LEMMA RouteShut ==
    ASSUME TypeInv, ShutInv, QuietInv, StepRoute
    PROVE  ShutInv' /\ QuietInv'
  <1>1. row.desired = "running" /\ ~kill
    BY DEF StepRoute, Authorized
  <1>2. UNCHANGED <<row, cl, kill, shut, left>>
    BY DEF StepRoute, history
  <1>3. shut = {}
    <2>1. shut \subseteq {"paused", "failed", "killed"}
      BY DEF TypeInv, TypeOK
    <2>2. "killed" \notin shut
      BY <1>1 DEF ShutInv, KillInv
    <2>3. shut \cap {"paused", "failed"} = {}
      BY <1>1 DEF ShutInv, WantInv
    <2> QED BY <2>1, <2>2, <2>3
  <1>4. WantInv' /\ KillInv'
    BY <1>2 DEF ShutInv, WantInv, KillInv
  <1>5. LeftInv'
    BY <1>2, <1>3 DEF ShutInv, LeftInv
  <1>6. QuietInv'
    BY <1>1, <1>2, <1>3 DEF ShutInv, WantInv, QuietInv
  <1> QED BY <1>4, <1>5, <1>6 DEF ShutInv

\* The order that was under way when the door was shut is the one that is counted.
LEMMA SendOrderShut ==
    ASSUME TypeInv, TypeInv', ShutInv, QuietInv, SendOrder
    PROVE  ShutInv' /\ QuietInv'
  <1>1. TypeOK
    BY DEF TypeInv
  <1>2. /\ daemon.pc = "send"
        /\ Heartbeat(runner)
        /\ UNCHANGED <<cl, kill, shut>>
    BY DEF SendOrder
  <1>3. row'.desired = row.desired
    BY <1>1, <1>2, HeartbeatDesired
  <1>4. \E h: daemon' = [daemon EXCEPT !.pc = "loop", !.halted = h]
    BY DEF SendOrder
  <1>5. daemon'.pc = "loop"
    BY <1>1, <1>4 DEF TypeOK, Daemons
  <1>6. left' = left \/ (left' = left + 1 /\ shut # {})
    <2>1. left' = IF ~daemon.halted /\ shut # {} THEN left + 1 ELSE left
      BY DEF SendOrder
    <2>2. CASE ~daemon.halted /\ shut # {}
      BY <2>1, <2>2
    <2>3. CASE ~(~daemon.halted /\ shut # {})
      BY <2>1, <2>3
    <2> QED BY <2>2, <2>3
  <1>7. left = 0
    BY <1>2 DEF ShutInv, LeftInv
  <1>8. LeftInv'
    BY <1>2, <1>5, <1>6, <1>7 DEF LeftInv
  <1>9. WantInv' /\ KillInv'
    BY <1>2, <1>3 DEF ShutInv, WantInv, KillInv
  <1>10. QuietInv'
    BY <1>5 DEF QuietInv
  <1> QED BY <1>8, <1>9, <1>10 DEF ShutInv

\* What holds trading back is inductive.
LEMMA ShutStep ==
    ASSUME TypeInv, TypeInv', ShutInv, QuietInv, [Next]_vars
    PROVE  ShutInv' /\ QuietInv'
  <1>1. TypeOK
    BY DEF TypeInv
  <1>2. ASSUME NEW c \in Clients, Client(c)
        PROVE  ShutInv' /\ QuietInv'
    <2>1. CASE (\E op \in Ops: Begin(c, op)) \/ Continue(c)
      <3>1. \E op, n, chained: ReadRow(c, op, n, chained)
        BY <2>1 DEF Begin, Continue
      <3>2. UNCHANGED <<row, daemon, shut, kill, left>>
        BY <2>1 DEF Begin, Continue, history
      <3> QED BY <1>1, <3>1, <3>2, ReadCalm, CalmKeeps
    <2>2. CASE Write(c)
      BY <2>2, WriteShut
    <2>3. CASE Dispatch(c)
      BY <2>3, DispatchCalm, CalmKeeps
    <2>4. CASE Spawn(c) \/ SpawnCheck(c) \/ SpawnSecond(c)
      <3>1. /\ UNCHANGED <<row, shut, kill, left>>
            /\ \/ daemon' = daemon
               \/ \E r: daemon' = [NoDaemon EXCEPT !.alive = TRUE, !.rid = r]
        BY <2>4 DEF Spawn, SpawnCheck, SpawnSecond, Process, history
      <3>2. daemon'.pc = "send" => daemon.pc = "send"
        BY <3>1 DEF NoDaemon
      <3>3. /\ cl[c].pc \in {"spawn", "launch"}
            /\ \E p \in {"launch", "second", "up"}: cl' = [cl EXCEPT ![c].pc = p]
        BY <2>4 DEF Spawn, SpawnCheck, SpawnSecond
      <3>4. PICK k: cl' = [cl EXCEPT ![c] = k] /\ ~Standing(k)
        BY <3>3, StartMoves
      <3> QED BY <1>1, <3>1, <3>2, <3>4, CalmClient, CalmKeeps
    <2>5. CASE SpawnSeen(c)
      BY <2>5, SpawnSeenCalm, CalmKeeps
    <2>6. CASE Timeout(c)
      BY <2>6, TimeoutCalm, CalmKeeps
    <2>7. CASE \E dies \in BOOLEAN: Terminate(c, dies)
      BY <2>7, TerminateCalm, CalmKeeps
    <2>8. CASE Finish(c)
      BY <2>8, FinishShut
    <2>9. CASE Unblock(c)
      <3>1. cl' = [cl EXCEPT ![c] = Free] /\ UNCHANGED <<row, daemon, shut, kill, left>>
        BY <2>9 DEF Unblock, history
      <3> QED BY <1>1, <3>1, FreeStands, CalmClient, CalmKeeps
    <2>10. CASE Status(c)
      BY <2>10, StatusShut
    <2> QED BY <1>2, <2>1, <2>2, <2>3, <2>4, <2>5, <2>6, <2>7, <2>8, <2>9,
               <2>10 DEF Client
  <1>3. CASE Configure
    <2>1. row' = Configured /\ UNCHANGED <<cl, daemon, shut, kill, left>>
      BY <1>3 DEF Configure, history
    <2>2. row'.desired # "running"
      BY <2>1 DEF Configured
    <2> QED BY <2>1, <2>2, CalmElsewhere, CalmKeeps
  <1>4. CASE \E on \in BOOLEAN: KillSwitch(on)
    BY <1>4, KillSwitchShut
  <1>5. CASE Command
    BY <1>5, CommandCalm, CalmKeeps
  <1>6. CASE Step
    BY <1>6, RoundCalm, CalmKeeps, RouteShut, SendOrderShut DEF Step
  <1>7. CASE EngineHalts
    <2>1. /\ UNCHANGED <<row, cl, shut, kill, left>>
          /\ daemon' = [daemon EXCEPT !.halted = TRUE]
      BY <1>7 DEF EngineHalts, history
    <2>2. daemon'.pc = daemon.pc
      BY <1>1, <2>1 DEF TypeOK, Daemons
    <2> QED BY <2>1, <2>2, CalmElsewhere, CalmKeeps
  <1>8. CASE Crash
    <2>1. UNCHANGED <<row, cl, shut, kill, left>> /\ daemon' = NoDaemon
      BY <1>8 DEF Crash, Process
    <2> QED BY <2>1, NoDaemonType, CalmElsewhere, CalmKeeps
  <1>9. CASE UNCHANGED vars
    <2>1. UNCHANGED <<row, cl, daemon, shut, kill, left>>
      BY <1>9 DEF vars
    <2> QED BY <2>1, CalmElsewhere, CalmKeeps
  <1> QED BY <1>2, <1>3, <1>4, <1>5, <1>6, <1>7, <1>8, <1>9 DEF Next

\* What was shut stays shut but for one order.
LEMMA ShutHolds == Spec => [](TypeInv /\ ShutInv /\ QuietInv)
  <1>1. Init => ShutInv /\ QuietInv
    <2> SUFFICES ASSUME Init PROVE ShutInv /\ QuietInv
      OBVIOUS
    <2>1. shut = {} /\ left = 0 /\ ~kill /\ daemon = NoDaemon
      BY DEF Init
    <2>2. \A c \in Clients: ~Standing(cl[c])
      BY FreeStands DEF Init
    <2>3. WantInv
      BY <2>1, <2>2 DEF WantInv
    <2>4. KillInv
      BY <2>1 DEF KillInv
    <2>5. LeftInv
      BY <2>1 DEF LeftInv
    <2>6. QuietInv
      BY <2>1, NoDaemonType DEF QuietInv
    <2> QED BY <2>3, <2>4, <2>5, <2>6 DEF ShutInv
  <1>2. TypeInv /\ TypeInv' /\ ShutInv /\ QuietInv /\ [Next]_vars => ShutInv' /\ QuietInv'
    BY ShutStep
  <1> QED BY <1>1, <1>2, TypeHolds, PTL DEF Spec

\* However many clients operate a deployment at once, at most one order leaves
\* after a kill switch or after an operation reported as failed: the one that
\* was authorized before (Deployment.AtMostOneAfterShut).
THEOREM OneAfterShut == Spec => []AtMostOneAfterShut
  <1>1. ShutInv => AtMostOneAfterShut
    BY DEF ShutInv, LeftInv, AtMostOneAfterShut
  <1> QED BY <1>1, ShutHolds, PTL

\* However many clients operate a deployment at once, a pause or stop that was
\* confirmed and that no resume has overruled lets no order out
\* (Deployment.PauseHolds).
THEOREM PauseKept == Spec => PauseHolds
  <1>1. TypeInv /\ ShutInv /\ QuietInv => (Sent => "paused" \notin shut)
    BY DEF QuietInv, Sent
  <1>2. TypeInv /\ ShutInv /\ QuietInv /\ [Next]_vars
            => [Sent => "paused" \notin shut]_vars
    BY <1>1
  <1> QED BY <1>2, ShutHolds, PTL DEF Spec, PauseHolds

-----------------------------------------------------------------------------
(***************************************************************************)
(* Reconciliation.                                                         *)
(***************************************************************************)

\* A step that neither rebuilds, halts nor reconciles the runner and
\* authorizes nothing.
LEMMA CheckStays ==
    ASSUME CheckInv, UNCHANGED <<runner, checked>>,
           daemon'.pc = "send" => daemon.pc = "send"
    PROVE  CheckInv'
  BY DEF CheckInv, Active

\* A runner that has to be reconciled before it goes on.
LEMMA CheckNeeds ==
    ASSUME runner' \in Runners, runner'.need, runner'.paused, daemon'.pc = "loop"
    PROVE  CheckInv'
  BY DEF CheckInv, Active, Runners

\* A heartbeat leaves the runner as the command made it, or closes it.
LEMMA HeartbeatRunner ==
    ASSUME NEW r \in Runners, Heartbeat(r)
    PROVE  runner' = r \/ (runner' \in Runners /\ runner'.need /\ runner'.paused)
  BY DEF Heartbeat, Runners

\* What a heartbeat makes of a runner that is as the invariant wants it.
LEMMA HeartbeatChecks ==
    ASSUME NEW r \in Runners, Heartbeat(r), daemon'.pc = "loop",
           ~r.need => checked',
           ~r.paused /\ ~r.stopped => ~r.need
    PROVE  CheckInv'
  <1>1. CASE runner' = r
    BY <1>1 DEF CheckInv, Active
  <1>2. CASE runner' \in Runners /\ runner'.need /\ runner'.paused
    BY <1>2, CheckNeeds
  <1> QED BY <1>1, <1>2, HeartbeatRunner

\* Only reconcile and a new runner change what was checked.
LEMMA CommandChecks ==
    ASSUME TypeInv, CheckInv, Command
    PROVE  CheckInv'
  <1>1. TypeOK /\ runner \in Runners
    BY DEF TypeInv, TypeOK
  <1>2. daemon.pc = "loop"
    BY DEF Command, ExecPause, ExecReconcile, ExecResume, ExecStop, ExecStart, Commanded
  <1>3. CASE \E confirmed \in BOOLEAN: ExecPause(confirmed)
    <2> DEFINE r == [runner EXCEPT !.paused = TRUE]
    <2>1. Heartbeat(r) /\ HaltedIfRefused /\ checked' = checked
      BY <1>3 DEF ExecPause, history
    <2>2. /\ r \in Runners
          /\ r.need = runner.need
          /\ r.paused
      BY <1>1 DEF Runners
    <2> HIDE DEF r
    <2>3. daemon'.pc = "loop"
      BY <1>1, <1>2, <2>1, HaltType
    <2>4. ~r.need => checked'
      BY <2>1, <2>2 DEF CheckInv
    <2> QED BY <2>1, <2>2, <2>3, <2>4, HeartbeatChecks
  <1>4. CASE \E clean \in BOOLEAN: ExecReconcile(clean)
    <2>1. PICK clean \in BOOLEAN: ExecReconcile(clean)
      BY <1>4
    <2> DEFINE warned == ~clean \/ PausedPlan = "paused"
               r == [runner EXCEPT !.paused = TRUE, !.need = warned]
    <2>2. Heartbeat(r) /\ HaltedIfRefused /\ checked' = ~warned
      BY <2>1 DEF ExecReconcile
    <2>3. warned \in BOOLEAN
      OBVIOUS
    <2> HIDE DEF warned
    <2>4. r \in Runners /\ r.need = warned /\ r.paused
      BY <1>1, <2>3 DEF Runners
    <2> HIDE DEF r
    <2>5. daemon'.pc = "loop"
      BY <1>1, <1>2, <2>2, HaltType
    <2>6. ~r.need => checked'
      BY <2>2, <2>4
    <2> QED BY <2>2, <2>4, <2>5, <2>6, HeartbeatChecks
  <1>5. CASE \E granted \in BOOLEAN: ExecResume(granted)
    <2>1. checked' = checked
      BY <1>5 DEF ExecResume, history
    <2>2. CASE ~MayResume
      <3>1. UNCHANGED <<runner, daemon>>
        BY <1>5, <2>2 DEF ExecResume
      <3> QED BY <2>1, <3>1, CheckStays
    <2>3. CASE MayResume
      <3> DEFINE r == [runner EXCEPT !.paused = FALSE]
      <3>1. Heartbeat(r) /\ \E h: daemon' = [daemon EXCEPT !.halted = h]
        BY <1>5, <2>3 DEF ExecResume
      <3>2. r \in Runners /\ r.need = runner.need
        BY <1>1 DEF Runners
      <3>3. ~r.need
        BY <2>3, <3>2 DEF MayResume
      <3> HIDE DEF r
      <3>4. daemon'.pc = "loop"
        BY <1>1, <1>2, <3>1 DEF TypeOK, Daemons
      <3>5. checked'
        BY <2>1, <2>3 DEF CheckInv, MayResume
      <3> QED BY <3>1, <3>2, <3>3, <3>4, <3>5, HeartbeatChecks
    <2> QED BY <2>2, <2>3
  <1>6. CASE \E confirmed \in BOOLEAN: ExecStop(confirmed)
    <2> DEFINE r == [runner EXCEPT !.paused = FALSE, !.stopped = TRUE]
    <2>1. Heartbeat(r) /\ HaltedIfRefused /\ checked' = checked
      BY <1>6 DEF ExecStop, history
    <2>2. r \in Runners /\ r.need = runner.need /\ r.stopped
      BY <1>1 DEF Runners
    <2> HIDE DEF r
    <2>3. daemon'.pc = "loop"
      BY <1>1, <1>2, <2>1, HaltType
    <2>4. ~r.need => checked'
      BY <2>1, <2>2 DEF CheckInv
    <2> QED BY <2>1, <2>2, <2>3, <2>4, HeartbeatChecks
  <1>7. CASE ExecStart
    <2>1. CASE ~runner.paused /\ ~runner.stopped
      <3>1. UNCHANGED <<runner, daemon, checked>>
        BY <1>7, <2>1 DEF ExecStart
      <3> QED BY <3>1, CheckStays
    <2>2. CASE ~(~runner.paused /\ ~runner.stopped)
      <3>1. Heartbeat(NewRunner) /\ HaltedIfRefused
        BY <1>7, <2>2 DEF ExecStart
      <3>2. NewRunner \in Runners /\ NewRunner.need /\ NewRunner.paused
        BY DEF NewRunner, Runners
      <3>3. daemon'.pc = "loop"
        BY <1>1, <1>2, <3>1, HaltType
      <3> QED BY <3>1, <3>2, <3>3, HeartbeatChecks
    <2> QED BY <2>1, <2>2
  <1> QED BY <1>3, <1>4, <1>5, <1>6, <1>7 DEF Command

\* A step of the runner does not undo the reconciliation.
LEMMA StepChecks ==
    ASSUME TypeInv, CheckInv, Step
    PROVE  CheckInv'
  <1>1. TypeOK /\ runner \in Runners
    BY DEF TypeInv, TypeOK
  <1>2. CASE StepIdle \/ \E p: StepTo(p)
    <2>1. /\ Heartbeat(runner)
          /\ HaltedIfRefused
          /\ checked' = checked
          /\ daemon.pc = "loop"
      BY <1>2 DEF StepIdle, StepTo, Round
    <2>2. daemon'.pc = "loop"
      BY <1>1, <2>1, HaltType
    <2> QED BY <1>1, <2>1, <2>2, HeartbeatChecks DEF CheckInv, Active
  <1>3. CASE StepHalt
    <2>1. /\ runner' = [runner EXCEPT !.paused = TRUE, !.need = TRUE]
          /\ daemon' = [daemon EXCEPT !.halted = TRUE]
          /\ daemon.pc = "loop"
      BY <1>3 DEF StepHalt, Round
    <2>2. runner' \in Runners /\ runner'.need /\ runner'.paused
      BY <1>1, <2>1 DEF Runners
    <2>3. daemon'.pc = "loop"
      BY <1>1, <2>1 DEF TypeOK, Daemons
    <2> QED BY <2>2, <2>3, CheckNeeds
  <1>4. CASE StepRoute
    <2>1. Active /\ UNCHANGED <<runner, checked>>
      BY <1>4 DEF StepRoute, history
    <2>2. checked
      BY <2>1 DEF CheckInv
    <2> QED BY <2>1, <2>2 DEF CheckInv, Active
  <1>5. CASE SendOrder
    <2>1. Heartbeat(runner) /\ \E h: daemon' = [daemon EXCEPT !.pc = "loop", !.halted = h]
      BY <1>5 DEF SendOrder
    <2>2. checked' = checked
      BY <1>5 DEF SendOrder
    <2>3. daemon'.pc = "loop"
      BY <1>1, <2>1 DEF TypeOK, Daemons
    <2> QED BY <1>1, <2>1, <2>2, <2>3, HeartbeatChecks DEF CheckInv, Active
  <1> QED BY <1>2, <1>3, <1>4, <1>5 DEF Step, StepPlan, StepWait, StepDenied

\* Another process starts with a runner that has to be reconciled.
LEMMA ProcessChecks ==
    ASSUME NEW d, d.pc = "loop", Process(d)
    PROVE  CheckInv'
  <1>1. runner' = NewRunner /\ daemon'.pc = "loop"
    BY DEF Process
  <1>2. runner' \in Runners /\ runner'.need /\ runner'.paused
    BY <1>1 DEF NewRunner, Runners
  <1> QED BY <1>1, <1>2, CheckNeeds

\* That a runner which may go on was reconciled is inductive.
LEMMA CheckStep ==
    ASSUME TypeInv, CheckInv, [Next]_vars
    PROVE  CheckInv'
  <1>1. TypeOK
    BY DEF TypeInv
  <1>2. ASSUME NEW c \in Clients, Client(c)
        PROVE  CheckInv'
    <2>1. CASE Spawn(c)
      <3> DEFINE d == [NoDaemon EXCEPT !.alive = TRUE, !.rid = cl[c].rid]
      <3>1. Process(d) /\ d.pc = "loop"
        BY <2>1 DEF Spawn, NoDaemon
      <3> HIDE DEF d
      <3> QED BY <3>1, ProcessChecks
    <2>2. CASE \E dies \in BOOLEAN: Terminate(c, dies)
      <3>1. Process(NoDaemon) \/ UNCHANGED <<daemon, runner, checked>>
        BY <2>2 DEF Terminate
      <3> QED BY <3>1, NoDaemonType, ProcessChecks, CheckStays
    <2>3. CASE UNCHANGED <<daemon, runner, checked>>
      BY <2>3, CheckStays
    <2> QED BY <1>2, <2>1, <2>2, <2>3
            DEF Client, Begin, Continue, Write, Dispatch, SpawnCheck,
                SpawnSecond, SpawnSeen, Timeout, Finish, Unblock, Status,
                history
  <1>3. CASE Configure \/ \E on \in BOOLEAN: KillSwitch(on)
    <2>1. UNCHANGED <<daemon, runner, checked>>
      BY <1>3 DEF Configure, KillSwitch, history
    <2> QED BY <2>1, CheckStays
  <1>4. CASE Command
    BY <1>4, CommandChecks
  <1>5. CASE Step
    BY <1>5, StepChecks
  <1>6. CASE EngineHalts
    <2>1. UNCHANGED <<runner, checked>> /\ daemon' = [daemon EXCEPT !.halted = TRUE]
      BY <1>6 DEF EngineHalts, history
    <2>2. daemon'.pc = daemon.pc
      BY <1>1, <2>1 DEF TypeOK, Daemons
    <2> QED BY <2>1, <2>2, CheckStays
  <1>7. CASE Crash
    BY <1>7, NoDaemonType, ProcessChecks DEF Crash
  <1>8. CASE UNCHANGED vars
    <2>1. UNCHANGED <<daemon, runner, checked>>
      BY <1>8 DEF vars
    <2> QED BY <2>1, CheckStays
  <1> QED BY <1>2, <1>3, <1>4, <1>5, <1>6, <1>7, <1>8 DEF Next

\* However often the daemon dies and the runner is built again or halts, an
\* order leaves only a runner that was reconciled since, whatever the row says
\* of the runner before it (Deployment.RoutesOnlyAfterReconcile).
THEOREM ReconciledFirst == Spec => RoutesOnlyAfterReconcile
  <1>1. Init => CheckInv
    <2> SUFFICES ASSUME Init PROVE CheckInv
      OBVIOUS
    <2>1. runner = NewRunner /\ daemon = NoDaemon
      BY DEF Init
    <2> QED BY <2>1 DEF CheckInv, Active, NewRunner, NoDaemon
  <1>2. TypeInv /\ CheckInv /\ [Next]_vars => CheckInv'
    BY CheckStep
  <1>3. CheckInv /\ [Next]_vars => [Sent => checked]_vars
    BY DEF CheckInv, Sent
  <1> QED BY <1>1, <1>2, <1>3, TypeHolds, PTL DEF Spec, RoutesOnlyAfterReconcile

=============================================================================
