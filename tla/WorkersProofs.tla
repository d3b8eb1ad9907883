---------------------------- MODULE WorkersProofs ----------------------------
(***************************************************************************)
(* Theorems about Workers for all clients, servers and config files: when  *)
(* everybody is encrypted and the configs share one order, waiting never   *)
(* goes round in a circle.                                                 *)
(***************************************************************************)
EXTENDS Workers, SequenceTheorems, TLAPS

LEMMA InputsType ==
  ASSUME TypeOK, NEW c \in Clients
  PROVE  /\ config[c] \in Seq(Workers) /\ Len(config[c]) \in Nat \ {0}
         /\ modes[c] \in Seq({0, 1, 2}) /\ Len(modes[c]) \in Nat \ {0}
         /\ \A i \in 1..Len(config[c]) : config[c][i] \in Workers
  BY ConfigsAssumption, BenchesAssumption DEF TypeOK

\* Line n of a client is a connection.
LEMMA LineType ==
  ASSUME TypeOK, NEW c \in Clients, NEW n \in Nat
  PROVE  Line(c, n) \in Connection /\ Line(c, n) # Nobody
  BY NobodyAssumption DEF TypeOK, Line, Connection

LEMMA InitType == Init => TypeOK
  BY DEF Init, TypeOK, Pcs

LEMMA NextLineType ==
  ASSUME TypeOK, NEW c \in Clients, NextLine(c)
  PROVE  at' \in [Clients -> Nat \ {0}] /\ pc' \in [Clients -> Pcs]
  <1>1. \A n \in Nat \ {0} : n + 1 \in Nat \ {0}
    OBVIOUS
  <1>2. at' = [at EXCEPT ![c] = at[c] + 1] /\ at[c] \in Nat \ {0}
    BY DEF TypeOK, NextLine
  <1>3. at' \in [Clients -> Nat \ {0}]
    BY <1>1, <1>2 DEF TypeOK
  <1> DEFINE p == IF at[c] = Len(config[c]) THEN "use" ELSE "connect"
  <1>4. p \in Pcs
    BY DEF Pcs
  <1>5. pc' = [pc EXCEPT ![c] = p]
    BY DEF NextLine
  <1> HIDE DEF p
  <1>6. pc' \in [Clients -> Pcs]
    BY <1>4, <1>5 DEF TypeOK
  <1> QED BY <1>3, <1>6

LEMMA NextType == TypeOK /\ [Next]_vars => TypeOK'
  <1> SUFFICES ASSUME TypeOK, [Next]_vars PROVE TypeOK'
    OBVIOUS
  <1> USE DEF TypeOK, Pcs
  <1>1. ASSUME NEW c \in Clients, NEW w \in Workers, Connect(c, w) PROVE TypeOK'
    <2>1. Line(c, at[c]) \in Connection
      BY LineType
    <2>2. queue' \in [Workers -> Seq(Connection)] /\ open' \subseteq Connection
      BY <1>1, <2>1 DEF Connect
    <2>3. at' \in [Clients -> Nat \ {0}] /\ pc' \in [Clients -> Pcs]
      <3>1. CASE Mode(c) = 1
        BY <1>1, <3>1 DEF Connect
      <3>2. CASE Mode(c) # 1
        BY <1>1, <3>2, NextLineType DEF Connect
      <3> QED BY <3>1, <3>2
    <2>4. UNCHANGED <<config, modes, round, serving>>
      BY <1>1 DEF Connect, inputs
    <2> QED BY <2>2, <2>3, <2>4
  <1>2. ASSUME NEW c \in Clients, Handshake(c) PROVE TypeOK'
    BY <1>2, NextLineType DEF Handshake, inputs
  <1>3. ASSUME NEW c \in Clients, Use(c) PROVE TypeOK'
    BY <1>3 DEF Use, inputs
  <1>4. ASSUME NEW c \in Clients, Close(c) PROVE TypeOK'
    <2>1. CASE round[c] = Len(modes[c])
      BY <1>4, <2>1 DEF Close, inputs
    <2>2. CASE round[c] # Len(modes[c])
      <3>1. round' \in [Clients -> Nat]
        BY <1>4, <2>2 DEF Close
      <3>2. at' \in [Clients -> Nat \ {0}] /\ pc' \in [Clients -> Pcs]
        <4>1. at' = [at EXCEPT ![c] = 1] /\ pc' = [pc EXCEPT ![c] = "connect"]
          BY <1>4, <2>2 DEF Close
        <4> QED BY <4>1
      <3> QED BY <1>4, <3>1, <3>2 DEF Close, inputs
    <2> QED BY <2>1, <2>2
  <1>5. ASSUME NEW c \in Clients, Exit(c) PROVE TypeOK'
    BY <1>5 DEF Exit, inputs
  <1>6. ASSUME NEW w \in Workers, Accept(w) PROVE TypeOK'
    <2>1. Head(queue[w]) \in Connection /\ Tail(queue[w]) \in Seq(Connection)
      BY <1>6 DEF Accept
    <2> QED BY <1>6, <2>1 DEF Accept, inputs
  <1>7. ASSUME NEW w \in Workers, EndSession(w) PROVE TypeOK'
    BY <1>7 DEF EndSession, inputs
  <1>8. CASE UNCHANGED vars
    BY <1>8 DEF vars, inputs
  <1> QED BY <1>1, <1>2, <1>3, <1>4, <1>5, <1>6, <1>7, <1>8 DEF Next, ClientStep, WorkerStep

\* Every variable of Workers keeps its type.
THEOREM WorkersTypeCorrect == Spec => []TypeOK
  BY InitType, NextType, PTL DEF Spec

-----------------------------------------------------------------------------
(* The invariant, when everybody is encrypted and so makes one round.      *)

Connecting(c) == pc[c] \in {"connect", "handshake", "use"}

\* Where a client is.
Position ==
  \A c \in Clients :
    /\ round[c] = 1
    /\ at[c] \in 1..Len(config[c]) + 1
    /\ pc[c] \in {"connect", "handshake"} => at[c] <= Len(config[c])
    /\ pc[c] = "use" => at[c] = Len(config[c]) + 1

\* A connection that is served was made by a line of its config, and its client is
\* past that line or still in its handshake.
Served ==
  \A w \in Workers : serving[w] # Nobody =>
    LET x == serving[w]
    IN  /\ x.r = 1
        /\ x.i \in 1..Len(config[x.c]) /\ config[x.c][x.i] = w
        /\ x.i <= at[x.c]
        /\ x.i = at[x.c] => pc[x.c] = "handshake"

\* A connection in a queue is not served yet, and its client waits in the handshake;
\* it is there once.
InQueue(x, w) ==
  /\ x = Line(x.c, at[x.c])
  /\ pc[x.c] = "handshake"
  /\ config[x.c][at[x.c]] = w
  /\ serving[w] # x

Queued == \A w \in Workers : \A j \in 1..Len(queue[w]) : InQueue(queue[w][j], w)
Once ==
  \A w \in Workers : \A j, k \in 1..Len(queue[w]) : queue[w][j] = queue[w][k] => j = k

\* The connections a client has shaken hands on are open and served.
Held ==
  \A c \in Clients : Connecting(c) =>
    /\ \A i \in 1..(at[c] - 1) : Line(c, i) \in open /\ serving[config[c][i]] = Line(c, i)
    /\ pc[c] = "handshake" => Line(c, at[c]) \in open

Order == Position /\ Served /\ Queued /\ Once /\ Held

LEMMA InitOrder == TypeOK /\ Init => Order
  <1> SUFFICES ASSUME TypeOK, Init PROVE Order
    OBVIOUS
  <1>1. Position
    BY InputsType DEF Init, Position
  <1>2. Served /\ Queued /\ Once
    BY DEF Init, Served, Queued, Once
  <1>3. Held
    BY DEF Init, Held
  <1> QED BY <1>1, <1>2, <1>3 DEF Order

\* Encrypted clients make one round, in mode 1.
LEMMA OneRound ==
  ASSUME Encrypted, Position, NEW c \in Clients
  PROVE  Mode(c) = 1 /\ Len(modes[c]) = 1
  <1>1. modes[c] = <<1>> /\ round[c] = 1
    BY DEF Encrypted, Position
  <1>2. Len(<<1>>) = 1 /\ <<1>>[1] = 1
    OBVIOUS
  <1> QED BY <1>1, <1>2 DEF Mode

LEMMA QueueType ==
  ASSUME TypeOK, NEW w \in Workers, NEW j \in 1..Len(queue[w])
  PROVE  queue[w][j] \in Connection /\ queue[w][j].c \in Clients
  <1>1. queue[w] \in Seq(Connection)
    BY DEF TypeOK
  <1>2. queue[w][j] \in Connection
    BY <1>1
  <1> QED BY <1>2 DEF Connection

\* What is in the queues after a step, given what each of its members is.
LEMMA QueuedNext ==
  ASSUME NEW v \in Workers, NEW q \in Seq(Connection), queue'[v] = q,
         \A j \in 1..Len(q) : \A x \in Connection : x = q[j] => InQueue(x, v)',
         NEW i \in 1..Len(q)
  PROVE  InQueue(queue[v][i], v)'
  <1>1. PICK x \in Connection : x = q[i]
    OBVIOUS
  <1>2. InQueue(x, v)'
    BY <1>1
  <1>3. queue'[v][i] = x
    BY <1>1
  <1> QED BY <1>2, <1>3 DEF InQueue, Line

\* A member of a queue stays one whose client does not move.
LEMMA StaysInQueue ==
  ASSUME TypeOK, NEW v \in Workers, NEW x \in Connection, InQueue(x, v),
         pc'[x.c] = pc[x.c], at'[x.c] = at[x.c], round'[x.c] = round[x.c],
         config' = config, serving'[v] # x
  PROVE  InQueue(x, v)'
  BY DEF InQueue, Line

\* A new connection is at the end of one queue, and its client in the handshake.
LEMMA ConnectOrder ==
  ASSUME TypeOK, Encrypted, Order, NEW c \in Clients, NEW w \in Workers, Connect(c, w)
  PROVE  Order'
  <1>p. PICK n \in Connection : n = Line(c, at[c])
    BY LineType DEF TypeOK
  <1>0. /\ pc[c] = "connect" /\ w = config[c][at[c]]
        /\ queue' = [queue EXCEPT ![w] = Append(@, n)]
        /\ open' = open \union {n}
        /\ pc' = [pc EXCEPT ![c] = "handshake"]
        /\ UNCHANGED <<config, modes, round, at, serving>>
    BY <1>p, OneRound DEF Order, Connect, inputs
  <1>n. n.c = c /\ n.i = at[c] /\ n.r = round[c] /\ n # Nobody
    BY <1>p, LineType DEF Line, TypeOK
  <1>1. Position'
    BY <1>0 DEF Order, Position, TypeOK
  <1>2. Served'
    BY <1>0 DEF Order, Served, TypeOK, Connection
  <1>3. ASSUME NEW v \in Workers, NEW k \in 1..Len(queue[v]), NEW x \in Connection,
               x = queue[v][k]
        PROVE  x # n /\ InQueue(x, v)'
    <2>1. InQueue(x, v) /\ x.c \in Clients
      BY <1>3 DEF Order, Queued, Connection
    <2>2. x.c # c /\ x # n
      BY <2>1, <1>0, <1>n DEF InQueue
    <2>3. pc'[x.c] = pc[x.c] /\ serving'[v] # x
      BY <2>1, <2>2, <1>0 DEF TypeOK, InQueue
    <2> QED BY <2>1, <2>2, <2>3, <1>0, StaysInQueue
  <1>4. InQueue(n, w)'
    <2>1. serving[w] # n
      BY <1>0, <1>n DEF Order, Served
    <2>2. n = Line(c, at[c])'
      BY <1>0, <1>p DEF Line
    <2>3. pc'[c] = "handshake"
      BY <1>0 DEF TypeOK
    <2> QED BY <1>0, <1>n, <2>1, <2>2, <2>3 DEF InQueue, Line
  <1>5. Queued' /\ Once'
    <2> SUFFICES ASSUME NEW v \in Workers
                 PROVE  /\ \A j \in 1..Len(queue'[v]) : InQueue(queue[v][j], v)'
                        /\ \A j, k \in 1..Len(queue'[v]) : queue'[v][j] = queue'[v][k] => j = k
      BY DEF Queued, Once
    <2>0. queue[v] \in Seq(Connection)
      BY DEF TypeOK
    <2>1. CASE v # w
      <3>1. queue'[v] = queue[v]
        BY <1>0, <2>1 DEF TypeOK
      <3>2. \A j \in 1..Len(queue[v]) : InQueue(queue[v][j], v)'
        BY <2>0, <3>1, <1>3, QueuedNext
      <3> QED BY <3>1, <3>2 DEF Order, Once
    <2>2. CASE v = w
      <3> DEFINE q == Append(queue[w], n)
      <3>1. queue'[v] = q /\ q \in Seq(Connection)
        BY <1>0, <2>2 DEF TypeOK
      <3>2. /\ Len(q) = Len(queue[v]) + 1 /\ Len(queue[v]) \in Nat
            /\ q[Len(queue[v]) + 1] = n
            /\ \A k \in 1..Len(queue[v]) : q[k] = queue[v][k]
        BY <2>0, <2>2
      <3> HIDE DEF q
      <3>3. \A j \in 1..Len(q) : \A x \in Connection : x = q[j] => InQueue(x, v)'
        BY <3>2, <1>3, <1>4, <2>2
      <3>4. \A j \in 1..Len(q) : InQueue(queue[v][j], v)'
        BY <3>1, <3>3, QueuedNext
      <3>5. \A j \in 1..Len(queue[v]) : queue[v][j] # n
        BY <1>3, <2>0
      <3>6. \A j, k \in 1..Len(q) : q[j] = q[k] => j = k
        BY <3>2, <3>5 DEF Order, Once
      <3> QED BY <3>1, <3>4, <3>6
    <2> QED BY <2>1, <2>2
  <1>6. Held'
    BY <1>0, <1>p DEF Order, Held, Connecting, TypeOK, Line
  <1> QED BY <1>1, <1>2, <1>5, <1>6 DEF Order

\* A step of a client that has nothing in a queue.
LEMMA ClientLeavesQueues ==
  ASSUME TypeOK, Order, NEW c \in Clients,
         UNCHANGED <<config, queue, serving, round>>,
         \A d \in Clients \ {c} : pc'[d] = pc[d] /\ at'[d] = at[d],
         \A v \in Workers : \A x \in Connection : InQueue(x, v) => x.c # c
  PROVE  Queued' /\ Once'
  <1>1. ASSUME NEW v \in Workers, NEW j \in 1..Len(queue[v]), NEW x \in Connection,
               x = queue[v][j]
        PROVE  InQueue(x, v)'
    <2>1. InQueue(x, v) /\ x.c \in Clients
      BY <1>1 DEF Order, Queued, Connection
    <2>2. x.c \in Clients \ {c}
      BY <2>1
    <2>3. serving'[v] # x
      BY <2>1 DEF InQueue
    <2> QED BY <2>1, <2>2, <2>3, StaysInQueue
  <1>2. ASSUME NEW v \in Workers
        PROVE  \A j \in 1..Len(queue'[v]) : InQueue(queue[v][j], v)'
    <2>1. queue'[v] = queue[v] /\ queue[v] \in Seq(Connection)
      BY DEF TypeOK
    <2> QED BY <2>1, <1>1, QueuedNext
  <1> QED BY <1>2 DEF Order, Queued, Once

\* A client that is not in a handshake has nothing in a queue.
LEMMA OnlyHandshakesQueue ==
  ASSUME Order, NEW c \in Clients, pc[c] # "handshake"
  PROVE  \A v \in Workers : \A x \in Connection : InQueue(x, v) => x.c # c
  BY DEF InQueue

LEMMA HandshakeOrder ==
  ASSUME TypeOK, Encrypted, Order, NEW c \in Clients, Handshake(c)
  PROVE  Order'
  <1>0. /\ pc[c] = "handshake" /\ serving[Worker(Line(c, at[c]))] = Line(c, at[c])
        /\ at' = [at EXCEPT ![c] = @ + 1]
        /\ UNCHANGED <<config, modes, round, queue, serving, open>>
    BY DEF Handshake, NextLine, inputs
  <1>1. pc' = [pc EXCEPT ![c] = IF at[c] = Len(config[c]) THEN "use" ELSE "connect"]
    BY DEF Handshake, NextLine
  <1>2. /\ \A d \in Clients \ {c} : pc'[d] = pc[d] /\ at'[d] = at[d]
        /\ at[c] \in Nat /\ at'[c] = at[c] + 1
    BY <1>0, <1>1 DEF TypeOK
  <1>3. \/ at[c] = Len(config[c]) /\ pc'[c] = "use"
        \/ at[c] # Len(config[c]) /\ pc'[c] = "connect"
    BY <1>1 DEF TypeOK
  <1>4. /\ at[c] \in 1..Len(config[c]) /\ Worker(Line(c, at[c])) = config[c][at[c]]
        /\ round[c] = 1 /\ Len(config[c]) \in Nat
    BY <1>0, InputsType DEF Order, Position, Worker, Line, TypeOK
  <1>5. Position'
    BY <1>0, <1>2, <1>3, <1>4 DEF Order, Position
  <1>6. Served'
    <2> SUFFICES ASSUME NEW w \in Workers, NEW x \in Connection, x = serving[w]
                 PROVE  /\ x.r = 1
                        /\ x.i \in 1..Len(config[x.c]) /\ config[x.c][x.i] = w
                        /\ x.i <= at'[x.c]
                        /\ x.i = at'[x.c] => pc'[x.c] = "handshake"
      BY <1>0 DEF Served, TypeOK
    <2>1. /\ x.r = 1 /\ x.i \in Nat /\ x.c \in Clients
          /\ x.i \in 1..Len(config[x.c]) /\ config[x.c][x.i] = w
          /\ x.i <= at[x.c]
          /\ x.i = at[x.c] => pc[x.c] = "handshake"
      BY NobodyAssumption DEF Order, Served, Connection
    <2> QED BY <2>1, <1>2
  <1>7. \A v \in Workers : \A x \in Connection : InQueue(x, v) => x.c # c
    BY <1>0, <1>4 DEF InQueue
  <1>8. Queued' /\ Once'
    BY <1>0, <1>2, <1>7, ClientLeavesQueues
  <1>9. Held'
    <2> SUFFICES ASSUME NEW d \in Clients, Connecting(d)'
                 PROVE  /\ \A i \in 1..(at'[d] - 1) :
                             Line(d, i)' \in open /\ serving[config[d][i]] = Line(d, i)'
                        /\ pc'[d] = "handshake" => Line(d, at[d])' \in open
      BY <1>0 DEF Held
    <2>1. \A i : Line(d, i)' = Line(d, i)
      BY <1>0 DEF Line
    <2>2. CASE d = c
      <3>1. \A i \in 1..(at[c] - 1) : Line(c, i) \in open /\ serving[config[c][i]] = Line(c, i)
        BY <1>0 DEF Order, Held, Connecting
      <3>2. Line(c, at[c]) \in open /\ serving[config[c][at[c]]] = Line(c, at[c])
        BY <1>0, <1>4 DEF Order, Held, Connecting
      <3> QED BY <2>1, <2>2, <3>1, <3>2, <1>2, <1>3
    <2>3. CASE d # c
      <3>1. Connecting(d) /\ pc'[d] = pc[d] /\ at'[d] = at[d]
        BY <1>2, <2>3 DEF Connecting
      <3>2. Line(d, at[d])' = Line(d, at[d])
        BY <3>1, <1>0 DEF Line
      <3> QED BY <2>1, <3>1, <3>2 DEF Order, Held
    <2> QED BY <2>2, <2>3
  <1> QED BY <1>5, <1>6, <1>8, <1>9 DEF Order

\* A client that is past its last handshake and moves on.
LEMMA UseOrder ==
  ASSUME TypeOK, Encrypted, Order, NEW c \in Clients, Use(c) \/ Close(c) \/ Exit(c)
  PROVE  Order'
  <1>1. /\ pc[c] \in {"use", "close", "exit"}
        /\ pc'[c] \in {"close", "exit", "gone"}
        /\ \A d \in Clients \ {c} : pc'[d] = pc[d] /\ at'[d] = at[d]
        /\ UNCHANGED <<config, modes, round, at, queue, serving>>
    <2>1. CASE Use(c)
      BY <2>1 DEF Use, inputs, TypeOK
    <2>2. CASE Close(c)
      <3>1. round[c] = Len(modes[c])
        BY OneRound DEF Order, Position
      <3> QED BY <2>2, <3>1 DEF Close, inputs, TypeOK
    <2>3. CASE Exit(c)
      BY <2>3 DEF Exit, inputs, TypeOK
    <2> QED BY <2>1, <2>2, <2>3
  <1>2. open' = open \/ open' = open \ {Line(c, 1)} \/ open' = {x \in open : x.c # c}
    BY DEF Use, Close, Exit
  <1>3. \A d \in Clients \ {c} : \A n \in Nat : Line(d, n) \in open => Line(d, n) \in open'
    BY <1>2 DEF Line
  <1>4. Position'
    BY <1>1 DEF Order, Position
  <1>5. Served'
    BY <1>1 DEF Order, Served, TypeOK, Connection
  <1>6. Queued' /\ Once'
    <2>1. pc[c] # "handshake"
      BY <1>1
    <2> QED BY <1>1, <2>1, OnlyHandshakesQueue, ClientLeavesQueues
  <1>7. Held'
    <2> SUFFICES ASSUME NEW d \in Clients, Connecting(d)'
                 PROVE  /\ \A i \in 1..(at[d] - 1) :
                             Line(d, i)' \in open' /\ serving[config[d][i]] = Line(d, i)'
                        /\ pc'[d] = "handshake" => Line(d, at[d])' \in open'
      BY <1>1 DEF Held
    <2>1. d # c /\ Connecting(d) /\ pc'[d] = pc[d]
      BY <1>1 DEF Connecting
    <2>2. \A i : Line(d, i)' = Line(d, i)
      BY <1>1 DEF Line
    <2>3. Line(d, at[d])' = Line(d, at[d]) /\ at[d] \in Nat
      BY <1>1 DEF Line, TypeOK
    <2> QED BY <1>3, <2>1, <2>2, <2>3 DEF Order, Held
  <1> QED BY <1>4, <1>5, <1>6, <1>7 DEF Order

\* The accepted connection leaves its queue and is served.
LEMMA AcceptOrder ==
  ASSUME TypeOK, Order, NEW w \in Workers, Accept(w)
  PROVE  Order'
  <1>0. /\ serving[w] = Nobody /\ queue[w] # <<>> /\ queue[w] \in Seq(Connection)
        /\ queue' = [queue EXCEPT ![w] = Tail(@)]
        /\ UNCHANGED <<config, modes, round, at, pc, open>>
    BY DEF Accept, inputs, TypeOK
  <1>h. PICK h \in Connection : h = queue[w][1] /\ serving' = [serving EXCEPT ![w] = h]
    <2>1. Head(queue[w]) = queue[w][1] /\ Head(queue[w]) \in Connection
      BY <1>0
    <2> QED BY <2>1 DEF Accept
  <1>1. 1 \in 1..Len(queue[w])
    BY <1>0
  <1>2. InQueue(h, w) /\ h.c \in Clients
    BY <1>h, <1>1 DEF Order, Queued, Connection
  <1>3. Position'
    BY <1>0 DEF Order, Position
  <1>4. Served'
    <2>1. /\ h.r = 1 /\ h.i = at[h.c] /\ pc[h.c] = "handshake"
          /\ h.i \in 1..Len(config[h.c]) /\ config[h.c][h.i] = w /\ h.i <= at[h.c]
      BY <1>2 DEF InQueue, Line, Order, Position
    <2> SUFFICES ASSUME NEW v \in Workers, serving'[v] # Nobody
                 PROVE  LET x == serving'[v]
                        IN  /\ x.r = 1
                            /\ x.i \in 1..Len(config[x.c]) /\ config[x.c][x.i] = v
                            /\ x.i <= at[x.c]
                            /\ x.i = at[x.c] => pc[x.c] = "handshake"
      BY <1>0 DEF Served
    <2>2. CASE v = w
      BY <2>1, <2>2, <1>h DEF TypeOK
    <2>3. CASE v # w
      BY <2>3, <1>h DEF Order, Served, TypeOK
    <2> QED BY <2>2, <2>3
  <1>5. Queued' /\ Once'
    <2> SUFFICES ASSUME NEW v \in Workers
                 PROVE  /\ \A j \in 1..Len(queue'[v]) : InQueue(queue[v][j], v)'
                        /\ \A j, k \in 1..Len(queue'[v]) : queue'[v][j] = queue'[v][k] => j = k
      BY DEF Queued, Once
    <2>0. queue[v] \in Seq(Connection)
      BY DEF TypeOK
    <2>1. ASSUME NEW j \in 1..Len(queue[v]), NEW x \in Connection, x = queue[v][j],
                 v = w => j # 1
          PROVE  InQueue(x, v)'
      <3>1. InQueue(x, v) /\ x.c \in Clients
        BY <2>1 DEF Order, Queued, Connection
      <3>2. v = w => x # h
        BY <2>1, <1>h, <1>1 DEF Order, Once
      <3>3. serving'[v] # x
        BY <3>1, <3>2, <1>h DEF InQueue, TypeOK
      <3> QED BY <3>1, <3>3, <1>0, StaysInQueue
    <2>2. CASE v # w
      <3>1. queue'[v] = queue[v]
        BY <1>0, <2>2 DEF TypeOK
      <3>2. \A j \in 1..Len(queue[v]) : InQueue(queue[v][j], v)'
        BY <2>0, <2>1, <2>2, <3>1, QueuedNext
      <3> QED BY <3>1, <3>2 DEF Order, Once
    <2>3. CASE v = w
      <3> DEFINE q == Tail(queue[w])
      <3>1. queue'[v] = q /\ q \in Seq(Connection)
        BY <1>0, <2>3 DEF TypeOK
      <3>2. /\ Len(queue[v]) \in Nat \ {0} /\ Len(q) = Len(queue[v]) - 1
            /\ \A j \in 1..Len(q) : q[j] = queue[v][j + 1]
        BY <1>0, <2>3
      <3> HIDE DEF q
      <3>3. \A j \in 1..Len(q) : j + 1 \in 1..Len(queue[v]) /\ j + 1 # 1
        BY <3>2
      <3>4. \A j \in 1..Len(q) : \A x \in Connection : x = q[j] => InQueue(x, v)'
        BY <3>2, <3>3, <2>1
      <3>5. \A j \in 1..Len(q) : InQueue(queue[v][j], v)'
        BY <3>1, <3>4, QueuedNext
      <3>6. ASSUME NEW j \in 1..Len(q), NEW k \in 1..Len(q), q[j] = q[k]
            PROVE  j = k
        <4>1. j + 1 = k + 1
          BY <3>2, <3>3, <3>6 DEF Order, Once
        <4> QED BY <4>1
      <3> QED BY <3>1, <3>5, <3>6
    <2> QED BY <2>2, <2>3
  <1>6. Held'
    <2>1. \A c \in Clients : \A n : Line(c, n)' = Line(c, n)
      BY <1>0 DEF Line
    <2> SUFFICES ASSUME NEW c \in Clients, Connecting(c)
                 PROVE  /\ \A i \in 1..(at[c] - 1) :
                             Line(c, i) \in open /\ serving'[config[c][i]] = Line(c, i)
                        /\ pc[c] = "handshake" => Line(c, at[c]) \in open
      BY <1>0, <2>1 DEF Held, Connecting, Line
    <2>2. ASSUME NEW i \in 1..(at[c] - 1)
          PROVE  Line(c, i) \in open /\ serving'[config[c][i]] = Line(c, i)
      <3>1. Line(c, i) \in open /\ serving[config[c][i]] = Line(c, i)
        BY DEF Order, Held
      <3>2. Line(c, i) # Nobody
        BY LineType, <2>2 DEF TypeOK
      <3> QED BY <3>1, <3>2, <1>0, <1>h DEF TypeOK
    <2> QED BY <2>2 DEF Order, Held
  <1> QED BY <1>3, <1>4, <1>5, <1>6 DEF Order

\* A server that leaves a closed connection takes nothing from a client.
LEMMA EndSessionOrder ==
  ASSUME TypeOK, Order, NEW w \in Workers, EndSession(w)
  PROVE  Order'
  <1>0. /\ serving[w] \notin open
        /\ serving' = [serving EXCEPT ![w] = Nobody]
        /\ UNCHANGED <<config, modes, round, at, pc, queue, open>>
    BY DEF EndSession, inputs
  <1>1. Position'
    BY <1>0 DEF Order, Position
  <1>2. Served'
    BY <1>0 DEF Order, Served, TypeOK
  <1>3. Queued' /\ Once'
    <2> SUFFICES ASSUME NEW v \in Workers
                 PROVE  \A j \in 1..Len(queue[v]) : InQueue(queue[v][j], v)'
      BY <1>0 DEF Queued, Once, Order
    <2>0. queue[v] \in Seq(Connection) /\ queue'[v] = queue[v]
      BY <1>0 DEF TypeOK
    <2>1. ASSUME NEW j \in 1..Len(queue[v]), NEW x \in Connection, x = queue[v][j]
          PROVE  InQueue(x, v)'
      <3>1. InQueue(x, v) /\ x.c \in Clients
        BY <2>1 DEF Order, Queued, Connection
      <3>2. x # Nobody
        BY NobodyAssumption DEF Connection
      <3>3. serving'[v] # x
        BY <3>1, <3>2, <1>0 DEF InQueue, TypeOK
      <3> QED BY <3>1, <3>3, <1>0, StaysInQueue
    <2> QED BY <2>0, <2>1, QueuedNext
  <1>4. Held'
    <2>1. \A c \in Clients : \A n : Line(c, n)' = Line(c, n)
      BY <1>0 DEF Line
    <2> SUFFICES ASSUME NEW c \in Clients, Connecting(c)
                 PROVE  /\ \A i \in 1..(at[c] - 1) :
                             Line(c, i) \in open /\ serving'[config[c][i]] = Line(c, i)
                        /\ pc[c] = "handshake" => Line(c, at[c]) \in open
      BY <1>0, <2>1 DEF Held, Connecting, Line
    <2> QED BY <1>0 DEF Order, Held, TypeOK
  <1> QED BY <1>1, <1>2, <1>3, <1>4 DEF Order

LEMMA NextOrder ==
  ASSUME TypeOK, Encrypted, Order, [Next]_vars
  PROVE  Order' /\ Encrypted'
  <1>1. Encrypted'
    BY DEF Next, ClientStep, WorkerStep, Connect, Handshake, Use, Close, Exit, Accept,
       EndSession, inputs, vars, Encrypted
  <1>2. ASSUME UNCHANGED vars PROVE Order'
    <2> USE <1>2 DEF vars, inputs, Connecting, Line
    <2>1. Position' /\ Served'
      BY DEF Order, Position, Served
    <2>2. Queued' /\ Once'
      BY DEF Order, Queued, Once, InQueue
    <2>3. Held'
      BY DEF Order, Held
    <2> QED BY <2>1, <2>2, <2>3 DEF Order
  <1>3. ASSUME Next PROVE Order'
    BY <1>3, ConnectOrder, HandshakeOrder, UseOrder, AcceptOrder, EndSessionOrder
       DEF Next, ClientStep, WorkerStep
  <1> QED BY <1>1, <1>2, <1>3

-----------------------------------------------------------------------------
\* A client that is served somewhere waits for nothing, or for a later server.
LEMMA WaitsForLater ==
  ASSUME TypeOK, Order, Ordered, NEW w \in Workers, serving[w] # Nobody,
         NEW v \in Workers, WaitsFor(serving[w].c, v)
  PROVE  w < v
  <1>1. PICK x \in Connection : x = serving[w]
    BY DEF TypeOK
  <1>2. PICK d \in Clients : d = x.c
    BY DEF Connection
  <1>3. /\ x.r = 1 /\ x.i \in 1..Len(config[d]) /\ config[d][x.i] = w
        /\ x.i <= at[d]
        /\ x.i = at[d] => pc[d] = "handshake"
        /\ at[d] \in Nat /\ x.i \in Nat
    BY <1>1, <1>2, InputsType DEF Order, Served, TypeOK, Connection
  <1>w. /\ Worker(Line(d, at[d])) = config[d][at[d]] /\ Worker(Line(d, 1)) = config[d][1]
        /\ WaitsFor(d, v)
    BY <1>1, <1>2 DEF Worker, Line
  <1>4. /\ round[d] = 1
        /\ pc[d] \in {"connect", "handshake"} => at[d] \in 1..Len(config[d])
        /\ pc[d] = "use" => at[d] = Len(config[d]) + 1
    BY DEF Order, Position
  <1>5. ASSUME pc[d] \in {"connect", "handshake"}, x.i < at[d], v = config[d][at[d]]
        PROVE  w < v
    BY <1>3, <1>4, <1>5 DEF Ordered
  <1>6. CASE pc[d] = "connect"
    <2>1. v = config[d][at[d]]
      BY <1>w, <1>6 DEF WaitsFor
    <2>2. x.i < at[d]
      BY <1>3, <1>6
    <2> QED BY <1>5, <1>6, <2>1, <2>2
  <1>7. CASE pc[d] = "handshake"
    <2>1. v = config[d][at[d]] /\ serving[v] # Line(d, at[d])
      BY <1>w, <1>7 DEF WaitsFor
    <2>2. x.i # at[d]
      <3>1. SUFFICES ASSUME x.i = at[d] PROVE FALSE
        OBVIOUS
      <3>2. x = Line(d, at[d])
        BY <1>2, <1>3, <1>4, <3>1 DEF Connection, Line
      <3> QED BY <1>1, <1>3, <2>1, <3>1, <3>2
    <2>3. x.i < at[d]
      BY <1>3, <2>2
    <2> QED BY <1>5, <1>7, <2>1, <2>3
  <1>8. CASE pc[d] = "use"
    <2>1. v = config[d][1] /\ serving[v] # Line(d, 1)
      BY <1>w, <1>8 DEF WaitsFor
    <2>2. 1 \in 1..(at[d] - 1)
      BY <1>4, <1>8, InputsType
    <2>3. serving[config[d][1]] = Line(d, 1)
      BY <2>2, <1>8 DEF Order, Held, Connecting
    <2> QED BY <2>1, <2>3
  <1> QED BY <1>w, <1>6, <1>7, <1>8 DEF WaitsFor

\* With encrypted clients whose configs share one order, whoever holds a server
\* waits for nothing or for a later one, so that waiting never closes a circle
\* (lines_from, lhandshake).
THEOREM WaitingAscends == Spec => []WaitsAscend
  <1> DEFINE Inv == TypeOK /\ (Encrypted => Order)
  <1>1. Init => Inv
    BY InitType, InitOrder
  <1>2. Inv /\ [Next]_vars => Inv'
    <2> SUFFICES ASSUME Inv, [Next]_vars PROVE Inv'
      OBVIOUS
    <2>1. TypeOK'
      BY NextType
    <2>2. Encrypted' => Encrypted
      BY DEF Next, ClientStep, WorkerStep, Connect, Handshake, Use, Close, Exit, Accept,
         EndSession, inputs, vars, Encrypted
    <2>3. Encrypted => Order'
      BY NextOrder
    <2> QED BY <2>1, <2>2, <2>3
  <1>3. Inv => WaitsAscend
    BY WaitsForLater DEF WaitsAscend
  <1> QED BY <1>1, <1>2, <1>3, PTL DEF Spec

=============================================================================
