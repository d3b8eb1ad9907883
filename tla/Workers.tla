------------------------------- MODULE Workers -------------------------------
(***************************************************************************)
(* Clients whose config file names several servers.  connect_to_worker     *)
(* connects to all of them, line by line, and in mode 1 shakes hands with  *)
(* each before it goes on; calls use the first line's server only, and     *)
(* close_worker closes only that connection: the others stay until the     *)
(* process ends.  A server serves one connection from accept to close.     *)
(* What a session does is in LuaGuardia; here nobody fails.                *)
(***************************************************************************)
EXTENDS Naturals, Sequences, FiniteSets

CONSTANTS Clients,
          Workers,   \* the servers, by port
          Configs,   \* the config files clients may have
          Benches,   \* the modes of a program's successive do_bench calls
          Backlog,   \* second argument of listen(2)
          Nobody

ASSUME WorkersAssumption == Workers \subseteq Nat
ASSUME ConfigsAssumption == Configs \subseteq Seq(Workers) \ {<<>>}
ASSUME BenchesAssumption == Benches \subseteq Seq({0, 1, 2}) \ {<<>>}
ASSUME BacklogAssumption == Backlog \in Nat
ASSUME NobodyAssumption  == Nobody \notin [c : Clients, r : Nat, i : Nat]

VARIABLES config, modes,   \* the client's files and program: never change
          round,     \* round[c]: which do_bench call client c is in
          at,        \* at[c]: the line of the config it is at
          pc,        \* "connect", "handshake", "use", "close", "exit" or "gone"
          queue,     \* queue[w]: connections server w has not accepted yet
          serving,   \* serving[w]: the connection it serves
          open       \* the connections whose client end is open

inputs == <<config, modes>>
vars == <<inputs, round, at, pc, queue, serving, open>>

\* A connection is made by line i of client c's config in its r-th do_bench.
Connection == [c : Clients, r : Nat, i : Nat]
Line(c, n) == [c |-> c, r |-> round[c], i |-> n]
Worker(x)  == config[x.c][x.i]
Mode(c)    == modes[c][round[c]]

Init ==
  /\ config \in [Clients -> Configs]
  /\ modes \in [Clients -> Benches]
  /\ round = [c \in Clients |-> 1]
  /\ at = [c \in Clients |-> 1]
  /\ pc = [c \in Clients |-> "connect"]
  /\ queue = [w \in Workers |-> <<>>]
  /\ serving = [w \in Workers |-> Nobody]
  /\ open = {}

-----------------------------------------------------------------------------
(* A client.                                                               *)

\* The loop of lines_from goes to the next line.
NextLine(c) ==
  /\ at' = [at EXCEPT ![c] = @ + 1]
  /\ pc' = [pc EXCEPT ![c] = IF at[c] = Len(config[c]) THEN "use" ELSE "connect"]

\* Mutant: the handshakes are left for later.
ConnectFirst(c, w) ==
  /\ pc[c] = "connect"
  /\ w = config[c][at[c]]
  /\ Len(queue[w]) <= Backlog
  /\ queue' = [queue EXCEPT ![w] = Append(@, Line(c, at[c]))]
  /\ open' = open \union {Line(c, at[c])}
  /\ NextLine(c)
  /\ UNCHANGED <<inputs, round, serving>>

\* lconnect blocks while the server's queue is full.
Connect(c, w) ==
  /\ pc[c] = "connect"
  /\ w = config[c][at[c]]
  /\ Len(queue[w]) <= Backlog
  /\ queue' = [queue EXCEPT ![w] = Append(@, Line(c, at[c]))]
  /\ open' = open \union {Line(c, at[c])}
  /\ IF Mode(c) = 1
     THEN pc' = [pc EXCEPT ![c] = "handshake"] /\ UNCHANGED at
     ELSE NextLine(c)
  /\ UNCHANGED <<inputs, round, serving>>

\* lhandshake returns once the server serves the connection.
Handshake(c) ==
  /\ pc[c] = "handshake"
  /\ serving[Worker(Line(c, at[c]))] = Line(c, at[c])
  /\ NextLine(c)
  /\ UNCHANGED <<inputs, round, queue, serving, open>>

\* send_modules and the calls of a do_bench: they need the first line's server.
Use(c) ==
  /\ pc[c] = "use"
  /\ serving[Worker(Line(c, 1))] = Line(c, 1)
  /\ pc' = [pc EXCEPT ![c] = "close"]
  /\ UNCHANGED <<inputs, round, at, queue, serving, open>>

\* Mutant: close_worker only forgets the socket.
CloseForgets(c) ==
  /\ pc[c] = "close"
  /\ IF round[c] = Len(modes[c])
     THEN /\ pc' = [pc EXCEPT ![c] = "exit"]
          /\ UNCHANGED <<round, at>>
     ELSE /\ pc' = [pc EXCEPT ![c] = "connect"]
          /\ round' = [round EXCEPT ![c] = @ + 1]
          /\ at' = [at EXCEPT ![c] = 1]
  /\ UNCHANGED <<inputs, queue, serving, open>>

\* close_worker, and the next do_bench connects to every server again.
Close(c) ==
  /\ pc[c] = "close"
  /\ open' = open \ {Line(c, 1)}
  /\ IF round[c] = Len(modes[c])
     THEN /\ pc' = [pc EXCEPT ![c] = "exit"]
          /\ UNCHANGED <<round, at>>
     ELSE /\ pc' = [pc EXCEPT ![c] = "connect"]
          /\ round' = [round EXCEPT ![c] = @ + 1]
          /\ at' = [at EXCEPT ![c] = 1]
  /\ UNCHANGED <<inputs, queue, serving>>

\* The process ends, and with it its connections.
Exit(c) ==
  /\ pc[c] = "exit"
  /\ pc' = [pc EXCEPT ![c] = "gone"]
  /\ open' = {x \in open : x.c # c}
  /\ UNCHANGED <<inputs, round, at, queue, serving>>

-----------------------------------------------------------------------------
(* A server.                                                               *)

Accept(w) ==
  /\ serving[w] = Nobody
  /\ queue[w] # <<>>
  /\ serving' = [serving EXCEPT ![w] = Head(queue[w])]
  /\ queue' = [queue EXCEPT ![w] = Tail(@)]
  /\ UNCHANGED <<inputs, round, at, pc, open>>

\* The client has closed the connection: back to accept.
EndSession(w) ==
  /\ serving[w] # Nobody
  /\ serving[w] \notin open
  /\ serving' = [serving EXCEPT ![w] = Nobody]
  /\ UNCHANGED <<inputs, round, at, pc, queue, open>>

ClientStep(c) ==
  (\E w \in Workers : Connect(c, w)) \/ Handshake(c) \/ Use(c) \/ Close(c) \/ Exit(c)
WorkerStep(w) == Accept(w) \/ EndSession(w)

Next == (\E c \in Clients : ClientStep(c)) \/ (\E w \in Workers : WorkerStep(w))

\* Fairness: every client and every server is a process the system schedules.
Spec == Init /\ [][Next]_vars
FairSpec ==
  /\ Spec
  /\ \A c \in Clients : WF_vars(ClientStep(c))
  /\ \A w \in Workers : WF_vars(WorkerStep(w))

-----------------------------------------------------------------------------
Pcs == {"connect", "handshake", "use", "close", "exit", "gone"}

TypeOK ==
  /\ config \in [Clients -> Configs] /\ modes \in [Clients -> Benches]
  /\ round \in [Clients -> Nat] /\ at \in [Clients -> Nat \ {0}]
  /\ pc \in [Clients -> Pcs]
  /\ queue \in [Workers -> Seq(Connection)]
  /\ serving \in [Workers -> Connection \union {Nobody}]
  /\ open \subseteq Connection

\* Client c can go on only when server w has done something.
WaitsFor(c, w) ==
  \/ pc[c] = "connect" /\ w = Worker(Line(c, at[c])) /\ Len(queue[w]) > Backlog
  \/ pc[c] = "handshake" /\ w = Worker(Line(c, at[c])) /\ serving[w] # Line(c, at[c])
  \/ pc[c] = "use" /\ w = Worker(Line(c, 1)) /\ serving[w] # Line(c, 1)

Ordered ==
  \A c \in Clients : \A i, j \in 1..Len(config[c]) :
    i < j => config[c][i] < config[c][j]

Encrypted == \A c \in Clients : modes[c] = <<1>>

Plain ==
  /\ \A c \in Clients : Len(modes[c]) = 1 /\ modes[c][1] # 1
  /\ \A w \in Workers :
       Cardinality({x \in [c : Clients, r : {1}, i : 1..Cardinality(Workers)] :
                      x.i <= Len(config[x.c]) /\ Worker(x) = w}) <= Backlog + 2

OneWorker == \A c \in Clients : Len(config[c]) = 1

\* When every config lists its servers in one common order and everybody is
\* encrypted, a client that waits for a server waits for a client that waits for
\* nothing or for a later server: no circle (lines_from shakes hands in order).
WaitsAscend ==
  Encrypted /\ Ordered =>
    \A c \in Clients : \A w \in Workers :
      WaitsFor(c, w) /\ serving[w] # Nobody =>
        \A v \in Workers : WaitsFor(serving[w].c, v) => w < v

\* Every client ends, if all are encrypted and ordered; or if none is encrypted,
\* each connects once, and the queues have a place for all; or if no config names
\* more than one server.  Without that they may wait for each other, or one for
\* itself: the connections that close_worker leaves open keep their servers.
AllEnd ==
  (Encrypted /\ Ordered) \/ Plain \/ OneWorker => <>(\A c \in Clients : pc[c] = "gone")
=============================================================================
