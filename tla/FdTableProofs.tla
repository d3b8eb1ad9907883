---------------------------- MODULE FdTableProofs ----------------------------
(***************************************************************************)
(* Over any number of sessions close_open_fds spares the sockets and the   *)
(* device, and the files it misses do not add up, however many descriptors *)
(* the process may have and however many files a session opens, as long as *)
(* it does not run out of descriptors.                                     *)
(***************************************************************************)
EXTENDS FdTable, TLAPS, FiniteSetTheorems

\* Three descriptors are free: a new session opens as many at once.
Roomy == \E a, b, c \in Free(fds) : a # b /\ a # c /\ b # c

Kinds  == {"std", "socket", "isgx", "loaded", "data", "free"}
Tables == [Fds -> Kinds]

\* The socket of the session being served, and those of the process.
Connections == IF phase # "accept" THEN {conn} ELSE {}
Inv ==
  /\ fds \in Tables /\ conn \in Fds
  /\ fds[Welcome] = "socket"
  /\ phase # "accept" => conn # Welcome /\ fds[conn] = "socket"
  /\ \A n \in Fds : fds[n] = "std" <=> n < Welcome
  /\ \A n \in Fds : fds[n] = "socket" <=> n \in {Welcome} \union Connections

\* There is a lowest free descriptor.
LEMMA LowestIsFree ==
  ASSUME NEW table \in Tables, Free(table) # {}
  PROVE  /\ Lowest(table) \in Fds /\ table[Lowest(table)] = "free"
         /\ \A h \in Fds : h < Lowest(table) => table[h] # "free"
  <1>1. Free(table) \subseteq Nat /\ Free(table) # {}
    BY FdAssumption DEF Free, Fds
  <1>2. \E x \in Free(table) : \A y \in Free(table) : ~(<<y, x>> \in OpToRel(<, Nat))
    BY <1>1, NatLessThanWellFounded, WFMin
  <1>3. \E x \in Free(table) : \A y \in Free(table) : x <= y
    <2>1. PICK x \in Free(table) : \A y \in Free(table) : ~(<<y, x>> \in OpToRel(<, Nat))
      BY <1>2
    <2>2. ASSUME NEW y \in Free(table) PROVE x <= y
      <3>1. x \in Nat /\ y \in Nat
        BY <1>1
      <3>2. OpToRel(<, Nat) = {ss \in Nat \X Nat : ss[1] < ss[2]}
        BY DEF OpToRel
      <3>3. y < x => <<y, x>> \in OpToRel(<, Nat)
        BY <3>1, <3>2
      <3>4. ~(y < x)
        BY <2>1, <3>3
      <3> QED BY <3>1, <3>4
    <2> QED BY <2>2
  <1>4. Min(Free(table)) \in Free(table) /\ \A y \in Free(table) : Min(Free(table)) <= y
    BY <1>3 DEF Min
  <1>5. \A h \in Fds : table[h] = "free" => h \in Free(table)
    BY DEF Free
  <1>6. \A x, y \in Free(table) : x \in Nat /\ y \in Nat
    BY <1>1
  <1> QED BY <1>4, <1>5, <1>6 DEF Lowest, Free

\* Opening changes one descriptor, which was free.
LEMMA OpenedKeeps ==
  ASSUME NEW table \in Tables, Free(table) # {}, NEW kind \in Kinds
  PROVE  /\ Opened(table, kind) \in Tables
         /\ Lowest(table) \in Fds /\ table[Lowest(table)] = "free"
         /\ Opened(table, kind)[Lowest(table)] = kind
         /\ \A n \in Fds : n # Lowest(table) => Opened(table, kind)[n] = table[n]
         /\ Free(table) \ {Lowest(table)} \subseteq Free(Opened(table, kind))
  <1>1. Lowest(table) \in Fds /\ table[Lowest(table)] = "free"
    BY LowestIsFree
  <1> QED BY <1>1 DEF Opened, Tables, Free

\* Only what is neither "std" nor a socket is opened or closed in between.
SameSockets(old, new) ==
  /\ new \in Tables
  /\ \A n \in Fds : old[n] \in {"std", "socket"} \/ new[n] \in {"std", "socket"} => new[n] = old[n]

LEMMA SetupKeeps ==
  ASSUME NEW table \in Tables, \E a, b \in Free(table) : a # b
  PROVE  SameSockets(table, SetupEnclave(table))
  <1>1. PICK device : device = IF Holds(table, {"isgx"}) = {} THEN Opened(table, "isgx") ELSE table
    OBVIOUS
  <1>2. device \in Tables /\ SameSockets(table, device) /\ Free(device) # {}
    <2>1. CASE device = table
      BY <2>1 DEF SameSockets
    <2>2. CASE device = Opened(table, "isgx")
      <3>1. "isgx" \in Kinds /\ Free(table) # {}
        BY DEF Kinds
      <3>2. /\ device \in Tables
            /\ Lowest(table) \in Fds /\ table[Lowest(table)] = "free"
            /\ device[Lowest(table)] = "isgx"
            /\ \A n \in Fds : n # Lowest(table) => device[n] = table[n]
            /\ Free(table) \ {Lowest(table)} \subseteq Free(device)
        BY <2>2, <3>1, OpenedKeeps
      <3>3. Free(device) # {}
        BY <3>2
      <3> QED BY <3>2, <3>3 DEF SameSockets
    <2> QED BY <1>1, <2>1, <2>2
  <1>3. /\ Opened(device, "loaded") \in Tables
        /\ Lowest(device) \in Fds /\ device[Lowest(device)] = "free"
        /\ Opened(device, "loaded")[Lowest(device)] = "loaded"
        /\ \A n \in Fds : n # Lowest(device) => Opened(device, "loaded")[n] = device[n]
    BY <1>2, OpenedKeeps DEF Kinds
  <1>4. SetupEnclave(table) = Opened(device, "loaded")
    BY <1>1 DEF SetupEnclave
  <1> QED BY <1>2, <1>3, <1>4 DEF SameSockets

LEMMA CleanupKeeps ==
  ASSUME NEW table \in Tables, NEW s
  PROVE  /\ SameSockets(table, CloseOpenFds(table, s))
         /\ Free(table) \subseteq Free(CloseOpenFds(table, s))
  <1>1. "free" \in Kinds /\ Files = {"loaded", "data"}
    BY DEF Kinds, Files
  <1>2. \A n \in Fds : CloseOpenFds(table, s)[n] \in {table[n], "free"} /\ table[n] \in Kinds
                       /\ (table[n] \in {"std", "socket"} => CloseOpenFds(table, s)[n] = table[n])
    BY <1>1 DEF CloseOpenFds, Tables
  <1>3. CloseOpenFds(table, s) \in Tables
    BY <1>1, <1>2 DEF CloseOpenFds, Tables
  <1> QED BY <1>2, <1>3 DEF SameSockets, Free

LEMMA OrphanedKeeps ==
  ASSUME NEW table \in Tables
  PROVE  SameSockets(table, Orphaned(table))
  BY DEF SameSockets, Orphaned, Tables, Kinds

\* A step that keeps the sockets and the session keeps the invariant.
LEMMA SameSocketsInv ==
  ASSUME Inv, SameSockets(fds, fds'), conn' = conn, (phase' = "accept") <=> (phase = "accept")
  PROVE  Inv'
  <1>1. Welcome \in Fds
    BY FdAssumption DEF Fds, Welcome
  <1>2. Connections' = Connections
    BY DEF Connections
  <1> QED BY <1>1, <1>2 DEF Inv, SameSockets

LEMMA InitInv == Init => Inv
  <1> SUFFICES ASSUME Init PROVE Inv
    OBVIOUS
  <1>1. Welcome \in Fds /\ Fds \subseteq Nat /\ Welcome = 3
    BY FdAssumption DEF Fds, Welcome
  <1>2. fds \in Tables
    BY DEF Init, Tables, Kinds
  <1> QED BY <1>1, <1>2 DEF Init, Inv, Connections

LEMMA NextInv == Inv /\ Roomy /\ [Next]_vars => Inv'
  <1> SUFFICES ASSUME Inv, Roomy, [Next]_vars PROVE Inv'
    OBVIOUS
  <1>0. /\ fds \in Tables /\ Free(fds) # {} /\ Welcome \in Fds
        /\ \E a, b \in Free(fds) : a # b
    BY FdAssumption DEF Roomy, Inv, Fds, Welcome
  <1>1. CASE UNCHANGED vars
    BY <1>1 DEF vars, Inv, Connections
  <1>2. ASSUME NEW m \in 0..2, Accept(m) PROVE Inv'
    <2>1. PICK table : table = Opened(fds, "socket")
      OBVIOUS
    <2>2. /\ table \in Tables /\ Lowest(fds) \in Fds /\ fds[Lowest(fds)] = "free"
          /\ table[Lowest(fds)] = "socket"
          /\ \A n \in Fds : n # Lowest(fds) => table[n] = fds[n]
          /\ Free(fds) \ {Lowest(fds)} \subseteq Free(table)
      BY <1>0, <2>1, OpenedKeeps DEF Kinds
    <2>3. \E a, b \in Free(table) : a # b
      BY <2>2 DEF Roomy
    <2>4. SameSockets(table, fds')
      <3>1. CASE m = 1
        BY <1>2, <2>1, <2>2, <2>3, <3>1, SetupKeeps DEF Accept
      <3>2. CASE m # 1
        BY <1>2, <2>1, <2>2, <3>2 DEF Accept, SameSockets
      <3> QED BY <3>1, <3>2
    <2>5. conn' = Lowest(fds) /\ phase = "accept" /\ phase' = "code"
      BY <1>2 DEF Accept
    <2>6. Connections = {} /\ Connections' = {Lowest(fds)}
      BY <2>5 DEF Connections
    <2>7. Lowest(fds) # Welcome /\ table[Welcome] = "socket" /\ fds[Welcome] = "socket"
      BY <1>0, <2>2 DEF Inv
    <2>8. /\ \A n \in Fds : fds[n] = "std" <=> n < Welcome
          /\ \A n \in Fds : fds[n] = "socket" <=> n = Welcome
      BY <2>6 DEF Inv
    <2>9. /\ \A n \in Fds : fds'[n] = "std" <=> n < Welcome
          /\ \A n \in Fds : fds'[n] = "socket" <=> n = Welcome \/ n = Lowest(fds)
      BY <2>2, <2>4, <2>8 DEF SameSockets
    <2> QED BY <1>0, <2>2, <2>4, <2>5, <2>6, <2>7, <2>9 DEF Inv, SameSockets
  <1>3. CASE RecvCode
    <2>1. conn' = conn /\ phase = "code" /\ phase' = "exec"
      BY <1>3 DEF RecvCode
    <2>2. SameSockets(fds, fds')
      <3>1. CASE mode = 2
        <4>1. PICK table : table = CloseOpenFds(fds, Welcome)
          OBVIOUS
        <4>2. SameSockets(fds, table) /\ Free(fds) \subseteq Free(table)
          BY <1>0, <4>1, CleanupKeeps
        <4>3. table \in Tables /\ \E a, b \in Free(table) : a # b
          BY <1>0, <4>2 DEF SameSockets
        <4>4. SameSockets(table, fds')
          BY <1>3, <3>1, <4>1, <4>3, SetupKeeps DEF RecvCode
        <4> QED BY <4>2, <4>4 DEF SameSockets
      <3>2. CASE mode # 2
        BY <1>0, <1>3, <3>2 DEF RecvCode, SameSockets
      <3> QED BY <3>1, <3>2
    <2> QED BY <2>1, <2>2, SameSocketsInv
  <1>4. ASSUME NEW kind \in Files, fds' = Opened(fds, kind), phase # "accept",
               UNCHANGED <<phase, conn>>
        PROVE  Inv'
    <2>1. kind \in Kinds /\ kind \notin {"std", "socket"}
      BY <1>4 DEF Files, Kinds
    <2>2. SameSockets(fds, fds')
      BY <1>0, <1>4, <2>1, OpenedKeeps DEF SameSockets
    <2> QED BY <1>4, <2>2, SameSocketsInv
  <1>5. CASE LoadFile
    BY <1>4, <1>5 DEF LoadFile, Files
  <1>6. CASE OpenData
    BY <1>4, <1>6 DEF OpenData, Files
  <1>7. ASSUME NEW n \in Fds, CloseData(n) PROVE Inv'
    <2>1. SameSockets(fds, fds')
      BY <1>0, <1>7 DEF CloseData, SameSockets, Tables, Kinds
    <2> QED BY <1>7, <2>1, SameSocketsInv DEF CloseData
  <1>8. CASE EndRequest
    <2>1. SameSockets(fds, fds')
      <3>1. CASE mode = 1
        BY <1>0, <1>8, <3>1 DEF EndRequest, SameSockets
      <3>2. CASE mode # 1
        <4>1. fds' = [n \in Fds |-> IF fds[n] = "data" THEN "free" ELSE fds[n]]
          BY <1>8, <3>2 DEF EndRequest
        <4> QED BY <1>0, <4>1 DEF SameSockets, Tables, Kinds
      <3> QED BY <3>1, <3>2
    <2> QED BY <1>8, <2>1, SameSocketsInv DEF EndRequest
  <1>9. CASE AbortRequest
    <2>1. SameSockets(fds, fds')
      BY <1>0, <1>9, OrphanedKeeps DEF AbortRequest
    <2> QED BY <1>9, <2>1, SameSocketsInv DEF AbortRequest
  <1>10. CASE EndSession
    <2>1. PICK table : table = [fds EXCEPT ![conn] = "free"]
      OBVIOUS
    <2>2. /\ conn \in Fds /\ conn # Welcome /\ fds[conn] = "socket" /\ phase = "code"
          /\ phase' = "accept" /\ conn' = conn
      BY <1>10 DEF EndSession, Inv
    <2>3. /\ table \in Tables /\ table[conn] = "free"
          /\ \A n \in Fds : n # conn => table[n] = fds[n]
      BY <1>0, <2>1, <2>2 DEF Tables, Kinds
    <2>4. SameSockets(table, fds')
      <3>1. PICK cleaned : cleaned = CloseOpenFds(table, Welcome)
        OBVIOUS
      <3>2. SameSockets(table, cleaned)
        BY <2>3, <3>1, CleanupKeeps
      <3>3. SameSockets(cleaned, fds')
        BY <1>10, <2>1, <3>1, <3>2, OrphanedKeeps DEF EndSession, SameSockets
      <3> QED BY <3>2, <3>3 DEF SameSockets
    <2>5. Connections = {conn} /\ Connections' = {}
      BY <2>2 DEF Connections
    <2>6. /\ \A n \in Fds : fds[n] = "std" <=> n < Welcome
          /\ \A n \in Fds : fds[n] = "socket" <=> n = Welcome \/ n = conn
      BY <2>5 DEF Inv
    <2>7. ~(conn < Welcome)
      BY <2>2, <2>6
    <2>8. /\ \A n \in Fds : fds'[n] = "std" <=> n < Welcome
          /\ \A n \in Fds : fds'[n] = "socket" <=> n = Welcome
      BY <2>2, <2>3, <2>4, <2>6, <2>7 DEF SameSockets
    <2> QED BY <1>0, <2>2, <2>4, <2>5, <2>8 DEF Inv, SameSockets
  <1> QED BY <1>1, <1>2, <1>3, <1>5, <1>6, <1>7, <1>8, <1>9, <1>10 DEF Next

\* As long as three descriptors are free, close_open_fds (funcs.cpp:306-319)
\* closes neither the listening socket nor the connection being served, and
\* nothing else is ever taken for one of them.
THEOREM SocketsSpared == Spec /\ []Roomy => []SocketsKept
  <1>1. Inv => SocketsKept
    <2> SUFFICES ASSUME Inv PROVE SocketsKept
      OBVIOUS
    <2>1. Fds \subseteq Nat /\ 0..Welcome \subseteq Fds /\ Welcome = 3
      BY FdAssumption DEF Fds, Welcome
    <2>2. Connections \subseteq Fds
      BY DEF Connections, Inv
    <2>3. \A n \in Fds : n \in 0..Welcome <=> n < Welcome \/ n = Welcome
      BY <2>1
    <2>4. ASSUME NEW n \in Fds
          PROVE  fds[n] \in {"std", "socket"} <=> n \in 0..Welcome \union Connections
      BY <2>3 DEF Inv
    <2>5. Holds(fds, {"std", "socket", "isgx"})
            = (0..Welcome \union Connections) \union Holds(fds, {"isgx"})
      BY <2>1, <2>2, <2>4 DEF Holds
    <2> QED BY <2>5 DEF Inv, SocketsKept, Connections
  <1> QED BY <1>1, InitInv, NextInv, PTL DEF Spec

-----------------------------------------------------------------------------
(***************************************************************************)
(* Why what cleanups miss does not add up.  A cleanup misses the files     *)
(* above c, the number of open descriptors: if it misses k of them, k + 1  *)
(* descriptors up to c are free (HolesHide).  Either all k were there      *)
(* before, or one of them is Young, opened since the last cleanup, and the *)
(* holes under it were opened, and closed, in the same time.               *)
(***************************************************************************)
Below(table, n) == {h \in Fds : h < n /\ table[h] = "free"}

\* bootstrap.lua lies under the executed code's own files and above no hole.
Anchored(N) ==
  \E b \in N : fds[b] = "loaded" /\ \A n \in Fds : n < b => fds[n] \notin {"free", "data"}

\* N: the files opened since the last cleanup and still open.
Young(N) ==
  /\ N \subseteq Holds(fds, Files)
  /\ Holds(fds, {"data"}) \subseteq N
  /\ Cardinality(Holds(fds, Files) \ N) + 2 <= MaxOpens
  /\ \A n \in N : Cardinality(Below(fds, n)) + Cardinality(N) <= opens
  /\ mode = 0 => N \subseteq Holds(fds, {"data"})
  /\ mode # 0 => Anchored(N) \/ (N = {} /\ phase = "code" /\ mode = 2)

YoungInv ==
  /\ mode \in 0..2 /\ phase \in {"accept", "code", "exec"}
  /\ opens \in Nat /\ opens <= MaxOpens
  /\ phase = "accept" \/ (phase = "code" /\ mode # 1) => Holds(fds, {"data"}) = {}
  /\ phase # "accept" => \E N \in SUBSET Fds : Young(N)
  /\ LeftoversBounded

LEMMA Sizes ==
  ASSUME NEW S \in SUBSET Fds
  PROVE  IsFiniteSet(S) /\ Cardinality(S) \in Nat
  <1>1. IsFiniteSet(Fds)
    BY FdAssumption, FS_Interval DEF Fds
  <1>2. IsFiniteSet(S)
    BY <1>1, FS_Subset
  <1> QED BY <1>2, FS_CardinalityType

LEMMA Smaller ==
  ASSUME NEW S \in SUBSET Fds, NEW T \in SUBSET S
  PROVE  Cardinality(T) <= Cardinality(S)
  BY Sizes, FS_Subset

LEMMA OneMore ==
  ASSUME NEW S \in SUBSET Fds, NEW x \in Fds
  PROVE  Cardinality(S \union {x}) = IF x \in S THEN Cardinality(S) ELSE Cardinality(S) + 1
  BY Sizes, FS_AddElement

LEMMA Disjoint ==
  ASSUME NEW S \in SUBSET Fds, NEW T \in SUBSET Fds, S \intersect T = {}
  PROVE  Cardinality(S \union T) = Cardinality(S) + Cardinality(T)
  <1>1. Cardinality(S \union T) = Cardinality(S) + Cardinality(T) - Cardinality({})
    BY Sizes, FS_Union
  <1> QED BY <1>1, Sizes, FS_EmptySet

\* The files a cleanup does not look at.
Missed(table) == {n \in Holds(table, Files) : n > CountOpenFds(table)}

\* Above the number of open descriptors there are fewer of them than holes below.
LEMMA HolesHide ==
  ASSUME NEW table \in Tables, NEW f \in Missed(table)
  PROVE  Cardinality(Missed(table)) + 1 <= Cardinality(Below(table, f))
  <1> DEFINE c     == CountOpenFds(table)
             holes == {h \in 0..c : table[h] = "free"}
             low   == {h \in 0..c : table[h] # "free"}
             M     == Missed(table)
  <1>1. Fds \subseteq Nat /\ Fds = 0..MaxFd /\ MaxFd \in Nat
    BY FdAssumption DEF Fds
  <1>2. /\ Open(table) \in SUBSET Fds /\ M \in SUBSET Fds /\ f \in Fds /\ f \in Nat
        /\ Below(table, f) \in SUBSET Fds
    BY <1>1 DEF Open, Missed, Holds, Below
  <1>3. c \in Nat /\ c = Cardinality(Open(table)) /\ f > c
    BY <1>2, Sizes DEF CountOpenFds, Missed
  <1> HIDE DEF c
  <1>4. 0..c \in SUBSET Fds /\ holes \in SUBSET Fds /\ low \in SUBSET Fds
    BY <1>1, <1>2, <1>3
  <1>5. Cardinality(0..c) = c + 1
    BY <1>3, FS_Interval
  <1>6. Cardinality(holes) + Cardinality(low) = c + 1
    <2>1. holes \union low = 0..c /\ holes \intersect low = {}
      OBVIOUS
    <2> QED BY <1>4, <1>5, <2>1, Disjoint
  <1>7. Cardinality(low) + Cardinality(M) <= c
    <2>1. low \intersect M = {}
      <3>1. \A n \in M : n > c
        BY DEF Missed, c
      <3> QED BY <1>1, <1>2, <1>3, <3>1
    <2>2. low \union M \in SUBSET Open(table)
      BY <1>4 DEF Missed, Holds, Open, Files
    <2> QED BY <1>2, <1>3, <1>4, <2>1, <2>2, Disjoint, Smaller
  <1>8. Cardinality(holes) <= Cardinality(Below(table, f))
    <2>1. holes \in SUBSET Below(table, f)
      BY <1>1, <1>2, <1>3, <1>4 DEF Below
    <2> QED BY <1>2, <2>1, Smaller
  <1>9. /\ Cardinality(holes) \in Nat /\ Cardinality(low) \in Nat
        /\ Cardinality(M) \in Nat /\ Cardinality(Below(table, f)) \in Nat
    BY <1>2, <1>4, Sizes
  <1> HIDE DEF holes, low
  <1> QED BY <1>3, <1>6, <1>7, <1>8, <1>9

\* What a cleanup leaves is what it misses.
LEMMA CleanupLeaves ==
  ASSUME NEW table \in Tables, \A n \in Fds : n <= Welcome => table[n] \notin Files
  PROVE  Holds(CloseOpenFds(table, Welcome), Files) = Missed(table)
  <1>1. Fds \subseteq Nat /\ Welcome = 3 /\ "free" \notin Files
    BY FdAssumption DEF Fds, Welcome, Files
  <1>2. Open(table) \in SUBSET Fds
    BY DEF Open
  <1>3. CountOpenFds(table) \in Nat
    BY <1>2, Sizes DEF CountOpenFds
  <1>4. \A n \in Fds : CloseOpenFds(table, Welcome)[n] \in Files
                        <=> table[n] \in Files /\ n > CountOpenFds(table)
    <2> TAKE n \in Fds
    <2>1. n \in Nat
      BY <1>1
    <2>2. CloseOpenFds(table, Welcome)[n]
            = IF n > Welcome /\ n <= CountOpenFds(table) /\ table[n] \in Files
              THEN "free" ELSE table[n]
      BY DEF CloseOpenFds
    <2>3. CASE n <= Welcome
      BY <1>1, <2>1, <2>2, <2>3
    <2>4. CASE n > Welcome
      BY <1>1, <1>3, <2>1, <2>2, <2>4
    <2> QED BY <1>1, <2>1, <2>3, <2>4
  <1> QED BY <1>4 DEF Missed, Holds

\* Between two requests a cleanup would miss at least two fewer files than one
\* session opens, with or without the session's socket.
LEMMA FewMissed ==
  ASSUME Inv, YoungInv, phase = "code",
         NEW table \in Tables, \A n \in Fds : n # conn => table[n] = fds[n],
         table[conn] \in {"socket", "free"}
  PROVE  Cardinality(Missed(table)) + 2 <= MaxOpens
  <1>1. PICK N \in SUBSET Fds : Young(N)
    BY DEF YoungInv
  <1>2. fds[conn] = "socket" /\ conn \in Fds
    BY DEF Inv
  <1>3. /\ Holds(table, Files) = Holds(fds, Files) /\ Holds(fds, Files) \in SUBSET Fds
        /\ Missed(table) \in SUBSET Holds(fds, Files) /\ Missed(table) \in SUBSET Fds
    BY <1>2 DEF Holds, Files, Missed
  <1>4. MaxOpens \in Nat /\ opens \in Nat /\ opens <= MaxOpens
    BY FdAssumption DEF YoungInv
  <1>5. CASE Missed(table) \intersect N = {}
    <2>1. Missed(table) \in SUBSET (Holds(fds, Files) \ N)
      BY <1>3, <1>5
    <2>2. Cardinality(Missed(table)) <= Cardinality(Holds(fds, Files) \ N)
      BY <1>3, <2>1, Smaller
    <2>3. Cardinality(Missed(table)) \in Nat /\ Cardinality(Holds(fds, Files) \ N) \in Nat
      BY <1>3, Sizes
    <2> QED BY <1>1, <1>4, <2>2, <2>3 DEF Young
  <1>6. ASSUME NEW f \in Missed(table), f \in N
        PROVE  Cardinality(Missed(table)) + 2 <= MaxOpens
    <2>1. Cardinality(Missed(table)) + 1 <= Cardinality(Below(table, f))
      BY HolesHide
    <2>2. \A n : Below(table, n) \subseteq Below(fds, n) \union {conn}
                /\ Below(table, n) \in SUBSET Fds /\ Below(fds, n) \in SUBSET Fds
      BY DEF Below
    <2>3. Cardinality(Below(table, f)) <= Cardinality(Below(fds, f)) + 1
      <3>1. Below(fds, f) \union {conn} \in SUBSET Fds
        BY <1>2, <2>2
      <3>2. Cardinality(Below(table, f)) <= Cardinality(Below(fds, f) \union {conn})
        BY <2>2, <3>1, Smaller
      <3>3. /\ Cardinality(Below(fds, f)) \in Nat
            /\ Cardinality(Below(table, f)) \in Nat
        BY <2>2, Sizes
      <3>4. Cardinality(Below(fds, f) \union {conn}) <= Cardinality(Below(fds, f)) + 1
        BY <1>2, <2>2, <3>3, OneMore
      <3> QED BY <3>1, <3>2, <3>3, <3>4, Sizes
    <2>4. Cardinality(Below(fds, f)) + Cardinality(N) <= opens
      BY <1>1, <1>6 DEF Young
    <2>5. \E b \in N : b # f
      <3>1. Anchored(N)
        <4>1. mode # 0
          BY <1>1, <1>6 DEF Young, YoungInv
        <4> QED BY <1>1, <1>6, <4>1 DEF Young
      <3>2. PICK b \in N : \A n \in Fds : n < b => fds[n] # "free"
        BY <3>1 DEF Anchored
      <3>3. Below(table, b) \in SUBSET {conn} /\ {conn} \in SUBSET Fds
        BY <1>2, <2>2, <3>2 DEF Below
      <3>4. Cardinality(Below(table, b)) <= 1
        BY <3>3, Smaller, FS_Singleton
      <3>5. b = f => Cardinality(Missed(table)) = 0
        BY <1>3, <2>1, <2>2, <3>4, Sizes
      <3>6. Cardinality(Missed(table)) # 0
        BY <1>3, <1>6, Sizes, FS_EmptySet
      <3> QED BY <3>5, <3>6
    <2>6. Cardinality(N) >= 2
      <3>1. PICK b \in N : b # f
        BY <2>5
      <3>2. {f, b} \in SUBSET N /\ {f} \in SUBSET Fds /\ b \in Fds /\ b \notin {f} /\ {f, b} = {f} \union {b}
        BY <1>1, <1>6, <3>1
      <3>3. Cardinality({f} \union {b}) = Cardinality({f}) + 1 /\ Cardinality({f}) = 1
        BY <3>2, OneMore, FS_Singleton
      <3>4. Cardinality({f, b}) = 2
        BY <3>2, <3>3
      <3> QED BY <3>2, <3>4, Smaller, Sizes
    <2>7. /\ Cardinality(Missed(table)) \in Nat /\ Cardinality(Below(table, f)) \in Nat
          /\ Cardinality(Below(fds, f)) \in Nat /\ Cardinality(N) \in Nat
      BY <1>3, <2>2, Sizes
    <2> QED BY <1>4, <2>1, <2>3, <2>4, <2>6, <2>7
  <1> QED BY <1>5, <1>6

\* A new enclave: its bootstrap.lua is loaded, under a full table.
LEMMA SetupAnchors ==
  ASSUME NEW table \in Tables, \E a, b \in Free(table) : a # b
  PROVE  \E b \in Free(table) :
           /\ SetupEnclave(table)[b] = "loaded"
           /\ \A n \in Fds : n < b => SetupEnclave(table)[n] # "free"
           /\ \A n \in Fds : n # b => (SetupEnclave(table)[n] \in Files <=> table[n] \in Files)
           /\ Holds(SetupEnclave(table), {"data"}) = Holds(table, {"data"})
  <1>1. PICK device : device = IF Holds(table, {"isgx"}) = {} THEN Opened(table, "isgx") ELSE table
    OBVIOUS
  <1>2. /\ device \in Tables /\ Free(device) # {} /\ Free(device) \subseteq Free(table)
        /\ \A n \in Fds : device[n] = table[n] \/ (table[n] = "free" /\ device[n] = "isgx")
    <2>1. CASE device = table
      BY <2>1
    <2>2. CASE device = Opened(table, "isgx")
      <3>1. /\ device \in Tables
            /\ Lowest(table) \in Fds /\ table[Lowest(table)] = "free"
            /\ device[Lowest(table)] = "isgx"
            /\ \A n \in Fds : n # Lowest(table) => device[n] = table[n]
            /\ Free(table) \ {Lowest(table)} \subseteq Free(device)
        BY <2>2, OpenedKeeps DEF Kinds
      <3> QED BY <3>1 DEF Free
    <2> QED BY <1>1, <2>1, <2>2
  <1>3. PICK b : b = Lowest(device)
    OBVIOUS
  <1>4. /\ b \in Fds /\ device[b] = "free"
        /\ SetupEnclave(table)[b] = "loaded"
        /\ \A n \in Fds : n # b => SetupEnclave(table)[n] = device[n]
    BY <1>1, <1>2, <1>3, OpenedKeeps DEF SetupEnclave, Kinds
  <1>5. \A n \in Fds : n < b => device[n] # "free"
    BY <1>2, <1>3, LowestIsFree
  <1>6. \A n \in Fds : n < b => n # b
    BY FdAssumption DEF Fds
  <1>7. b \in Free(table)
    BY <1>2, <1>4 DEF Free
  <1>8. \A n \in Fds : n < b => SetupEnclave(table)[n] # "free"
    BY <1>4, <1>5, <1>6
  <1>9. \A n \in Fds : n # b => (SetupEnclave(table)[n] \in Files <=> table[n] \in Files)
    BY <1>2, <1>4 DEF Files
  <1>10. Holds(SetupEnclave(table), {"data"}) = Holds(table, {"data"})
    BY <1>2, <1>4 DEF Holds
  <1> QED BY <1>4, <1>7, <1>8, <1>9, <1>10

\* After an enclave is created, bootstrap.lua alone is young.
LEMMA YoungSetup ==
  ASSUME NEW table \in Tables, \E a, b \in Free(table) : a # b,
         Holds(table, {"data"}) = {}, Cardinality(Holds(table, Files)) + 2 <= MaxOpens,
         fds' = SetupEnclave(table), opens' = 1, mode' # 0
  PROVE  Holds(fds, {"data"})' = {} /\ \E N \in SUBSET Fds : Young(N)'
  <1>1. PICK b \in Free(table) :
           /\ fds'[b] = "loaded"
           /\ \A n \in Fds : n < b => fds'[n] # "free"
           /\ \A n \in Fds : n # b => (fds'[n] \in Files <=> table[n] \in Files)
           /\ Holds(fds', {"data"}) = Holds(table, {"data"})
    BY SetupAnchors
  <1>2. b \in Fds /\ table[b] = "free"
    BY DEF Free
  <1>3. Holds(fds', {"data"}) = {} /\ \A n \in Fds : fds'[n] # "data"
    BY <1>1 DEF Holds
  <1>4. Holds(fds', Files) \ {b} = Holds(table, Files) /\ b \in Holds(fds', Files)
    BY <1>1, <1>2 DEF Holds, Files
  <1>5. Cardinality(Below(fds', b)) = 0 /\ Cardinality({b}) = 1
    <2>1. Below(fds', b) = {}
      BY <1>1 DEF Below
    <2> QED BY <2>1, FS_EmptySet, FS_Singleton
  <1>6. Young({b})'
    <2>1. Anchored({b})'
      BY <1>1, <1>3 DEF Anchored
    <2> QED BY <1>3, <1>4, <1>5, <2>1 DEF Young
  <1> QED BY <1>2, <1>3, <1>6

\* What is opened is young, and fills the lowest hole.
LEMMA YoungOpened ==
  ASSUME YoungInv, Inv, phase = "exec" \/ (phase = "code" /\ mode = 1),
         Free(fds) # {}, NEW kind \in Files,
         fds' = Opened(fds, kind), opens' = opens + 1, UNCHANGED <<mode, phase>>,
         mode = 0 => kind = "data"
  PROVE  \E N \in SUBSET Fds : Young(N)'
  <1>1. PICK N \in SUBSET Fds : Young(N)
    BY DEF YoungInv
  <1>2. PICK l : l = Lowest(fds)
    OBVIOUS
  <1>3. /\ l \in Fds /\ fds[l] = "free" /\ fds'[l] = kind
        /\ \A n \in Fds : n # l => fds'[n] = fds[n]
        /\ \A n \in Fds : n < l => fds[n] # "free"
    BY <1>2, OpenedKeeps, LowestIsFree DEF Inv, Files, Kinds
  <1>4. kind # "free" /\ "free" \notin Files /\ "data" \in Files
    BY DEF Files
  <1>5. l \notin N /\ N \union {l} \in SUBSET Fds
    BY <1>1, <1>3, <1>4 DEF Young, Holds
  <1>6. Cardinality(N \union {l}) = Cardinality(N) + 1 /\ Cardinality(N) \in Nat
    BY <1>3, <1>5, OneMore, Sizes
  <1>7. /\ Holds(fds', Files) = Holds(fds, Files) \union {l}
        /\ Holds(fds', Files) \ (N \union {l}) = Holds(fds, Files) \ N
    BY <1>3, <1>4, <1>5 DEF Holds
  <1>8. ASSUME NEW n \in N \union {l}
        PROVE  Cardinality(Below(fds', n)) + Cardinality(N \union {l}) <= opens'
    <2>0. opens \in Nat /\ opens' = opens + 1
      BY DEF YoungInv
    <2>1. CASE n = l
      <3>1. Below(fds', l) = {}
        BY <1>3, <1>4 DEF Below
      <3>2. Cardinality(Below(fds', n)) = 0
        BY <2>1, <3>1, FS_EmptySet
      <3>3. Cardinality(N) <= opens
        <4>1. CASE N = {}
          BY <2>0, <4>1, FS_EmptySet
        <4>2. ASSUME NEW m \in N PROVE Cardinality(N) <= opens
          <5>1. Cardinality(Below(fds, m)) + Cardinality(N) <= opens
            BY <1>1 DEF Young
          <5>2. Cardinality(Below(fds, m)) \in Nat
            BY Sizes DEF Below
          <5> QED BY <1>6, <2>0, <5>1, <5>2
        <4> QED BY <4>1, <4>2
      <3> QED BY <1>6, <2>0, <3>2, <3>3
    <2>2. CASE n \in N
      <3>1. Below(fds', n) \in SUBSET Below(fds, n) /\ Below(fds, n) \in SUBSET Fds
        BY <1>3, <1>4 DEF Below
      <3>2. /\ Cardinality(Below(fds', n)) <= Cardinality(Below(fds, n))
            /\ Cardinality(Below(fds', n)) \in Nat /\ Cardinality(Below(fds, n)) \in Nat
        BY <3>1, Smaller, Sizes
      <3>3. Cardinality(Below(fds, n)) + Cardinality(N) <= opens
        BY <1>1, <2>2 DEF Young
      <3> QED BY <1>6, <2>0, <3>2, <3>3
    <2> QED BY <2>1, <2>2
  <1>9. Holds(fds', {"data"}) \subseteq N \union {l}
    BY <1>1, <1>3 DEF Young, Holds
  <1>10. mode = 0 => N \union {l} \subseteq Holds(fds', {"data"})
    BY <1>1, <1>3, <1>5 DEF Young, Holds
  <1>11. mode # 0 => Anchored(N \union {l})'
    <2> SUFFICES ASSUME mode # 0 PROVE Anchored(N \union {l})'
      OBVIOUS
    <2>1. PICK b \in N : fds[b] = "loaded" /\ \A n \in Fds : n < b => fds[n] \notin {"free", "data"}
      BY <1>1 DEF Young, Anchored
    <2>2. ~(l < b) /\ b # l /\ b \in Fds
      BY <1>3, <1>5, <2>1
    <2>3. \A n \in Fds : n < b => n # l
      BY <2>2
    <2> QED BY <1>3, <2>1, <2>2, <2>3 DEF Anchored
  <1>12. Young(N \union {l})'
    <2>1. N \union {l} \subseteq Holds(fds', Files)
      BY <1>1, <1>7 DEF Young
    <2>2. Cardinality(Holds(fds', Files) \ (N \union {l})) + 2 <= MaxOpens
      BY <1>1, <1>7 DEF Young
    <2> QED BY <1>8, <1>9, <1>10, <1>11, <2>1, <2>2 DEF Young
  <1> QED BY <1>5, <1>12

\* A file that is closed leaves one young file less, and one hole more.
LEMMA YoungClosed ==
  ASSUME YoungInv, phase = "exec", NEW n \in Fds, fds[n] = "data",
         fds' = [fds EXCEPT ![n] = "free"], Inv, UNCHANGED <<mode, phase, opens>>
  PROVE  \E N \in SUBSET Fds : Young(N)'
  <1>1. PICK N \in SUBSET Fds : Young(N)
    BY DEF YoungInv
  <1>2. fds'[n] = "free" /\ \A m \in Fds : m # n => fds'[m] = fds[m]
    BY DEF Inv, Tables
  <1>3. n \in N /\ N \ {n} \in SUBSET Fds
    BY <1>1 DEF Young, Holds
  <1>4. Cardinality(N) = Cardinality(N \ {n}) + 1 /\ Cardinality(N \ {n}) \in Nat
    <2>1. (N \ {n}) \union {n} = N
      BY <1>3
    <2>2. Cardinality((N \ {n}) \union {n}) = Cardinality(N \ {n}) + 1
      BY <1>3, OneMore
    <2> QED BY <1>3, <2>1, <2>2, Sizes
  <1>5. "free" \notin Files /\ "data" \in Files
    BY DEF Files
  <1>6. Holds(fds', Files) \ (N \ {n}) = Holds(fds, Files) \ N
    BY <1>2, <1>3, <1>5 DEF Holds
  <1>7. ASSUME NEW m \in N \ {n}
        PROVE  Cardinality(Below(fds', m)) + Cardinality(N \ {n}) <= opens
    <2>1. Below(fds', m) \in SUBSET (Below(fds, m) \union {n}) /\ Below(fds, m) \in SUBSET Fds
      BY <1>2 DEF Below
    <2>2. Below(fds, m) \union {n} \in SUBSET Fds
      BY <2>1
    <2>3. Cardinality(Below(fds', m)) <= Cardinality(Below(fds, m) \union {n})
      BY <2>1, <2>2, Smaller
    <2>4. /\ Cardinality(Below(fds', m)) \in Nat /\ Cardinality(Below(fds, m)) \in Nat
      BY <2>1, <2>2, Sizes
    <2>5. Cardinality(Below(fds, m) \union {n}) <= Cardinality(Below(fds, m)) + 1
      BY <2>1, <2>4, OneMore
    <2>6. Cardinality(Below(fds, m)) + Cardinality(N) <= opens /\ opens \in Nat
      BY <1>1 DEF Young, YoungInv
    <2>7. Cardinality(Below(fds, m) \union {n}) \in Nat
      BY <2>2, Sizes
    <2> QED BY <1>4, <2>3, <2>4, <2>5, <2>6, <2>7
  <1>8. N \ {n} \subseteq Holds(fds', Files) /\ Holds(fds', {"data"}) \subseteq N \ {n}
    BY <1>1, <1>2 DEF Young, Holds
  <1>9. mode = 0 => N \ {n} \subseteq Holds(fds', {"data"})
    BY <1>1, <1>2 DEF Young, Holds
  <1>10. mode # 0 => Anchored(N \ {n})'
    <2> SUFFICES ASSUME mode # 0 PROVE Anchored(N \ {n})'
      OBVIOUS
    <2>1. PICK b \in N : fds[b] = "loaded" /\ \A m \in Fds : m < b => fds[m] \notin {"free", "data"}
      BY <1>1 DEF Young, Anchored
    <2>2. b # n /\ b \in Fds /\ \A m \in Fds : m < b => m # n
      BY <2>1
    <2> QED BY <1>2, <2>1, <2>2 DEF Anchored
  <1>11. Cardinality(Holds(fds', Files) \ (N \ {n})) + 2 <= MaxOpens
    BY <1>1, <1>6 DEF Young
  <1>12. Young(N \ {n})'
    BY <1>7, <1>8, <1>9, <1>10, <1>11 DEF Young
  <1> QED BY <1>3, <1>12

\* The Lua state is closed, and its files with it.
LEMMA YoungEnded ==
  ASSUME YoungInv, Inv, phase = "exec", UNCHANGED <<mode, opens>>,
         fds' = [n \in Fds |-> IF fds[n] = "data" THEN "free" ELSE fds[n]]
  PROVE  Holds(fds, {"data"})' = {} /\ \E N \in SUBSET Fds : Young(N)'
  <1>0. PICK D : D = Holds(fds, {"data"})
    OBVIOUS
  <1>1. PICK N \in SUBSET Fds : Young(N)
    BY DEF YoungInv
  <1>2. \A n \in Fds : fds'[n] = IF fds[n] = "data" THEN "free" ELSE fds[n]
    OBVIOUS
  <1>3. D \in SUBSET N /\ N \ D \in SUBSET Fds /\ D \in SUBSET Fds /\ Holds(fds', {"data"}) = {}
    BY <1>0, <1>1, <1>2 DEF Young, Holds
  <1>4. /\ Cardinality(N) = Cardinality(N \ D) + Cardinality(D)
        /\ Cardinality(N \ D) \in Nat /\ Cardinality(D) \in Nat
    <2>1. (N \ D) \union D = N /\ (N \ D) \intersect D = {}
      BY <1>3
    <2>2. Cardinality((N \ D) \union D) = Cardinality(N \ D) + Cardinality(D)
      BY <1>3, <2>1, Disjoint
    <2> QED BY <1>3, <2>1, <2>2, Sizes
  <1>5. /\ Holds(fds', Files) \ (N \ D) = Holds(fds, Files) \ N
        /\ N \ D \subseteq Holds(fds', Files)
    BY <1>0, <1>1, <1>2, <1>3 DEF Young, Holds, Files
  <1>6. ASSUME NEW m \in N \ D
        PROVE  Cardinality(Below(fds', m)) + Cardinality(N \ D) <= opens
    <2>1. Below(fds', m) \in SUBSET (Below(fds, m) \union D) /\ Below(fds, m) \in SUBSET Fds
      BY <1>0, <1>2 DEF Below, Holds
    <2>2. Below(fds, m) \intersect D = {} /\ Below(fds, m) \union D \in SUBSET Fds
      BY <1>0, <1>3, <2>1 DEF Below, Holds
    <2>3. Cardinality(Below(fds', m)) <= Cardinality(Below(fds, m) \union D)
      BY <2>1, <2>2, Smaller
    <2>4. Cardinality(Below(fds, m) \union D) = Cardinality(Below(fds, m)) + Cardinality(D)
      BY <1>3, <2>1, <2>2, Disjoint
    <2>5. Cardinality(Below(fds', m)) \in Nat /\ Cardinality(Below(fds, m)) \in Nat
      BY <2>1, <2>2, Sizes
    <2>6. Cardinality(Below(fds, m)) + Cardinality(N) <= opens /\ opens \in Nat
      BY <1>1 DEF Young, YoungInv
    <2> QED BY <1>4, <2>3, <2>4, <2>5, <2>6
  <1>7. mode = 0 => N \ D \subseteq Holds(fds', {"data"})
    BY <1>0, <1>1 DEF Young
  <1>8. mode # 0 => Anchored(N \ D)'
    <2> SUFFICES ASSUME mode # 0 PROVE Anchored(N \ D)'
      OBVIOUS
    <2>1. PICK b \in N : fds[b] = "loaded" /\ \A m \in Fds : m < b => fds[m] \notin {"free", "data"}
      BY <1>1 DEF Young, Anchored
    <2>2. b \in N \ D /\ fds'[b] = "loaded"
      BY <1>0, <1>2, <2>1 DEF Holds
    <2> QED BY <1>2, <2>1, <2>2 DEF Anchored
  <1>9. Young(N \ D)'
    <2>1. Cardinality(Holds(fds', Files) \ (N \ D)) + 2 <= MaxOpens
      BY <1>1, <1>5 DEF Young
    <2> QED BY <1>3, <1>5, <1>6, <1>7, <1>8, <2>1 DEF Young
  <1> QED BY <1>3, <1>9

\* The files of an aborted enclave change hands, and stay young.
LEMMA YoungOrphaned ==
  ASSUME YoungInv, Inv, phase = "exec", mode # 0, UNCHANGED <<mode, opens>>, fds' = Orphaned(fds)
  PROVE  Holds(fds, {"data"})' = {} /\ \E N \in SUBSET Fds : Young(N)'
  <1>1. PICK N \in SUBSET Fds : Young(N)
    BY DEF YoungInv
  <1>2. \A n \in Fds : fds'[n] = IF fds[n] = "data" THEN "loaded" ELSE fds[n]
    BY DEF Orphaned
  <1>3. Holds(fds', {"data"}) = {} /\ Holds(fds', Files) = Holds(fds, Files)
    BY <1>2 DEF Holds, Files
  <1>4. \A n : Below(fds', n) = Below(fds, n)
    BY <1>2 DEF Below
  <1>5. Anchored(N)'
    BY <1>1, <1>2 DEF Young, Anchored
  <1>6. Young(N)'
    BY <1>1, <1>3, <1>4, <1>5 DEF Young
  <1> QED BY <1>3, <1>6

LEMMA InitYoung == Init => YoungInv
  <1> SUFFICES ASSUME Init PROVE YoungInv
    OBVIOUS
  <1>1. \A n \in Fds : fds[n] \notin {"data", "loaded"}
    BY DEF Init
  <1>2. Holds(fds, {"data"}) = {} /\ Holds(fds, Files) = {}
    BY <1>1 DEF Holds, Files
  <1>3. Cardinality(Holds(fds, Files)) = 0
    BY <1>2, FS_EmptySet
  <1> QED BY <1>2, <1>3, FdAssumption DEF Init, YoungInv, LeftoversBounded

LEMMA NextYoung == Inv /\ YoungInv /\ Roomy /\ [Next]_vars => YoungInv'
  <1> SUFFICES ASSUME Inv, YoungInv, Roomy, [Next]_vars PROVE YoungInv'
    OBVIOUS
  <1>0. /\ fds \in Tables /\ Free(fds) # {} /\ \E a, b \in Free(fds) : a # b
        /\ MaxOpens \in Nat /\ MaxOpens >= 2
    BY FdAssumption DEF Roomy, Inv
  <1>1. CASE UNCHANGED vars
    <2>1. fds' = fds /\ mode' = mode /\ phase' = phase /\ opens' = opens
      BY <1>1 DEF vars
    <2>2. ASSUME NEW N \in SUBSET Fds, Young(N) PROVE Young(N)'
      BY <2>1, <2>2 DEF Young, Anchored
    <2> QED BY <2>1, <2>2 DEF YoungInv, LeftoversBounded
  <1>2. ASSUME NEW m \in 0..2, Accept(m) PROVE YoungInv'
    <2>1. /\ phase = "accept" /\ phase' = "code" /\ mode' = m
          /\ opens' \in {0, 1} /\ (m = 1 => opens' = 1)
      BY <1>2 DEF Accept
    <2>2. PICK table : table = Opened(fds, "socket")
      OBVIOUS
    <2>3. /\ table \in Tables /\ Lowest(fds) \in Fds /\ fds[Lowest(fds)] = "free"
          /\ table[Lowest(fds)] = "socket"
          /\ \A n \in Fds : n # Lowest(fds) => table[n] = fds[n]
          /\ Free(fds) \ {Lowest(fds)} \subseteq Free(table)
      BY <1>0, <2>2, OpenedKeeps DEF Kinds
    <2>4. Holds(table, {"data"}) = {} /\ Holds(table, Files) = Holds(fds, Files)
      BY <2>1, <2>3 DEF Holds, Files, YoungInv
    <2>5. Cardinality(Holds(table, Files)) + 2 <= MaxOpens
      BY <2>1, <2>4 DEF YoungInv, LeftoversBounded
    <2>6. Holds(fds, {"data"})' = {} /\ \E N \in SUBSET Fds : Young(N)'
      <3>1. CASE m = 1
        <4>1. fds' = SetupEnclave(table) /\ opens' = 1 /\ mode' # 0
          BY <1>2, <2>1, <2>2, <3>1 DEF Accept
        <4>2. \E a, b \in Free(table) : a # b
          BY <2>3 DEF Roomy
        <4> QED BY <2>3, <2>4, <2>5, <4>1, <4>2, YoungSetup
      <3>2. CASE m # 1
        <4>1. fds' = table
          BY <1>2, <2>2, <3>2 DEF Accept
        <4>2. Holds(fds', Files) \ {} = Holds(table, Files)
          BY <4>1
        <4>3. Young({})'
          BY <2>1, <2>4, <2>5, <3>2, <4>1, <4>2 DEF Young
        <4> QED BY <2>4, <4>1, <4>3
      <3> QED BY <3>1, <3>2
    <2> QED BY <1>0, <2>1, <2>6 DEF YoungInv, LeftoversBounded
  <1>3. CASE RecvCode
    <2>1. /\ phase = "code" /\ phase' = "exec" /\ mode' = mode /\ conn' = conn
      BY <1>3 DEF RecvCode
    <2>2. CASE mode = 2
      <3>1. PICK table : table = CloseOpenFds(fds, Welcome)
        OBVIOUS
      <3>2. SameSockets(fds, table) /\ Free(fds) \subseteq Free(table)
        BY <1>0, <3>1, CleanupKeeps
      <3>3. table \in Tables /\ \E a, b \in Free(table) : a # b
        BY <1>0, <3>2 DEF SameSockets
      <3>4. Holds(table, {"data"}) = {}
        BY <2>1, <2>2, <3>1 DEF YoungInv, Holds, CloseOpenFds
      <3>5. Cardinality(Holds(table, Files)) + 2 <= MaxOpens
        <4>1. \A n \in Fds : n <= Welcome => fds[n] \notin Files
          BY FdAssumption DEF Inv, Files, Fds, Welcome
        <4>2. Holds(table, Files) = Missed(fds)
          BY <1>0, <3>1, <4>1, CleanupLeaves
        <4>3. fds[conn] \in {"socket", "free"}
          BY <2>1 DEF Inv
        <4>4. Cardinality(Missed(fds)) + 2 <= MaxOpens
          BY <1>0, <2>1, <4>3, FewMissed
        <4> QED BY <4>2, <4>4
      <3>6. fds' = SetupEnclave(table) /\ opens' = 1 /\ mode' # 0
        BY <1>3, <2>1, <2>2, <3>1 DEF RecvCode
      <3>7. \E N \in SUBSET Fds : Young(N)'
        BY <3>3, <3>4, <3>5, <3>6, YoungSetup
      <3> QED BY <1>0, <2>1, <3>6, <3>7 DEF YoungInv, LeftoversBounded
    <2>3. CASE mode # 2
      <3>1. fds' = fds /\ opens' = opens
        BY <1>3, <2>3 DEF RecvCode
      <3>2. PICK N \in SUBSET Fds : Young(N)
        BY <2>1 DEF YoungInv
      <3>3. Young(N)'
        BY <2>1, <2>3, <3>1, <3>2 DEF Young, Anchored
      <3> QED BY <2>1, <3>1, <3>3 DEF YoungInv, LeftoversBounded
    <2> QED BY <2>2, <2>3
  <1>4. ASSUME NEW kind \in Files, phase = "exec" \/ (phase = "code" /\ mode = 1),
               opens < MaxOpens, opens' = opens + 1,
               fds' = Opened(fds, kind), mode = 0 => kind = "data", UNCHANGED <<mode, phase>>
        PROVE  YoungInv'
    <2>1. \E N \in SUBSET Fds : Young(N)'
      BY <1>0, <1>4, YoungOpened
    <2> QED BY <1>0, <1>4, <2>1 DEF YoungInv, LeftoversBounded
  <1>5. CASE LoadFile
    BY <1>4, <1>5 DEF LoadFile, Files
  <1>6. CASE OpenData
    BY <1>4, <1>6 DEF OpenData, Files
  <1>7. ASSUME NEW n \in Fds, CloseData(n) PROVE YoungInv'
    <2>1. \E N \in SUBSET Fds : Young(N)'
      BY <1>7, YoungClosed DEF CloseData
    <2> QED BY <1>7, <2>1 DEF CloseData, YoungInv, LeftoversBounded
  <1>8. CASE EndRequest
    <2>1. phase = "exec" /\ phase' = "code" /\ mode' = mode /\ opens' = opens
      BY <1>8 DEF EndRequest
    <2>2. CASE mode = 1
      <3>1. fds' = fds
        BY <1>8, <2>2 DEF EndRequest
      <3>2. PICK N \in SUBSET Fds : Young(N)
        BY <2>1 DEF YoungInv
      <3>3. Young(N)'
        BY <2>1, <2>2, <3>1, <3>2 DEF Young, Anchored
      <3> QED BY <2>1, <2>2, <3>1, <3>3 DEF YoungInv, LeftoversBounded
    <2>3. CASE mode # 1
      <3>1. Holds(fds, {"data"})' = {} /\ \E N \in SUBSET Fds : Young(N)'
        BY <1>8, <2>1, <2>3, YoungEnded DEF EndRequest
      <3> QED BY <2>1, <3>1 DEF YoungInv, LeftoversBounded
    <2> QED BY <2>2, <2>3
  <1>9. CASE AbortRequest
    <2>1. phase = "exec" /\ phase' = "code" /\ mode' = mode /\ opens' = opens
      BY <1>9 DEF AbortRequest
    <2>2. Holds(fds, {"data"})' = {} /\ \E N \in SUBSET Fds : Young(N)'
      BY <1>9, YoungOrphaned DEF AbortRequest
    <2> QED BY <2>1, <2>2 DEF YoungInv, LeftoversBounded
  <1>10. CASE EndSession
    <2>1. /\ phase = "code" /\ phase' = "accept" /\ mode' = mode /\ opens' = 0
          /\ conn \in Fds /\ fds[conn] = "socket"
      BY <1>10 DEF EndSession, Inv
    <2>2. PICK table : table = [fds EXCEPT ![conn] = "free"]
      OBVIOUS
    <2>3. /\ table \in Tables /\ table[conn] = "free"
          /\ \A n \in Fds : n # conn => table[n] = fds[n]
      BY <1>0, <2>1, <2>2 DEF Tables, Kinds
    <2>4. \A n \in Fds : n <= Welcome => table[n] \notin Files
      <3>1. \A n \in Fds : n <= Welcome => fds[n] \notin Files
        BY FdAssumption DEF Inv, Files, Fds, Welcome
      <3>2. "free" \notin Files
        BY DEF Files
      <3> QED BY <2>3, <3>1, <3>2
    <2>5. Cardinality(Missed(table)) + 2 <= MaxOpens
      BY <2>1, <2>3, FewMissed
    <2>6. PICK cleaned : cleaned = CloseOpenFds(table, Welcome)
      OBVIOUS
    <2>7. Holds(cleaned, Files) = Missed(table)
      BY <2>3, <2>4, <2>6, CleanupLeaves
    <2>8. fds' = Orphaned(cleaned)
      BY <1>10, <2>2, <2>6 DEF EndSession
    <2>9. Holds(fds', Files) = Holds(cleaned, Files) /\ Holds(fds', {"data"}) = {}
      BY <2>8 DEF Orphaned, Holds, Files
    <2>10. Cardinality(Holds(fds', Files)) + 2 <= MaxOpens
      BY <2>5, <2>7, <2>9
    <2> QED BY <1>0, <2>1, <2>9, <2>10 DEF YoungInv, LeftoversBounded
  <1> QED BY <1>1, <1>2, <1>3, <1>5, <1>6, <1>7, <1>8, <1>9, <1>10 DEF Next

\* However many files a session may open, and however many sessions there are:
\* while the process does not run out of descriptors, what the cleanups miss stays
\* below what one session opens (close_open_fds, funcs.cpp:306-319).
THEOREM LeftoversStayBounded == Spec /\ []Roomy => []LeftoversBounded
  <1>1. Inv /\ YoungInv => LeftoversBounded
    BY DEF YoungInv
  <1> QED BY <1>1, InitInv, NextInv, InitYoung, NextYoung, PTL DEF Spec
=============================================================================
